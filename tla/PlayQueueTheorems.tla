------------------------- MODULE PlayQueueTheorems -------------------------
(***************************************************************************)
(* What holds of the queue after any sequence of the session's operations, *)
(* for any tracks and any length.                                          *)
(***************************************************************************)
EXTENDS PlayQueue, QueueSync, QueueTheorems

\* The queue between two operations.  Sound is what makes each operation's hand
\* made edit of the permutation right: it is never repaired, so every position
\* below the length is one track's, before and after.
Inv ==
    /\ GoodQueue(queue, Track)
    /\ OnceEach(queue.items)
    /\ Len(queue.items) <= MaxLen
    /\ Len(queue.history) <= MaxHistory

\* What is played before and after.
KeepsPlaying == queue.items # <<>> => CurrentTrack(queue') = CurrentTrack(queue)

\* The play order up to the current track.
SparesPast ==
    queue.items # <<>> =>
        IsPrefix(SubSeq(PlayOrder(queue), 1, queue.current + 1), PlayOrder(queue'))

\* The history stands for the same tracks, without those that left.
KeepsHistory ==
    Gone \notin Range(HistoryTracks(queue)) =>
        HistoryTracks(queue') = Kept(HistoryTracks(queue), ToSet(queue'.items))

\* The tracks handed in went in together, after the others up to at.
AddsTogether(at, t) == Together(PlayOrder(queue'), PlayOrder(queue), at, Len(t))

-----------------------------------------------------------------------------
(* The inputs.                                                               *)

LEMMA DistinctSeqsIs ==
  ASSUME NEW S \in SUBSET Track, NEW lengths, NEW t \in DistinctSeqs(S, lengths)
  PROVE  /\ t \in Seq(Track) /\ Len(t) \in lengths
         /\ OnceEach(t) /\ \A i \in 1 .. Len(t) : t[i] \in S
<1>1. PICK U \in SUBSET S : Cardinality(U) \in lengths /\ t \in SetToSeqs(U)
  BY DEF DistinctSeqs
<1>2. IsFiniteSet(U)
  BY <1>1, PlayQueueAssumption, FS_Subset
<1>3. Lists(t, U)
  BY <1>1, <1>2, SetToSeqsIs
<1>4. t \in Seq(U) /\ Len(t) = Cardinality(U) /\ OnceEach(t)
  BY <1>3 DEF Lists, OnceEach
<1>5. \A i \in 1 .. Len(t) : t[i] \in U
  BY <1>4
<1> QED
  BY <1>1, <1>4, <1>5

LEMMA NewTracksIs ==
  ASSUME NEW t \in NewTracks
  PROVE  t \in Seq(Track) /\ t # <<>> /\ NewTo(queue, t)
<1>1. /\ t \in Seq(Track) /\ Len(t) \in 1 .. 2 /\ OnceEach(t)
      /\ \A i \in 1 .. Len(t) : t[i] \in Track \ ToSet(queue.items)
  BY DistinctSeqsIs DEF NewTracks
<1> QED
  BY <1>1 DEF NewTo

LEMMA UpcomingFromIs ==
  ASSUME GoodQueue(queue, Track)
  PROVE  /\ UpcomingFrom \in 0 .. Len(queue.items)
         /\ queue.items # <<>> => UpcomingFrom = queue.current + 1
<1>1. queue.items \in Seq(Track) /\ queue.current \in Nat /\ Pointing(queue)
  BY DEF GoodQueue, QueueRecord
<1> QED
  BY <1>1 DEF UpcomingFrom, Pointing

LEMMA TrackAtIs ==
  ASSUME NEW q, GoodQueue(q, Track), NEW pos \in 0 .. Len(q.items) - 1
  PROVE  HasTrack(q, pos) /\ TrackAt(q, pos) \in Track
<1>1. /\ q \in QueueRecord(Track) /\ Sound(q) /\ q.items \in Seq(Track)
      /\ q.order \in Seq(Nat) /\ Len(q.items) \in Nat
  BY DEF GoodQueue, QueueRecord
<1>2. HasTrack(q, pos)
  BY <1>1, SoundQueue
<1>3. PhysicalIndexOf(q, pos) \in 0 .. Len(q.items) - 1
  BY <1>1 DEF PhysicalIndexOf, Sound, Permutes
<1> QED
  BY <1>1, <1>2, <1>3 DEF TrackAt

LEMMA PlayOrderIs ==
  ASSUME NEW q, GoodQueue(q, Track)
  PROVE  /\ PlayOrder(q) \in Seq(Track) /\ Len(PlayOrder(q)) = Len(q.items)
         /\ Len(q.items) \in Nat
         /\ \A i \in 1 .. Len(q.items) : PlayOrder(q)[i] = TrackAt(q, i - 1)
<1>1. Len(q.items) \in Nat
  BY DEF GoodQueue, QueueRecord
<1>2. \A i \in 1 .. Len(q.items) :
         TrackOrGone(q, i - 1) = TrackAt(q, i - 1) /\ TrackAt(q, i - 1) \in Track
  <2> TAKE i \in 1 .. Len(q.items)
  <2>1. i - 1 \in 0 .. Len(q.items) - 1
    BY <1>1
  <2> QED
    BY <2>1, TrackAtIs DEF TrackOrGone
<1>3. PlayOrder(q) = [i \in 1 .. Len(q.items) |-> TrackAt(q, i - 1)]
  BY <1>2 DEF PlayOrder
<1>4. [i \in 1 .. Len(q.items) |-> TrackAt(q, i - 1)] \in Seq(Track)
  BY <1>1, <1>2, IsASeq
<1> QED
  BY <1>1, <1>3, <1>4

\* Queues whose positions up to the current one hold the same tracks.
LEMMA SparesPastIs ==
  ASSUME NEW q, GoodQueue(q, Track), NEW r, GoodQueue(r, Track), q.items # <<>>,
         q.current < Len(r.items),
         \A pos \in 0 .. q.current : TrackAt(r, pos) = TrackAt(q, pos)
  PROVE  IsPrefix(SubSeq(PlayOrder(q), 1, q.current + 1), PlayOrder(r))
<1> DEFINE o == PlayOrder(q)
           t == PlayOrder(r)
           k == q.current + 1
           u == SubSeq(o, 1, k)
           v == SubSeq(t, 1, k)
<1>1. /\ o \in Seq(Track) /\ Len(o) = Len(q.items)
      /\ \A i \in 1 .. Len(o) : o[i] = TrackAt(q, i - 1)
  BY PlayOrderIs
<1>2. /\ t \in Seq(Track) /\ Len(t) = Len(r.items) /\ Len(t) \in Nat
      /\ \A i \in 1 .. Len(t) : t[i] = TrackAt(r, i - 1)
  BY PlayOrderIs
<1> HIDE DEF o, t
<1>3. k \in Nat /\ 1 <= k /\ k <= Len(o) /\ k <= Len(t) /\ q.current \in Nat
  <2>1. q.current \in Nat /\ q.current < Len(q.items)
    BY DEF GoodQueue, Pointing, QueueRecord
  <2> QED
    BY <1>1, <1>2, <2>1
<1>4. Part(u, Track, o, 1, k) /\ Part(v, Track, t, 1, k)
  BY <1>1, <1>2, <1>3, PartIs
<1>5. \A i \in 1 .. k : o[i] = t[i]
  <2> TAKE i \in 1 .. k
  <2>1. i - 1 \in 0 .. q.current /\ i \in 1 .. Len(o) /\ i \in 1 .. Len(t)
    BY <1>3
  <2> QED
    BY <1>1, <1>2, <2>1
<1> HIDE DEF k, u, v
<1>6. /\ k - 1 + 1 = k /\ \A i \in 1 .. k : 1 + i - 1 = i
  BY <1>3
<1>7. /\ u \in Seq(Track) /\ Len(u) = k /\ \A i \in 1 .. k : u[i] = o[i]
  BY <1>3, <1>4, <1>6 DEF Part
<1>8. /\ v \in Seq(Track) /\ Len(v) = k /\ \A i \in 1 .. k : v[i] = t[i]
  BY <1>3, <1>4, <1>6 DEF Part
<1>9. u = v
  BY <1>5, <1>7, <1>8, SeqEqual
<1>10. SubSeq(u, 1, k) = u
  BY <1>7, SubSeqFull
<1> QED
  BY <1>2, <1>3, <1>7, <1>9, <1>10 DEF IsPrefix, o, t, u, v, k

LEMMA BecomesIs ==
  ASSUME NEW name, NEW results, Becomes(name, results)
  PROVE  /\ queue' \in results /\ op' = name
         /\ Len(queue'.items) <= MaxLen /\ Len(queue'.history) <= MaxHistory
BY DEF Becomes


\* An insertion is a splice of the play order.
LEMMA InsertedTogether ==
  ASSUME GoodQueue(queue, Track), GoodQueue(queue', Track), NEW t \in NewTracks,
         NEW at \in 0 .. Len(queue.items), Inserted(queue', queue, Track, at, t)
  PROVE  AddsTogether(at, t)
<1> DEFINE o == PlayOrder(queue)
           u == PlayOrder(queue')
           n == Len(queue.items)
           c == Len(t)
<1>1. t \in Seq(Track) /\ t # <<>> /\ \A i \in 1 .. c : t[i] \notin ToSet(queue.items)
  BY NewTracksIs DEF NewTo
<1>2. /\ o \in Seq(Track) /\ Len(o) = n /\ n \in Nat
      /\ \A i \in 1 .. n : o[i] = TrackAt(queue, i - 1)
  BY PlayOrderIs
<1>3. /\ u \in Seq(Track) /\ Len(u) = Len(queue'.items)
      /\ \A i \in 1 .. Len(queue'.items) : u[i] = TrackAt(queue', i - 1)
  BY PlayOrderIs
<1>4. /\ Len(queue'.items) = n + c
      /\ \A pos \in 0 .. n - 1 :
            TrackAt(queue', IF pos < at THEN pos ELSE pos + c) = TrackAt(queue, pos)
      /\ \A i \in 1 .. c : TrackAt(queue', at + i - 1) = t[i]
  BY DEF Inserted
<1>5. \A pos \in 0 .. n - 1 : TrackAt(queue, pos) \in ToSet(queue.items)
  BY TracksAre DEF GoodQueue
<1>6. c \in Nat /\ at \in Nat /\ at <= n
  BY <1>1, <1>2
<1> HIDE DEF o, u, n, c
<1>7. \A i \in 1 .. n : i - 1 \in 0 .. n - 1
  BY <1>2
<1>8. \A i \in 1 .. c : t[i] \notin ToSet(o)
  <2>1. \A x \in ToSet(o) : x \in ToSet(queue.items)
    <3>1. ToSet(o) = {o[i] : i \in 1 .. n}
      <4>1. DOMAIN o = 1 .. n
        BY <1>2
      <4> QED
        BY <4>1 DEF ToSet
    <3> QED
      BY <1>2, <1>5, <1>7, <3>1
  <2> QED
    BY <1>1, <2>1
<1>9. \A i \in 1 .. at : u[i] = o[i]
  <2> TAKE i \in 1 .. at
  <2>1. i \in 1 .. n /\ i \in 1 .. n + c /\ i - 1 < at /\ i - 1 \in 0 .. n - 1
    BY <1>2, <1>6
  <2> QED
    BY <1>2, <1>3, <1>4, <2>1
<1>10. \A i \in 1 .. c : u[at + i] = t[i]
  <2> TAKE i \in 1 .. c
  <2>1. at + i \in 1 .. n + c /\ (at + i) - 1 = at + i - 1
    BY <1>2, <1>6
  <2>2. u[at + i] = TrackAt(queue', (at + i) - 1)
    BY <1>3, <1>4, <2>1
  <2> QED
    BY <1>4, <2>1, <2>2
<1>11. \A i \in at + 1 .. n : u[i + c] = o[i]
  <2> TAKE i \in at + 1 .. n
  <2>1. /\ i \in 1 .. n /\ i + c \in 1 .. n + c /\ ~(i - 1 < at) /\ i - 1 \in 0 .. n - 1
        /\ (i + c) - 1 = (i - 1) + c
    BY <1>2, <1>6
  <2>2. u[i + c] = TrackAt(queue', (i + c) - 1)
    BY <1>3, <1>4, <2>1
  <2>3. TrackAt(queue', (i - 1) + c) = TrackAt(queue, i - 1)
    BY <1>4, <2>1
  <2> QED
    BY <1>2, <2>1, <2>2, <2>3
<1>12. Spliced(u, Track, o, at, t)
  BY <1>2, <1>3, <1>4, <1>9, <1>10, <1>11 DEF Spliced, c
<1>13. at \in 0 .. Len(o)
  BY <1>2, <1>6
<1>14. Together(u, o, at, c)
  BY <1>1, <1>2, <1>8, <1>12, <1>13, SplicedTogether DEF c
<1> QED
  BY <1>14 DEF AddsTogether, u, o, c
-----------------------------------------------------------------------------
(* The operations, one by one.                                               *)

LEMMA QueueIs ==
  ASSUME Inv
  PROVE  /\ GoodQueue(queue, Track) /\ queue \in QueueRecord(Track) /\ Sound(queue)
         /\ Pointing(queue) /\ Len(queue.items) \in Nat /\ queue.current \in Nat
         /\ Ready(queue) = {queue} /\ QueueLen(queue) = Len(queue.items)
         /\ queue.items \in Seq(Track)
         /\ queue.items = <<>> <=> Len(queue.items) = 0
         /\ Single(queue) /\ OnceEach(queue.items)
<1>1. /\ GoodQueue(queue, Track) /\ queue \in QueueRecord(Track) /\ Sound(queue)
      /\ Pointing(queue) /\ OnceEach(queue.items)
  BY DEF Inv, GoodQueue
<1>2. queue.items \in Seq(Track) /\ queue.current \in Nat
  BY <1>1 DEF QueueRecord
<1>3. Ready(queue) = {queue} /\ QueueLen(queue) = Len(queue.items)
  BY <1>1, SoundQueue
<1>4. Single(queue)
  BY <1>1, SingleIs
<1> QED
  BY <1>1, <1>2, <1>3, <1>4, EmptySeq

LEMMA InvFrom ==
  ASSUME NEW name, NEW results, Becomes(name, results), GoodQueue(queue', Track),
         OnceEach(queue'.items)
  PROVE  Inv'
BY BecomesIs DEF Inv

\* What an edit leaves of the tracks and of the history.
LEMMA KeepsTrackIs ==
  ASSUME Inv, GoodQueue(queue', Track), KeepsTrack(queue', queue)
  PROVE  OnceEach(queue'.items) /\ KeepsHistory
<1>1. OnceEach(queue'.items)
  BY SingleIs DEF GoodQueue, KeepsTrack
<1>2. KeepsHistory
  <2> SUFFICES ASSUME Gone \notin Range(HistoryTracks(queue))
               PROVE  Remembers(queue)
    BY DEF KeepsHistory, KeepsTrack
  <2>1. queue.history \in Seq(Nat) /\ Len(queue.items) \in Nat
    BY QueueIs DEF QueueRecord
  <2> SUFFICES ASSUME NEW i \in 1 .. Len(queue.history)
               PROVE  queue.history[i] \in 0 .. Len(queue.items) - 1
    BY DEF Remembers
  <2>2. queue.history[i] \in Nat /\ i \in DOMAIN queue.history
    BY <2>1
  <2>3. TrackOrGone(queue, queue.history[i]) # Gone
    BY <2>2 DEF Range, HistoryTracks
  <2>4. HasTrack(queue, queue.history[i])
    BY <2>3 DEF TrackOrGone
  <2>5. queue.history[i] < Len(queue.items)
    BY <2>2, <2>4, QueueIs, SoundQueue
  <2> QED
    BY <2>1, <2>2, <2>5
<1> QED
  BY <1>1, <1>2

LEMMA ReplaceStep ==
  ASSUME Inv, NEW tracks \in Seq(Track), OnceEach(tracks), NEW start \in {Nowhere} \cup Nat, NEW keep,
         NEW on \in BOOLEAN, SetQueueReplace(tracks, start, keep, on)
  PROVE  Inv' /\ op' = "replace"
<1> DEFINE kept == KeptTracks(tracks, keep)
           bare == Replace(queue, kept)
           modes == SetShuffle(bare, on)
           starts(q) == CASE start \in Nat                -> {KeptStart(tracks, start, keep)}
                          [] start = Nowhere /\ q.shuffle  -> IndexSet(q)
                          [] start = Nowhere /\ ~q.shuffle -> {0}
           results == IF kept = <<>> THEN modes
                      ELSE UNION {UNION {JumpTo(q, i) : i \in starts(q)} : q \in modes}
<1>1. Becomes("replace", results)
  BY DEF SetQueueReplace
<1>2. kept \in Seq(Track) /\ OnceEach(kept)
  BY KeptIs, KeptOnce DEF KeptTracks
<1>s. Len(kept) \in Nat /\ (kept # <<>> => Len(kept) # 0)
  BY <1>2
<1>k. kept # <<>> => KeptStart(tracks, start, keep) \in 0 .. Len(kept) - 1
  <2> HAVE kept # <<>>
  <2> DEFINE P == {i \in 1 .. Len(tracks) : i <= start /\ tracks[i] \in keep}
             before == Cardinality(P)
             last == Len(kept) - 1
  <2>1. P \in SUBSET (1 .. Len(tracks)) /\ Len(tracks) \in Nat
    OBVIOUS
  <2>2. before \in Nat
    <3> HIDE DEF P
    <3> QED
      BY <2>1, RankIs
  <2>3. KeptStart(tracks, start, keep) =
           IF last < 0 THEN 0 ELSE IF before <= last THEN before ELSE last
    BY DEF KeptStart
  <2>4. last \in Nat
    BY <1>s
  <2> HIDE DEF before, last
  <2>5. KeptStart(tracks, start, keep) \in 0 .. last
    BY <2>2, <2>3, <2>4
  <2> QED
    BY <2>5 DEF last
<1> HIDE DEF kept
<1>3. queue' \in results /\ op' = "replace"
  BY <1>1, BecomesIs
<1>4. bare \in QueueRecord(Track) /\ bare.items = kept /\ (kept = <<>> => GoodQueue(bare, Track))
  BY <1>2, QueueIs, ReplaceIs
<1> HIDE DEF bare
<1>5. \A q \in modes : Toggled(q, bare, Track, on)
  BY <1>4, SetShuffleIs
<1> HIDE DEF modes
<1>6. GoodQueue(queue', Track) /\ queue'.items = kept
  <2>1. CASE kept = <<>>
    <3>1. queue' \in modes
      BY <1>3, <2>1
    <3> QED
      BY <1>4, <1>5, <2>1, <3>1 DEF Toggled
  <2>2. CASE kept # <<>>
    <3>1. PICK q \in modes : queue' \in UNION {JumpTo(q, i) : i \in starts(q)}
      BY <1>3, <2>2
    <3>2. PICK i \in starts(q) : queue' \in JumpTo(q, i)
      BY <3>1
    <3>3. q \in QueueRecord(Track) /\ q.items = kept /\ q.shuffle \in BOOLEAN
      BY <1>4, <1>5 DEF Toggled
    <3>4. i \in 0 .. Len(q.items) - 1
      <4>1. CASE start \in Nat
        <5>1. starts(q) = {KeptStart(tracks, start, keep)}
          <6>1. start # Nowhere
            BY <4>1 DEF Nowhere
          <6> QED
            BY <4>1, <6>1
        <5> HIDE DEF starts
        <5>2. i = KeptStart(tracks, start, keep)
          BY <3>2, <5>1
        <5> QED
          BY <1>k, <2>2, <3>3, <5>2
      <4>2. CASE start \notin Nat
        <5>1. start = Nowhere
          BY <4>2
        <5>2. starts(q) = IF q.shuffle THEN IndexSet(q) ELSE {0}
          BY <3>3, <4>2, <5>1
        <5> HIDE DEF starts
        <5>3. IndexSet(q) = 0 .. Len(q.items) - 1 /\ 0 \in 0 .. Len(q.items) - 1
          BY <1>s, <2>2, <3>3 DEF IndexSet
        <5> QED
          BY <5>2, <5>3
      <4> QED
        BY <4>1, <4>2
    <3> QED
      BY <3>2, <3>3, <3>4, JumpToIs
  <2> QED
    BY <2>1, <2>2
<1> QED
  BY <1>1, <1>2, <1>3, <1>6, InvFrom

LEMMA AppendStep ==
  ASSUME Inv, NEW t \in NewTracks, SetQueueAppend(t)
  PROVE  /\ Inv' /\ KeepsPlaying /\ KeepsHistory /\ op' = "append"
         /\ AddsTogether(Len(queue.items), t) /\ Len(queue'.items) = Len(queue.items) + Len(t)
<1>1. Becomes("append", {Add(queue, t)})
  BY DEF SetQueueAppend
<1>2. queue' = Add(queue, t) /\ op' = "append"
  BY <1>1, BecomesIs
<1>3. t \in Seq(Track) /\ NewTo(queue, t)
  BY NewTracksIs
<1>4. /\ Inserted(queue', queue, Track, Len(queue.items), t)
      /\ queue'.current = queue.current /\ queue'.history = queue.history
  BY <1>2, <1>3, QueueIs, AddIs
<1>5. /\ queue.items # <<>> => queue.current < Len(queue.items)
      /\ queue.items = <<>> => queue.current = 0
      /\ Len(queue.items) \in 0 .. Len(queue.items)
  BY QueueIs DEF Pointing
<1>6. GoodQueue(queue', Track) /\ KeepsPlaying
  BY <1>3, <1>4, <1>5, QueueIs, InsertedKeepsPointer DEF KeepsPlaying
<1>7. Remembers(queue) =>
         queue.history = ShiftAtOrAfter(queue.history, Len(queue.items), Len(t))
  <2> DEFINE h == queue.history
             n == Len(queue.items)
  <2>1. h \in Seq(Nat) /\ n \in Nat
    BY QueueIs DEF QueueRecord
  <2> SUFFICES ASSUME \A i \in 1 .. Len(h) : h[i] \in 0 .. n - 1
               PROVE  h = ShiftAtOrAfter(h, n, Len(t))
    BY DEF Remembers
  <2> HIDE DEF h, n
  <2>2. \A i \in DOMAIN h : ~(h[i] >= n)
    BY <2>1
  <2>3. h = [i \in DOMAIN h |-> h[i]]
    BY <2>1
  <2> QED
    BY <2>2, <2>3 DEF ShiftAtOrAfter
<1>8. KeepsTrack(queue', queue)
  BY <1>3, <1>4, <1>5, <1>7, QueueIs, InsertedKeepsTrack
<1>9. OnceEach(queue'.items) /\ KeepsHistory
  BY <1>6, <1>8, KeepsTrackIs
<1>10. AddsTogether(Len(queue.items), t)
  BY <1>4, <1>5, <1>6, QueueIs, InsertedTogether
<1>11. Len(queue'.items) = Len(queue.items) + Len(t)
  BY <1>4 DEF Inserted
<1> QED
  BY <1>1, <1>2, <1>6, <1>9, <1>10, <1>11, InvFrom

LEMMA PlayNextStep ==
  ASSUME Inv, NEW t \in NewTracks, SetQueuePlayNext(t)
  PROVE  /\ Inv' /\ KeepsPlaying /\ KeepsHistory /\ op' = "play next"
         /\ \E at \in 0 .. Len(queue.items) :
               /\ AddsTogether(at, t)
               /\ queue.items # <<>> => at + 1 = queue'.current + 2
<1>1. Becomes("play next", {InsertNext(queue, t)})
  BY DEF SetQueuePlayNext
<1>2. queue' = InsertNext(queue, t) /\ op' = "play next"
  <2>1. queue' \in {InsertNext(queue, t)} /\ op' = "play next"
    BY <1>1, BecomesIs
  <2> QED
    BY <2>1
<1>3. t \in Seq(Track) /\ t # <<>> /\ NewTo(queue, t)
  BY NewTracksIs
<1> DEFINE n == Len(queue.items)
           at == IF queue.current + 1 < n THEN queue.current + 1 ELSE n
<1>4. /\ at \in 0 .. n
      /\ queue.items # <<>> => queue.current < at /\ at = queue.current + 1
      /\ queue.items = <<>> => queue.current = 0
  BY QueueIs DEF Pointing
<1>5. at = IF queue.current + 1 < Len(queue.items) THEN queue.current + 1 ELSE Len(queue.items)
  OBVIOUS
<1> HIDE DEF at
<1>6. /\ Inserted(queue', queue, Track, at, t) /\ queue'.current = queue.current
      /\ queue'.history = ShiftAtOrAfter(queue.history, at, Len(t))
  BY ZenonT(30), <1>2, <1>3, <1>4, <1>5, QueueIs, InsertNextIs
<1>7. GoodQueue(queue', Track) /\ KeepsPlaying
  BY <1>3, <1>4, <1>6, QueueIs, InsertedKeepsPointer DEF KeepsPlaying
<1>8. KeepsTrack(queue', queue)
  BY <1>3, <1>4, <1>6, QueueIs, InsertedKeepsTrack
<1>9. OnceEach(queue'.items) /\ KeepsHistory
  BY <1>7, <1>8, KeepsTrackIs
<1>10. AddsTogether(at, t)
  BY <1>4, <1>6, <1>7, QueueIs, InsertedTogether
<1>11. queue.items # <<>> => at + 1 = queue'.current + 2
  BY <1>4, <1>6, QueueIs
<1> QED
  BY <1>1, <1>2, <1>4, <1>7, <1>9, <1>10, <1>11, InvFrom

LEMMA InsertStep ==
  ASSUME Inv, NEW index \in Nat, NEW t \in NewTracks, EditInsert(index, t)
  PROVE  /\ Inv' /\ KeepsPlaying /\ KeepsHistory /\ op' = "insert"
         /\ AddsTogether(index, t)
<1>1. Becomes("insert", InsertAtPosition(queue, index, t)) /\ index <= Len(queue.items)
  BY DEF EditInsert
<1>2. t \in Seq(Track) /\ t # <<>> /\ NewTo(queue, t)
  BY NewTracksIs
<1>3. InsertAtPosition(queue, index, t) = {InsertAtReady(queue, index, t)}
  BY <1>2, QueueIs DEF InsertAtPosition
<1>4. queue' = InsertAtReady(queue, index, t) /\ op' = "insert"
  BY <1>1, <1>3, BecomesIs
<1>5. /\ index \in 0 .. Len(queue.items)
      /\ index = IF index < Len(queue.items) THEN index ELSE Len(queue.items)
  BY <1>1, QueueIs
<1>6. /\ Inserted(queue', queue, Track, index, t)
      /\ queue'.current = IF index <= queue.current /\ queue.items # <<>>
                          THEN queue.current + Len(t) ELSE queue.current
      /\ queue'.history = ShiftAtOrAfter(queue.history, index, Len(t))
  BY <1>2, <1>4, <1>5, QueueIs, InsertAtIs
<1>7. /\ queue.items # <<>> => queue'.current = IF queue.current < index THEN queue.current
                                                ELSE queue.current + Len(t)
      /\ queue.items = <<>> => queue'.current = 0
  BY <1>6, QueueIs DEF Pointing
<1>8. GoodQueue(queue', Track) /\ KeepsPlaying
  BY <1>2, <1>5, <1>6, <1>7, QueueIs, InsertedKeepsPointer DEF KeepsPlaying
<1>9. KeepsTrack(queue', queue)
  BY <1>2, <1>5, <1>6, QueueIs, InsertedKeepsTrack
<1>10. OnceEach(queue'.items) /\ KeepsHistory
  BY <1>8, <1>9, KeepsTrackIs
<1>11. AddsTogether(index, t)
  BY <1>5, <1>6, <1>8, QueueIs, InsertedTogether
<1> QED
  BY <1>1, <1>4, <1>8, <1>10, <1>11, InvFrom

\* What clear_upcoming leaves.
LEMMA UpcomingDropped ==
  ASSUME Inv, NEW r \in DropFrom(queue, UpcomingFrom)
  PROVE  /\ Truncated(r, queue, Track, UpcomingFrom)
         /\ GoodQueue(r, Track)
         /\ queue.items # <<>> => r.items # <<>> /\ CurrentTrack(r) = CurrentTrack(queue)
         /\ queue.items # <<>> => queue.current < Len(r.items)
         /\ r.history = Kept(queue.history, 0 .. UpcomingFrom - 1)
         /\ UpcomingFrom \in 0 .. Len(queue.items) /\ Len(r.items) = UpcomingFrom
<1> DEFINE from == UpcomingFrom
<1>1. /\ from \in 0 .. Len(queue.items) /\ from \in Nat
      /\ queue.items # <<>> => from = queue.current + 1 /\ queue.current < from
  BY QueueIs, UpcomingFromIs
<1>2. from = IF from < Len(queue.items) THEN from ELSE Len(queue.items)
  BY <1>1, QueueIs
<1> HIDE DEF from
<1>3. /\ DropFrom(queue, from) = {DropFromReady(queue, from)}
      /\ Truncated(DropFromReady(queue, from), queue, Track, from)
      /\ DropFromReady(queue, from).history = Kept(queue.history, 0 .. from - 1)
  BY <1>1, <1>2, QueueIs, DropIs
<1>4. Truncated(r, queue, Track, from) /\ r.history = Kept(queue.history, 0 .. from - 1)
  BY <1>3 DEF from
<1>5. /\ GoodQueue(r, Track)
      /\ queue.items # <<>> => r.items # <<>> /\ CurrentTrack(r) = CurrentTrack(queue)
  BY <1>1, <1>4, QueueIs, TruncatedKeepsPointer
<1>6. Len(r.items) = from
  BY <1>4 DEF Truncated
<1> QED
  BY <1>1, <1>4, <1>5, <1>6 DEF from

LEMMA ClearStep ==
  ASSUME Inv, EditClearUpcoming
  PROVE  Inv' /\ KeepsPlaying /\ KeepsHistory /\ SparesPast /\ op' = "clear upcoming"
<1>1. Becomes("clear upcoming", DropFrom(queue, UpcomingFrom))
  BY DEF EditClearUpcoming
<1>2. queue' \in DropFrom(queue, UpcomingFrom) /\ op' = "clear upcoming"
  BY <1>1, BecomesIs
<1>3. /\ Truncated(queue', queue, Track, UpcomingFrom)
      /\ GoodQueue(queue', Track)
      /\ queue.items # <<>> => queue'.items # <<>> /\ CurrentTrack(queue') = CurrentTrack(queue)
      /\ queue.items # <<>> => queue.current < Len(queue'.items)
      /\ queue'.history = Kept(queue.history, 0 .. UpcomingFrom - 1)
      /\ UpcomingFrom \in 0 .. Len(queue.items)
  BY <1>2, UpcomingDropped
<1>4. SparesPast
  <2> SUFFICES ASSUME queue.items # <<>>
               PROVE  IsPrefix(SubSeq(PlayOrder(queue), 1, queue.current + 1), PlayOrder(queue'))
    BY DEF SparesPast
  <2>1. \A pos \in 0 .. queue.current : pos \in 0 .. UpcomingFrom - 1
    BY QueueIs, UpcomingFromIs
  <2>2. \A pos \in 0 .. queue.current : TrackAt(queue', pos) = TrackAt(queue, pos)
    BY <1>3, <2>1 DEF Truncated
  <2> QED
    BY <1>3, <2>2, QueueIs, SparesPastIs
<1>5. KeepsTrack(queue', queue)
  BY <1>3, QueueIs, TruncatedKeepsTrack
<1>6. OnceEach(queue'.items) /\ KeepsHistory
  BY <1>3, <1>5, KeepsTrackIs
<1> QED
  BY <1>1, <1>2, <1>3, <1>4, <1>6, InvFrom DEF KeepsPlaying

LEMMA ReplaceUpcomingStep ==
  ASSUME Inv, NEW t \in NewTracks, EditReplaceUpcoming(t)
  PROVE  Inv' /\ KeepsPlaying /\ KeepsHistory /\ SparesPast /\ op' = "replace upcoming"
<1>1. Becomes("replace upcoming", ReplaceFrom(queue, UpcomingFrom, t))
  BY DEF EditReplaceUpcoming
<1>2. queue' \in ReplaceFrom(queue, UpcomingFrom, t) /\ op' = "replace upcoming"
  BY <1>1, BecomesIs
<1>3. PICK r \in DropFrom(queue, UpcomingFrom) : queue' = Add(r, t)
  BY <1>2 DEF ReplaceFrom
<1>4. /\ Truncated(r, queue, Track, UpcomingFrom)
      /\ GoodQueue(r, Track)
      /\ queue.items # <<>> => r.items # <<>> /\ CurrentTrack(r) = CurrentTrack(queue)
      /\ queue.items # <<>> => queue.current < Len(r.items)
      /\ r.history = Kept(queue.history, 0 .. UpcomingFrom - 1)
      /\ UpcomingFrom \in 0 .. Len(queue.items) /\ Len(r.items) = UpcomingFrom
  BY UpcomingDropped
<1>5. t \in Seq(Track) /\ Len(t) \in Nat /\ NewTo(queue, t)
  BY NewTracksIs
<1>6. /\ Inserted(queue', r, Track, Len(r.items), t)
      /\ queue'.current = r.current /\ queue'.history = r.history
  BY <1>3, <1>4, <1>5, AddIs
<1>7. /\ r.items \in Seq(Track) /\ Len(r.items) \in Nat
      /\ r.items # <<>> => r.current < Len(r.items)
      /\ r.items = <<>> => r.current = 0
      /\ Len(r.items) \in 0 .. Len(r.items)
  BY <1>4 DEF GoodQueue, Pointing, QueueRecord
<1>8. GoodQueue(queue', Track) /\ (r.items # <<>> => CurrentTrack(queue') = CurrentTrack(r))
  BY <1>4, <1>5, <1>6, <1>7, InsertedKeepsPointer
<1>9. SparesPast
  <2> SUFFICES ASSUME queue.items # <<>>
               PROVE  IsPrefix(SubSeq(PlayOrder(queue), 1, queue.current + 1), PlayOrder(queue'))
    BY DEF SparesPast
  <2>1. \A pos \in 0 .. queue.current :
           pos \in 0 .. UpcomingFrom - 1 /\ pos \in 0 .. Len(r.items) - 1 /\ pos < Len(r.items)
    BY <1>4, <1>7, QueueIs, UpcomingFromIs
  <2>2. \A pos \in 0 .. queue.current : TrackAt(r, pos) = TrackAt(queue, pos)
    BY <1>4, <2>1 DEF Truncated
  <2>3. \A pos \in 0 .. queue.current : TrackAt(queue', pos) = TrackAt(r, pos)
    BY <1>6, <2>1 DEF Inserted
  <2>4. \A pos \in 0 .. queue.current : TrackAt(queue', pos) = TrackAt(queue, pos)
    BY <2>2, <2>3
  <2>5. queue.current < Len(queue'.items)
    <3>1. Len(queue'.items) = Len(r.items) + Len(t)
      BY <1>6 DEF Inserted
    <3> QED
      BY <1>4, <1>5, <1>7, <3>1, QueueIs
  <2> QED
    BY <1>8, <2>4, <2>5, QueueIs, SparesPastIs
<1>10. KeepsTrack(queue', queue)
  BY <1>4, <1>5, <1>6, QueueIs, RefilledKeepsTrack
<1>11. OnceEach(queue'.items) /\ KeepsHistory
  BY <1>8, <1>10, KeepsTrackIs
<1> QED
  BY <1>1, <1>2, <1>4, <1>8, <1>9, <1>11, InvFrom DEF KeepsPlaying

LEMMA ShuffleUpcomingStep ==
  ASSUME Inv, EditShuffleUpcoming
  PROVE  Inv' /\ KeepsPlaying /\ KeepsHistory /\ SparesPast /\ op' = "shuffle upcoming"
<1> DEFINE n == Len(queue.items)
           from == UpcomingFrom
<1>1. Becomes("shuffle upcoming", ShuffleFrom(queue, from)) /\ n > from + 1
  BY DEF EditShuffleUpcoming
<1>2. queue' \in ShuffleFrom(queue, from) /\ op' = "shuffle upcoming"
  BY <1>1, BecomesIs
<1>3. from \in 0 .. n /\ (queue.items # <<>> => from = queue.current + 1)
  BY QueueIs, UpcomingFromIs
<1>n. n \in Nat /\ queue.current \in Nat
  BY QueueIs
<1> HIDE DEF from
<1>4. ShuffleFrom(queue, from) =
         {ShuffledTail(queue, from, shuffle) : shuffle \in SetToSeqs(from .. (n - 1))}
  <2>0. n > from + 1 /\ from \in 0 .. n /\ n \in Nat
    BY <1>1, <1>3, <1>n
  <2>1. ~(from + 1 >= n)
    <3> HIDE DEF n
    <3> QED
      BY <2>0
  <2> QED
    BY <2>1, QueueIs DEF ShuffleFrom
<1>5. PICK shuffle \in SetToSeqs(from .. (n - 1)) : queue' = ShuffledTail(queue, from, shuffle)
  BY <1>2, <1>4
<1>6. TailShuffled(queue', queue, Track, from, shuffle)
  BY <1>3, <1>5, QueueIs, ShuffledTailIs
<1>7. queue.items # <<>> => queue.current < from
  BY <1>3, <1>n
<1>8. GoodQueue(queue', Track) /\ KeepsPlaying
  BY <1>3, <1>6, <1>7, QueueIs, ShuffledTailKeepsPointer DEF KeepsPlaying
<1>9. SparesPast
  <2> SUFFICES ASSUME queue.items # <<>>
               PROVE  IsPrefix(SubSeq(PlayOrder(queue), 1, queue.current + 1), PlayOrder(queue'))
    BY DEF SparesPast
  <2>1. \A pos \in 0 .. queue.current : pos \in 0 .. from - 1
    BY <1>3, <1>n
  <2>2. \A pos \in 0 .. queue.current : TrackAt(queue', pos) = TrackAt(queue, pos)
    BY <1>6, <2>1 DEF TailShuffled
  <2>3. queue.current < Len(queue'.items)
    BY <1>6, QueueIs DEF TailShuffled, Pointing
  <2> QED
    BY <1>8, <2>2, <2>3, QueueIs, SparesPastIs
<1>10. KeepsTrack(queue', queue)
  BY <1>3, <1>5, QueueIs, ShuffledTailKeepsTrack
<1>11. OnceEach(queue'.items) /\ KeepsHistory
  BY <1>8, <1>10, KeepsTrackIs
<1> QED
  BY <1>1, <1>2, <1>8, <1>9, <1>11, InvFrom

LEMMA MoveStep ==
  ASSUME Inv, NEW a \in Nat, NEW b \in Nat, EditMove(a, b)
  PROVE  Inv' /\ KeepsPlaying /\ KeepsHistory /\ op' = "move"
<1>1. Becomes("move", {MoveItem(queue, a, b)}) /\ a < Len(queue.items) /\ b < Len(queue.items)
  BY DEF EditMove
<1>2. queue' = MoveItem(queue, a, b) /\ op' = "move"
  BY <1>1, BecomesIs
<1>3. a \in 0 .. Len(queue.items) - 1 /\ b \in 0 .. Len(queue.items) - 1
  BY <1>1, QueueIs
<1>4. CASE a = b
  <2>1. queue' = queue
    BY <1>2, <1>4 DEF MoveItem
  <2>2. OnceEach(queue'.items) /\ KeepsHistory
    BY <2>1, QueueIs, SameKeepsTrack, KeepsTrackIs
  <2> QED
    BY <1>1, <1>2, <2>1, <2>2, QueueIs, InvFrom DEF KeepsPlaying
<1>5. CASE a # b
  <2>1. EntryMoved(queue', queue, Track, a, b)
    BY <1>2, <1>3, <1>5, QueueIs, MoveItemIs
  <2>2. GoodQueue(queue', Track) /\ KeepsPlaying
    BY <1>3, <2>1, QueueIs, MovedKeepsPointer DEF KeepsPlaying
  <2>3. KeepsTrack(queue', queue)
    BY <1>2, <1>3, <1>5, QueueIs, MovedKeepsTrack
  <2>4. OnceEach(queue'.items) /\ KeepsHistory
    BY <2>2, <2>3, KeepsTrackIs
  <2> QED
    BY <1>1, <1>2, <2>2, <2>4, InvFrom
<1> QED
  BY <1>4, <1>5

LEMMA RemoveStep ==
  ASSUME Inv, NEW index \in Nat, EditRemove(index)
  PROVE  Inv' /\ KeepsPlaying /\ KeepsHistory /\ op' = "remove"
<1>1. /\ Becomes("remove", {RemoveEntry(queue, index)})
      /\ index < Len(queue.items) /\ index # queue.current
  BY DEF EditRemove
<1>2. queue' = RemoveEntry(queue, index) /\ op' = "remove"
  BY <1>1, BecomesIs
<1>3. index \in 0 .. Len(queue.items) - 1
  BY <1>1, QueueIs
<1>4. /\ EntryRemoved(queue', queue, Track, index)
      /\ queue'.current =
            LET left  == Len(queue.items) - 1
                moved == IF index < queue.current THEN queue.current - 1 ELSE queue.current
            IN  IF left = 0 THEN 0 ELSE IF moved >= left THEN left - 1 ELSE moved
  BY <1>2, <1>3, QueueIs, RemoveEntryIs
<1>5. GoodQueue(queue', Track) /\ KeepsPlaying
  BY <1>1, <1>3, <1>4, QueueIs, RemovedKeepsPointer DEF KeepsPlaying
<1>6. KeepsTrack(queue', queue)
  BY <1>2, <1>3, QueueIs, RemovedKeepsTrack
<1>7. OnceEach(queue'.items) /\ KeepsHistory
  BY <1>5, <1>6, KeepsTrackIs
<1> QED
  BY <1>1, <1>2, <1>5, <1>7, InvFrom

LEMMA JumpStep ==
  ASSUME Inv, NEW index \in Nat, EditJump(index)
  PROVE  Inv' /\ op' = "jump"
<1>1. Becomes("jump", JumpToPosition(queue, index))
  BY DEF EditJump
<1>2. queue' \in JumpToPosition(queue, index) /\ op' = "jump"
  BY <1>1, BecomesIs
<1>3. GoodQueue(queue', Track) /\ OnceEach(queue'.items)
  BY <1>2, QueueIs, JumpToPositionIs DEF SameTracks
<1> QED
  BY <1>1, <1>2, <1>3, InvFrom

LEMMA JumpPhysicalStep ==
  ASSUME Inv, NEW index \in Nat, EditJumpPhysical(index)
  PROVE  Inv' /\ op' = "jump physical"
<1>1. Becomes("jump physical", JumpTo(queue, index)) /\ index < Len(queue.items)
  BY DEF EditJumpPhysical
<1>2. queue' \in JumpTo(queue, index) /\ op' = "jump physical"
  BY <1>1, BecomesIs
<1>3. index \in 0 .. Len(queue.items) - 1
  <2> DEFINE n == Len(queue.items)
  <2>1. n \in Nat /\ index < n
    BY <1>1, QueueIs
  <2> HIDE DEF n
  <2>2. index \in 0 .. n - 1
    BY <2>1
  <2> QED
    BY <2>2 DEF n
<1>b. queue.shuffle \in BOOLEAN
  BY QueueIs DEF QueueRecord
<1>4. GoodQueue(queue', Track) /\ OnceEach(queue'.items)
  BY <1>2, <1>3, <1>b, QueueIs, JumpToIs
<1> QED
  BY <1>1, <1>2, <1>4, InvFrom

LEMMA NextStep ==
  ASSUME Inv, NEW playable, PlayNext(playable)
  PROVE  Inv' /\ op' = "next"
<1>1. Becomes("next", AdvanceNext(queue, playable))
  BY DEF PlayNext
<1>2. queue' \in AdvanceNext(queue, playable) /\ op' = "next"
  BY <1>1, BecomesIs
<1>3. GoodQueue(queue', Track) /\ OnceEach(queue'.items)
  BY <1>2, QueueIs, AdvanceNextIs DEF SameTracks
<1> QED
  BY <1>1, <1>2, <1>3, InvFrom

LEMMA PreviousStep ==
  ASSUME Inv, Previous
  PROVE  Inv' /\ op' = "previous"
<1> DEFINE results == {q \in PreviousPosition(queue) : HasTrack(q, q.current)}
<1>1. Becomes("previous", results)
  BY DEF Previous
<1>2. queue' \in results /\ op' = "previous"
  BY <1>1, BecomesIs
<1>3. queue' \in PreviousPosition(queue) /\ HasTrack(queue', queue'.current)
  BY <1>2
<1>4. GoodQueue(queue', Track) /\ OnceEach(queue'.items)
  BY <1>3, QueueIs, PreviousIs DEF SameTracks
<1> QED
  BY <1>1, <1>2, <1>4, InvFrom

LEMMA ShuffleStep ==
  ASSUME Inv, NEW on \in BOOLEAN, SetModeShuffle(on)
  PROVE  Inv' /\ KeepsPlaying /\ op' = "shuffle"
<1>1. Becomes("shuffle", SetShuffle(queue, on))
  BY DEF SetModeShuffle
<1>2. queue' \in SetShuffle(queue, on) /\ op' = "shuffle"
  BY <1>1, BecomesIs
<1>3. Toggled(queue', queue, Track, on)
  BY <1>2, QueueIs, SetShuffleIs
<1>4. GoodQueue(queue', Track) /\ OnceEach(queue'.items) /\ KeepsPlaying
  BY <1>3, QueueIs DEF Toggled, KeepsPlaying
<1> QED
  BY <1>1, <1>2, <1>4, InvFrom

LEMMA LoopStep ==
  ASSUME Inv, NEW mode \in LoopModes, SetModeLoop(mode)
  PROVE  Inv' /\ KeepsPlaying /\ op' = "loop"
<1>1. Becomes("loop", {[queue EXCEPT !.loop = mode]})
  BY DEF SetModeLoop
<1>2. queue' \in {[queue EXCEPT !.loop = mode]} /\ op' = "loop"
  BY <1>1, BecomesIs
<1>3. /\ queue' \in QueueRecord(Track) /\ SameTracks([queue' EXCEPT !.loop = queue.loop], queue)
      /\ queue'.items = queue.items /\ queue'.order = queue.order
      /\ queue'.shuffle = queue.shuffle /\ queue'.current = queue.current
  BY <1>2, QueueIs DEF QueueRecord, SameTracks
<1>4. GoodQueue(queue', Track) /\ OnceEach(queue'.items)
  BY <1>3, QueueIs DEF GoodQueue, Sound, Pointing
<1>5. KeepsPlaying
  BY <1>3 DEF KeepsPlaying, CurrentTrack, TrackOrGone, HasTrack, TrackAt, PhysicalIndexOf
<1> QED
  BY <1>1, <1>2, <1>4, <1>5, InvFrom

LEMMA RestoreStep ==
  ASSUME Inv, NEW items \in Seq(Track), OnceEach(items), NEW position \in Nat,
         NEW order \in DistinctSeqs(0 .. (Len(items) - 1), 0 .. Len(items)), NEW on \in BOOLEAN,
         RestoreQueue(items, position, order, on)
  PROVE  Inv' /\ op' = "restore"
<1>1. /\ Becomes("restore", Restore(queue, items, position, order, on))
      /\ on => Covers(order, Len(items))
  BY DEF RestoreQueue
<1>2. queue' \in Restore(queue, items, position, order, on) /\ op' = "restore"
  BY <1>1, BecomesIs
<1>3. order \in Seq(Nat)
  <2> DEFINE all == 0 .. (Len(items) - 1)
  <2>1. IsFiniteSet(all) /\ all \subseteq Nat
    BY FS_Interval
  <2>2. PICK S \in SUBSET all : order \in SetToSeqs(S)
    BY DEF DistinctSeqs
  <2> HIDE DEF all
  <2>3. IsFiniteSet(S) /\ S \in SUBSET Nat
    BY <2>1, FS_Subset
  <2>4. Lists(order, S)
    BY <2>2, <2>3, SetToSeqsIs
  <2>5. order \in Seq(S) /\ Len(order) \in Nat
    BY <2>4 DEF Lists
  <2>6. order = [i \in 1 .. Len(order) |-> order[i]] /\ \A i \in 1 .. Len(order) : order[i] \in S
    BY <2>5
  <2>7. [i \in 1 .. Len(order) |-> order[i]] \in Seq(Nat)
    BY <2>3, <2>5, <2>6, IsASeq
  <2> QED
    BY <2>6, <2>7
<1>4. GoodQueue(queue', Track) /\ OnceEach(queue'.items)
  BY SMTT(30), <1>1, <1>2, <1>3, QueueIs, RestoreIs
<1> QED
  BY <1>1, <1>2, <1>4, InvFrom

-----------------------------------------------------------------------------
(* The invariant.                                                            *)

LEMMA InitInv ==
  ASSUME Init
  PROVE  Inv
<1> DEFINE none == <<>>
<1>1. /\ none \in Seq(Track) /\ none \in Seq(Nat) /\ Len(none) = 0
  BY EmptySeq
<1>2. queue = [items |-> none, history |-> none, shuffle |-> FALSE,
               order |-> none, current |-> 0, loop |-> "none"]
  BY DEF Init, EmptyQueue
<1>3. none = <<>>
  OBVIOUS
<1> HIDE DEF none
<1>4. queue \in QueueRecord(Track) /\ queue.items = none /\ queue.history = none
      /\ queue.current = 0 /\ queue.shuffle = FALSE
  BY <1>1, <1>2 DEF QueueRecord, LoopModes
<1>5. GoodQueue(queue, Track)
  BY <1>3, <1>4 DEF GoodQueue, Sound, Pointing
<1>6. OnceEach(queue.items)
  BY <1>1, <1>4 DEF OnceEach
<1> QED
  BY <1>1, <1>4, <1>5, <1>6, PlayQueueAssumption DEF Inv

\* Where an addition went.
AddsInOrder ==
    LET old == PlayOrder(queue)
        new == PlayOrder(queue')
        added == {i \in 1 .. Len(new) : new[i] \notin ToSet(old)}
    IN  /\ Kept(new, ToSet(old)) = old
        /\ added = Min(added) .. Max(added)
        /\ op' = "append" => Max(added) = Len(new)
        /\ op' = "play next" /\ old # <<>> => Min(added) = queue'.current + 2

LEMMA AddsInOrderIs ==
  ASSUME Inv, Inv', NEW t \in NewTracks, NEW at \in 0 .. Len(queue.items), AddsTogether(at, t),
         op' = "append" => at = Len(queue.items) /\ Len(queue'.items) = at + Len(t),
         op' = "play next" /\ queue.items # <<>> => at + 1 = queue'.current + 2
  PROVE  AddsInOrder
<1> DEFINE old == PlayOrder(queue)
           new == PlayOrder(queue')
           added == {i \in 1 .. Len(new) : new[i] \notin ToSet(old)}
<1>1. /\ Kept(new, ToSet(old)) = old
      /\ added = at + 1 .. at + Len(t)
      /\ Min(at + 1 .. at + Len(t)) = at + 1
      /\ Max(at + 1 .. at + Len(t)) = at + Len(t)
  BY DEF AddsTogether, Together
<1>2. GoodQueue(queue, Track) /\ GoodQueue(queue', Track)
  BY DEF Inv
<1>3. Len(new) = Len(queue'.items) /\ Len(old) = Len(queue.items) /\ old \in Seq(Track)
  BY <1>2, PlayOrderIs
<1>4. old # <<>> => queue.items # <<>>
  <2>1. queue.items = <<>> => Len(old) = 0
    BY <1>3
  <2> QED
    BY <1>3, <2>1, EmptySeq
<1>5. Min(added) = at + 1 /\ Max(added) = at + Len(t)
  <2> HIDE DEF added
  <2> QED
    BY <1>1
<1>6. op' = "append" => Max(added) = Len(new)
  BY <1>3, <1>5
<1>7. op' = "play next" /\ old # <<>> => Min(added) = queue'.current + 2
  <2> HIDE DEF added, old, new
  <2> QED
    BY <1>4, <1>5
<1>8. added = Min(added) .. Max(added)
  <2> HIDE DEF added
  <2> QED
    BY <1>1, <1>5
<1> HIDE DEF added, old, new
<1>9. AddsInOrder <=> /\ Kept(new, ToSet(old)) = old
                      /\ added = Min(added) .. Max(added)
                      /\ op' = "append" => Max(added) = Len(new)
                      /\ op' = "play next" /\ old # <<>> => Min(added) = queue'.current + 2
  BY DEF AddsInOrder, added, old, new
<1> QED
  BY <1>1, <1>6, <1>7, <1>8, <1>9

\* What every step of the session does to the queue.
LEMMA StepIs ==
  ASSUME Inv, Next
  PROVE  /\ Inv'
         /\ op' \in Edits \cup {"shuffle", "loop"} => KeepsPlaying
         /\ op' \in Edits => KeepsHistory
         /\ op' \in {"append", "play next", "insert"} => AddsInOrder
         /\ op' \in {"clear upcoming", "replace upcoming", "shuffle upcoming"} => SparesPast
<1> DEFINE Goal == /\ Inv'
                   /\ op' \in Edits \cup {"shuffle", "loop"} => KeepsPlaying
                   /\ op' \in Edits => KeepsHistory
                   /\ op' \in {"append", "play next", "insert"} => AddsInOrder
                   /\ op' \in {"clear upcoming", "replace upcoming", "shuffle upcoming"}
                         => SparesPast
<1>t. \A t \in DistinctSeqs(Track, 0 .. MaxLen) : t \in Seq(Track) /\ OnceEach(t)
  BY DistinctSeqsIs
<1>p. Positions \in SUBSET Nat /\ Edits = {"append", "play next", "insert", "clear upcoming",
          "replace upcoming", "shuffle upcoming", "move", "remove"}
  BY PlayQueueAssumption DEF Positions, Edits
<1>1. ASSUME NEW tracks \in DistinctSeqs(Track, 0 .. MaxLen), NEW start \in {Nowhere} \cup Positions,
             NEW keep \in Filters, NEW on \in BOOLEAN,
             SetQueueReplace(tracks, start, keep, on)
      PROVE  Goal
  <2>1. tracks \in Seq(Track) /\ OnceEach(tracks) /\ start \in {Nowhere} \cup Nat
    BY <1>t, <1>p
  <2>2. Inv' /\ op' = "replace"
    BY <1>1, <2>1, ReplaceStep
  <2> QED
    BY <1>p, <2>2
<1>2. ASSUME NEW tracks \in NewTracks, SetQueueAppend(tracks) PROVE Goal
  <2>1. /\ Inv' /\ KeepsPlaying /\ KeepsHistory /\ op' = "append"
        /\ AddsTogether(Len(queue.items), tracks)
        /\ Len(queue'.items) = Len(queue.items) + Len(tracks)
        /\ Len(queue.items) \in 0 .. Len(queue.items)
    BY <1>2, AppendStep, QueueIs
  <2>2. AddsInOrder
    BY <2>1, AddsInOrderIs
  <2> QED
    BY <1>p, <2>1, <2>2
<1>3. ASSUME NEW tracks \in NewTracks, SetQueuePlayNext(tracks) PROVE Goal
  <2>1. Inv' /\ KeepsPlaying /\ KeepsHistory /\ op' = "play next"
    BY <1>3, PlayNextStep
  <2>2. PICK at \in 0 .. Len(queue.items) :
           /\ AddsTogether(at, tracks)
           /\ queue.items # <<>> => at + 1 = queue'.current + 2
    BY <1>3, PlayNextStep
  <2>3. AddsInOrder
    BY <2>1, <2>2, AddsInOrderIs
  <2> QED
    BY <1>p, <2>1, <2>3
<1>4. ASSUME NEW index \in Positions, NEW tracks \in NewTracks, EditInsert(index, tracks)
      PROVE  Goal
  <2>1. /\ Inv' /\ KeepsPlaying /\ KeepsHistory /\ op' = "insert"
        /\ AddsTogether(index, tracks)
    BY <1>4, <1>p, InsertStep
  <2>2. index \in 0 .. Len(queue.items)
    <3>1. index <= Len(queue.items) /\ index \in Nat /\ Len(queue.items) \in Nat
      BY <1>4, <1>p, QueueIs DEF EditInsert
    <3> QED
      BY <3>1
  <2>3. AddsInOrder
    BY <2>1, <2>2, AddsInOrderIs
  <2> QED
    BY <1>p, <2>1, <2>3
<1>5. ASSUME EditClearUpcoming PROVE Goal
  <2>1. Inv' /\ KeepsPlaying /\ KeepsHistory /\ SparesPast /\ op' = "clear upcoming"
    BY <1>5, ClearStep
  <2> QED
    BY <1>p, <2>1
<1>6. ASSUME NEW tracks \in NewTracks, EditReplaceUpcoming(tracks) PROVE Goal
  <2>1. Inv' /\ KeepsPlaying /\ KeepsHistory /\ SparesPast /\ op' = "replace upcoming"
    BY <1>6, ReplaceUpcomingStep
  <2> QED
    BY <1>p, <2>1
<1>7. ASSUME EditShuffleUpcoming PROVE Goal
  <2>1. Inv' /\ KeepsPlaying /\ KeepsHistory /\ SparesPast /\ op' = "shuffle upcoming"
    BY <1>7, ShuffleUpcomingStep
  <2> QED
    BY <1>p, <2>1
<1>8. ASSUME NEW from \in Positions, NEW to \in Positions, EditMove(from, to) PROVE Goal
  <2>1. Inv' /\ KeepsPlaying /\ KeepsHistory /\ op' = "move"
    BY <1>8, <1>p, MoveStep
  <2> QED
    BY <1>p, <2>1
<1>9. ASSUME NEW index \in Positions, EditRemove(index) PROVE Goal
  <2>1. Inv' /\ KeepsPlaying /\ KeepsHistory /\ op' = "remove"
    BY <1>9, <1>p, RemoveStep
  <2> QED
    BY <1>p, <2>1
<1>10. ASSUME NEW index \in Positions, EditJump(index) PROVE Goal
  <2>1. Inv' /\ op' = "jump"
    BY <1>10, <1>p, JumpStep
  <2> QED
    BY <1>p, <2>1
<1>11. ASSUME NEW index \in Positions, EditJumpPhysical(index) PROVE Goal
  <2>1. Inv' /\ op' = "jump physical"
    BY <1>11, <1>p, JumpPhysicalStep
  <2> QED
    BY <1>p, <2>1
<1>12. ASSUME NEW playable \in Filters, PlayNext(playable) PROVE Goal
  <2>1. Inv' /\ op' = "next"
    BY <1>12, NextStep
  <2> QED
    BY <1>p, <2>1
<1>13. ASSUME Previous PROVE Goal
  <2>1. Inv' /\ op' = "previous"
    BY <1>13, PreviousStep
  <2> QED
    BY <1>p, <2>1
<1>14. ASSUME NEW on \in BOOLEAN, SetModeShuffle(on) PROVE Goal
  <2>1. Inv' /\ KeepsPlaying /\ op' = "shuffle"
    BY <1>14, ShuffleStep
  <2> QED
    BY <1>p, <2>1
<1>15. ASSUME NEW mode \in LoopModes, SetModeLoop(mode) PROVE Goal
  <2>1. Inv' /\ KeepsPlaying /\ op' = "loop"
    BY <1>15, LoopStep
  <2> QED
    BY <1>p, <2>1
<1>16. ASSUME NEW tracks \in DistinctSeqs(Track, 0 .. MaxLen), NEW position \in Positions,
              NEW on \in BOOLEAN,
              NEW order \in DistinctSeqs(0 .. (Len(tracks) - 1), 0 .. Len(tracks)),
              RestoreQueue(tracks, position, order, on)
       PROVE  Goal
  <2>1. tracks \in Seq(Track) /\ OnceEach(tracks) /\ position \in Nat
    BY <1>t, <1>p
  <2>2. Inv' /\ op' = "restore"
    BY <1>16, <2>1, RestoreStep
  <2> QED
    BY <1>p, <2>2
<1> HIDE DEF Goal
<1>17. Goal
  BY <1>1, <1>2, <1>3, <1>4, <1>5, <1>6, <1>7, <1>8, <1>9, <1>10, <1>11, <1>12, <1>13,
     <1>14, <1>15, <1>16 DEF Next
<1> QED
  BY <1>17 DEF Goal

LEMMA StutterIs ==
  ASSUME Inv, UNCHANGED vars
  PROVE  Inv' /\ queue' = queue
<1>1. queue' = queue
  BY DEF vars
<1> QED
  BY <1>1 DEF Inv

LEMMA SpecInv == Spec => []Inv
<1>1. Init => Inv
  BY InitInv
<1>2. Inv /\ [Next]_vars => Inv'
  BY StepIs, StutterIs
<1> QED
  BY <1>1, <1>2, PTL DEF Spec

-----------------------------------------------------------------------------
(* What the invariant says of the queue.                                     *)

\* The queue is what TypeOK says, and the pointer is on a track: whatever was
\* edited, restored or reshuffled, the position every command starts from
\* resolves (QueueModel::track_at of current).
THEOREM QueueTypeCorrect == Spec => []TypeOK
<1>1. Inv => TypeOK
  <2> SUFFICES ASSUME Inv PROVE TypeOK
    OBVIOUS
  <2>1. /\ GoodQueue(queue, Track) /\ Len(queue.items) <= MaxLen
        /\ Len(queue.history) <= MaxHistory
    BY DEF Inv
  <2>2. /\ queue.items \in Seq(Track) /\ queue.history \in Seq(Nat) /\ queue.order \in Seq(Nat)
        /\ queue.shuffle \in BOOLEAN /\ queue.loop \in LoopModes
    BY <2>1 DEF GoodQueue, QueueRecord
  <2>3. queue.items \in BoundedSeq(Track, MaxLen)
    <3>1. queue.items \in [1 .. Len(queue.items) -> Track] /\ Len(queue.items) \in 0 .. MaxLen
      BY <2>1, <2>2, PlayQueueAssumption
    <3> QED
      BY <3>1 DEF BoundedSeq, SeqOf
  <2>4. CurrentOnQueue
    BY <2>1, QueueIs, SoundQueue DEF CurrentOnQueue, Pointing
  <2> QED
    BY <2>1, <2>2, <2>3, <2>4 DEF TypeOK
<1> QED
  BY <1>1, SpecInv, PTL

\* The shuffle order is a permutation of the queue after every operation, those
\* that splice it by hand included: repair_shuffle_order never has to reshuffle.
THEOREM ShuffleCovers == Spec => []ShuffleCoversQueue
<1>1. Inv => ShuffleCoversQueue
  <2> SUFFICES ASSUME Inv, queue.shuffle PROVE Covers(queue.order, Len(queue.items))
    BY DEF ShuffleCoversQueue
  <2>1. queue.order \in Seq(Nat) /\ Len(queue.items) \in Nat /\ Permutes(queue.order, Len(queue.items))
    BY QueueIs DEF Sound, QueueRecord
  <2> QED
    BY <2>1, CoversPermutes
<1> QED
  BY <1>1, SpecInv, PTL

\* Previous after Next is back on the position Next left, whatever Next skipped
\* on the way and whatever the history held (advance_next_where pushes the
\* position it leaves, previous_position pops it).
THEOREM PreviousUndoes == Spec => []PreviousUndoesNext
<1>1. Inv => PreviousUndoesNext
  <2> SUFFICES ASSUME Inv, NEW playable \in Filters, NEW after \in AdvanceNext(queue, playable),
                      PeekNext(queue, playable) # Nowhere, NEW back \in PreviousPosition(after)
               PROVE  back.current = queue.current
    BY DEF PreviousUndoesNext
  <2> QED
    BY QueueIs, PreviousAfterNext
<1> QED
  BY <1>1, SpecInv, PTL

\* No edit and no mode change moves the pointer to another track (the pointer
\* arithmetic of insert_at, move_item and remove, and shuffle switched on or off).
THEOREM EditsKeep == Spec => EditsKeepPlaying
<1>1. Inv /\ [Next]_vars =>
         [op' \in Edits \cup {"shuffle", "loop"} /\ queue.items # <<>>
              => CurrentTrack(queue') = CurrentTrack(queue)]_vars
  <2>1. ASSUME Inv, Next
        PROVE  op' \in Edits \cup {"shuffle", "loop"} /\ queue.items # <<>>
                  => CurrentTrack(queue') = CurrentTrack(queue)
    BY <2>1, StepIs DEF KeepsPlaying
  <2> QED
    BY <2>1
<1> QED
  BY <1>1, SpecInv, PTL DEF Spec, EditsKeepPlaying

\* The edits of what comes next touch nothing up to and including the current
\* track (clear_upcoming, replace_upcoming and shuffle_upcoming).
THEOREM UpcomingEdits == Spec => UpcomingEditsSparePast
<1>1. Inv /\ [Next]_vars =>
         [op' \in {"clear upcoming", "replace upcoming", "shuffle upcoming"} /\ queue.items # <<>> =>
             IsPrefix(SubSeq(PlayOrder(queue), 1, queue.current + 1), PlayOrder(queue'))]_vars
  <2>1. ASSUME Inv, Next
        PROVE  op' \in {"clear upcoming", "replace upcoming", "shuffle upcoming"}
                  /\ queue.items # <<>> =>
               IsPrefix(SubSeq(PlayOrder(queue), 1, queue.current + 1), PlayOrder(queue'))
    BY <2>1, StepIs DEF SparesPast
  <2> QED
    BY <2>1
<1> QED
  BY <1>1, SpecInv, PTL DEF Spec, UpcomingEditsSparePast


\* Every edit takes the history along: its entries stand for the same tracks as
\* before, without those that left the queue (the shifts of insert_next and
\* insert_at, the remapping of move_item and shuffle_from, the gap remove closes).
THEOREM EditsRemember == Spec => EditsKeepHistory
<1>1. Inv /\ [Next]_vars =>
         [op' \in Edits /\ Gone \notin Range(HistoryTracks(queue))
             => HistoryTracks(queue') = Kept(HistoryTracks(queue), ToSet(queue'.items))]_vars
  <2>1. ASSUME Inv, Next
        PROVE  op' \in Edits /\ Gone \notin Range(HistoryTracks(queue))
                  => HistoryTracks(queue') = Kept(HistoryTracks(queue), ToSet(queue'.items))
    BY <2>1, StepIs DEF KeepsHistory
  <2> QED
    BY <2>1
<1> QED
  BY <1>1, SpecInv, PTL DEF Spec, EditsKeepHistory

\* Additions leave the running order of the other tracks alone and stay in one
\* piece: at the end for append, after the current track for play next (add,
\* insert_next and insert_at, in both orders).
THEOREM AdditionsKeep == Spec => AdditionsKeepOrder
<1>1. Inv /\ [Next]_vars =>
         [op' \in {"append", "play next", "insert"} =>
             LET old   == PlayOrder(queue)
                 new   == PlayOrder(queue')
                 added == {i \in 1 .. Len(new) : new[i] \notin ToSet(old)}
             IN  /\ Kept(new, ToSet(old)) = old
                 /\ added = Min(added) .. Max(added)
                 /\ op' = "append" => Max(added) = Len(new)
                 /\ op' = "play next" /\ old # <<>> => Min(added) = queue'.current + 2]_vars
  <2>1. ASSUME Inv, Next
        PROVE  op' \in {"append", "play next", "insert"} => AddsInOrder
    BY <2>1, StepIs
  <2> QED
    BY <2>1 DEF AddsInOrder
<1> QED
  BY <1>1, SpecInv, PTL DEF Spec, AdditionsKeepOrder
\* What Next comes to, in the order it comes to it.
Ahead(q) ==
    SubSeq(PlayOrder(q), q.current + 2, Len(PlayOrder(q)))
        \o IF q.loop = "queue" THEN SubSeq(PlayOrder(q), 1, q.current + 1) ELSE <<>>
Steps(q) == IF q.loop = "queue" THEN Len(q.items) ELSE Len(q.items) - (q.current + 1)
StepTo(q, k) ==
    ((IF q.current + 1 < Len(q.items) THEN q.current + 1 ELSE 0) + k - 1) % Len(q.items)

LEMMA AheadIs ==
  ASSUME NEW q, GoodQueue(q, Track), q.items # <<>>
  PROVE  /\ Ahead(q) \in Seq(Track) /\ Len(Ahead(q)) = Steps(q) /\ Steps(q) \in Nat
         /\ \A k \in 1 .. Steps(q) :
               /\ StepTo(q, k) \in 0 .. Len(q.items) - 1
               /\ Ahead(q)[k] = TrackAt(q, StepTo(q, k))
<1> DEFINE n == Len(q.items)
           c == q.current
           o == PlayOrder(q)
           u == SubSeq(o, c + 2, Len(o))
           v == IF q.loop = "queue" THEN SubSeq(o, 1, c + 1) ELSE <<>>
           m == n - (c + 1)
<1>1. /\ o \in Seq(Track) /\ Len(o) = n /\ n \in Nat
      /\ \A i \in 1 .. n : o[i] = TrackAt(q, i - 1)
  BY PlayOrderIs
<1>2. c \in Nat /\ c < n
  BY DEF GoodQueue, Pointing, QueueRecord
<1>3. Ahead(q) = u \o v
  BY DEF Ahead
<1>4. StepTo(q, 1) = StepTo(q, 1) /\ \A k : StepTo(q, k) = ((IF c + 1 < n THEN c + 1 ELSE 0) + k - 1) % n
  BY DEF StepTo
<1>5. Steps(q) = IF q.loop = "queue" THEN n ELSE m
  BY DEF Steps
<1> HIDE DEF o, n, c
<1>6. c + 2 \in Nat /\ 1 <= c + 2 /\ m \in Nat /\ c + 1 \in Nat /\ 1 <= c + 1 /\ c + 1 <= n /\ 1 \in Nat
      /\ (IF c + 2 <= n THEN n - (c + 2) + 1 ELSE 0) = m
  BY <1>1, <1>2
<1>7. Part(u, Track, o, c + 2, n)
  BY <1>1, <1>6, PartIs
<1>8. u \in Seq(Track) /\ Len(u) = m /\ \A k \in 1 .. m : u[k] = TrackAt(q, c + k)
  <2>1. u \in Seq(Track) /\ Len(u) = m /\ \A k \in 1 .. n - (c + 2) + 1 : u[k] = o[c + 2 + k - 1]
    BY <1>6, <1>7 DEF Part
  <2> HIDE DEF u
  <2>2. ASSUME NEW k \in 1 .. m PROVE u[k] = TrackAt(q, c + k)
    <3>1. k \in 1 .. n - (c + 2) + 1 /\ c + 2 + k - 1 = c + k + 1 /\ c + k + 1 \in 1 .. n
          /\ (c + k + 1) - 1 = c + k
      BY <1>1, <1>2, <1>6
    <3>2. u[k] = o[c + 2 + k - 1]
      BY <2>1, <3>1
    <3>3. \A i \in 1 .. n : o[i] = TrackAt(q, i - 1)
      BY <1>1
    <3>4. o[c + k + 1] = TrackAt(q, (c + k + 1) - 1)
      BY <3>1, <3>3
    <3> QED
      BY <3>1, <3>2, <3>4
  <2> QED
    BY <2>1, <2>2
<1> HIDE DEF u
<1>9. CASE q.loop = "queue"
  <2> DEFINE w == SubSeq(o, 1, c + 1)
  <2>1. v = w /\ Part(w, Track, o, 1, c + 1)
    BY <1>1, <1>6, <1>9, PartIs
  <2>2. w \in Seq(Track) /\ Len(w) = c + 1 /\ \A k \in 1 .. c + 1 : w[k] = TrackAt(q, k - 1)
    <3>0. c + 1 - 1 + 1 = c + 1 /\ \A k \in 1 .. c + 1 : 1 + k - 1 = k /\ k \in 1 .. n
      BY <1>1, <1>2
    <3>1. w \in Seq(Track) /\ Len(w) = c + 1 /\ \A k \in 1 .. c + 1 : w[k] = o[k]
      BY <1>6, <2>1, <3>0 DEF Part
    <3> QED
      BY <1>1, <3>0, <3>1
  <2> HIDE DEF w
  <2>3. /\ Ahead(q) \in Seq(Track) /\ Len(Ahead(q)) = m + (c + 1)
        /\ \A k \in 1 .. m + (c + 1) : Ahead(q)[k] = IF k <= m THEN u[k] ELSE w[k - m]
    BY <1>3, <1>6, <1>8, <2>1, <2>2, ConcatProperties
  <2>4. m + (c + 1) = n /\ Steps(q) = n
    BY <1>1, <1>2, <1>5, <1>9
  <2>5. ASSUME NEW k \in 1 .. n
        PROVE  StepTo(q, k) \in 0 .. n - 1 /\ Ahead(q)[k] = TrackAt(q, StepTo(q, k))
    <3> DEFINE f == IF c + 1 < n THEN c + 1 ELSE 0
               x == f + k - 1
    <3>0. StepTo(q, k) = x % n
      BY <1>4
    <3>1. c \in Nat /\ n \in Nat /\ c < n
      BY <1>1, <1>2
    <3>2. x \in Nat /\ x < n + n
      BY <3>1
    <3>3. x % n = IF x < n THEN x ELSE x - n
      BY <3>1, <3>2, OnceAround
    <3>4. k <= m => k \in 1 .. m /\ x % n = c + k
      BY <3>1, <3>3
    <3>5. ~(k <= m) => k - m \in 1 .. c + 1 /\ x % n = k - m - 1
      BY <3>1, <3>3
    <3>6. x % n \in 0 .. n - 1
      BY <3>1, <3>2, <3>3
    <3> HIDE DEF x
    <3> QED
      BY <1>8, <2>2, <2>3, <2>4, <3>0, <3>4, <3>5, <3>6
  <2> QED
    BY <1>1, <2>3, <2>4, <2>5 DEF n
<1>10. CASE q.loop # "queue"
  <2>1. Ahead(q) = u /\ Steps(q) = m
    BY <1>3, <1>5, <1>8, <1>10, ConcatEmptySeq
  <2>2. ASSUME NEW k \in 1 .. m
        PROVE  StepTo(q, k) \in 0 .. n - 1 /\ u[k] = TrackAt(q, StepTo(q, k))
    <3>1. c + k \in Nat /\ c + k < n /\ c + 1 < n /\ c + 1 + k - 1 = c + k
      BY <1>1, <1>2
    <3>2. StepTo(q, k) = (c + k) % n
      BY <1>4, <3>1
    <3>3. (c + k) % n = c + k
      BY <1>1, <3>1, OnceAround
    <3> QED
      BY <1>1, <1>8, <3>1, <3>2, <3>3
  <2> QED
    BY <1>6, <1>8, <2>1, <2>2 DEF n
<1> QED
  BY <1>9, <1>10

LEMMA NextIs ==
  ASSUME NEW q, GoodQueue(q, Track), q.items # <<>>, NEW playable
  PROVE  LET P == Places(Ahead(q), playable)
         IN  /\ q.loop = "track" => PeekNext(q, playable) = q.current
             /\ q.loop # "track" /\ P = {} => PeekNext(q, playable) = Nowhere
             /\ q.loop # "track" /\ P # {} => PeekNext(q, playable) = StepTo(q, Min(P))
<1> DEFINE n == Len(q.items)
           c == q.current
           P == Places(Ahead(q), playable)
           first == IF c + 1 < n THEN c + 1 ELSE 0
           at(k) == (first + k - 1) % n
           reached == {k \in 1 .. n : /\ HasFollowingTrack(c, n, q.loop)
                                      /\ q.loop = "none" => first + k - 1 < n}
           good == {k \in reached : HasTrack(q, at(k)) /\ TrackAt(q, at(k)) \in playable}
<1>1. /\ q \in QueueRecord(Track) /\ Sound(q) /\ c \in Nat /\ n \in Nat /\ c < n /\ q.loop \in LoopModes
  BY DEF GoodQueue, Pointing, QueueRecord
<1>2. QueueLen(q) = n /\ \A pos \in 0 .. n - 1 : HasTrack(q, pos)
  BY <1>1, SoundQueue
<1>3. PeekNext(q, playable) =
          CASE n = 0                                  -> Nowhere
            [] n > 0 /\ q.loop = "track"              -> c
            [] n > 0 /\ q.loop # "track" /\ good # {} -> at(Min(good))
            [] OTHER                                  -> Nowhere
  BY <1>2 DEF PeekNext
<1>4. /\ Ahead(q) \in Seq(Track) /\ Len(Ahead(q)) = Steps(q) /\ Steps(q) \in Nat
      /\ \A k \in 1 .. Steps(q) :
            /\ StepTo(q, k) \in 0 .. n - 1
            /\ Ahead(q)[k] = TrackAt(q, StepTo(q, k))
  BY AheadIs
<1>5. \A k : at(k) = StepTo(q, k)
  BY DEF StepTo
<1>6. Steps(q) = IF q.loop = "queue" THEN n ELSE n - (c + 1)
  BY DEF Steps
<1>7. q.loop # "track" => reached = 1 .. Steps(q)
  <2> SUFFICES ASSUME q.loop # "track" PROVE reached = 1 .. Steps(q)
    OBVIOUS
  <2>1. q.loop = "none" \/ q.loop = "queue"
    BY <1>1 DEF LoopModes
  <2>2. HasFollowingTrack(c, n, q.loop) <=> n > 0 /\ (q.loop = "none" => c + 1 < n)
    BY DEF HasFollowingTrack
  <2> HIDE DEF n, c
  <2>3. CASE q.loop = "queue"
    <3>1. reached = 1 .. n
      BY <1>1, <2>2, <2>3
    <3> QED
      BY <1>6, <2>3, <3>1
  <2>4. CASE q.loop = "none"
    <3>1. reached = {k \in 1 .. n : c + 1 < n /\ first + k - 1 < n}
      BY <1>1, <2>2, <2>4
    <3>2. ASSUME NEW k \in Int PROVE k \in reached <=> k \in 1 .. n - (c + 1)
      <4>1. CASE c + 1 < n
        <5>1. first = c + 1
          BY <4>1
        <5>2. k \in 1 .. n /\ c + 1 + k - 1 < n <=> k \in 1 .. n - (c + 1)
          BY <1>1, <4>1
        <5> HIDE DEF first, reached
        <5> QED
          BY <3>1, <4>1, <5>1, <5>2
      <4>2. CASE ~(c + 1 < n)
        <5>1. k \notin 1 .. n - (c + 1)
          BY <1>1, <4>2
        <5> HIDE DEF first, reached
        <5> QED
          BY <3>1, <4>2, <5>1
      <4> QED
        BY <4>1, <4>2
    <3>3. reached \in SUBSET Int /\ 1 .. n - (c + 1) \in SUBSET Int
      OBVIOUS
    <3> HIDE DEF reached
    <3>4. reached = 1 .. n - (c + 1)
      BY <1>1, <3>2, <3>3
    <3> QED
      BY <1>6, <2>4, <3>4
  <2> QED
    BY <2>1, <2>3, <2>4
<1> HIDE DEF reached
<1>8. q.loop # "track" => good = P
  <2> SUFFICES ASSUME q.loop # "track" PROVE good = P
    OBVIOUS
  <2>1. DOMAIN Ahead(q) = 1 .. Steps(q)
    BY <1>4
  <2>2. \A k \in 1 .. Steps(q) : HasTrack(q, at(k)) /\ TrackAt(q, at(k)) = Ahead(q)[k]
    BY <1>2, <1>4, <1>5
  <2> HIDE DEF at
  <2>3. good = {k \in reached : HasTrack(q, at(k)) /\ TrackAt(q, at(k)) \in playable}
    OBVIOUS
  <2>4. P = {k \in 1 .. Steps(q) : Ahead(q)[k] \in playable}
    BY <2>1 DEF Places
  <2> QED
    BY <1>7, <2>2, <2>3, <2>4
<1>9. Min(P) = Min(P) /\ at(Min(P)) = StepTo(q, Min(P))
  BY <1>5
<1> HIDE DEF good, at, P
<1>10. n # 0 /\ n > 0
  BY <1>1
<1> HIDE DEF n, c
<1>11. q.loop = "track" => PeekNext(q, playable) = c
  BY <1>3, <1>10
<1>12. q.loop # "track" /\ P = {} => PeekNext(q, playable) = Nowhere
  BY <1>3, <1>8, <1>10
<1>13. q.loop # "track" /\ P # {} => PeekNext(q, playable) = StepTo(q, Min(P))
  BY <1>3, <1>8, <1>9, <1>10
<1> QED
  BY <1>11, <1>12, <1>13 DEF P, c

\* Next plays the nearest track after the current one that may be played, coming
\* round when the queue loops, and a promise of has_next_track is kept.
THEOREM NextIsNearest == Spec => []NextIsNearestPlayable
<1>1. Inv => NextIsNearestPlayable
  <2> SUFFICES ASSUME Inv, queue.items # <<>>, NEW playable \in Filters
               PROVE  LET good == Kept(Ahead(queue), playable)
                          next == PeekNext(queue, playable)
                      IN  /\ ~HasNextTrack(queue) => next = Nowhere
                          /\ HasNextTrack(queue) /\ playable = Track => next # Nowhere
                          /\ queue.loop = "track" => next = queue.current
                          /\ queue.loop # "track" /\ good = <<>> => next = Nowhere
                          /\ queue.loop # "track" /\ good # <<>> =>
                                next # Nowhere /\ TrackAt(queue, next) = good[1]
    BY DEF NextIsNearestPlayable, Ahead
  <2> DEFINE a == Ahead(queue)
             P == Places(a, playable)
             good == Kept(a, playable)
             next == PeekNext(queue, playable)
             n == Len(queue.items)
             c == queue.current
  <2>1. GoodQueue(queue, Track) /\ queue.loop \in LoopModes /\ n \in Nat /\ c \in Nat /\ c < n
    BY QueueIs DEF QueueRecord, Pointing
  <2>2. /\ a \in Seq(Track) /\ Len(a) = Steps(queue) /\ Steps(queue) \in Nat
        /\ \A k \in 1 .. Steps(queue) :
              /\ StepTo(queue, k) \in 0 .. n - 1
              /\ a[k] = TrackAt(queue, StepTo(queue, k))
    BY <2>1, AheadIs
  <2>3. /\ queue.loop = "track" => next = c
        /\ queue.loop # "track" /\ P = {} => next = Nowhere
        /\ queue.loop # "track" /\ P # {} => next = StepTo(queue, Min(P))
    BY <2>1, NextIs
  <2> HIDE DEF a, next
  <2>4. /\ P = {} => good = <<>>
        /\ P # {} => good # <<>> /\ Min(P) \in P /\ good[1] = a[Min(P)]
    BY <2>2, FirstKept
  <2>5. P \in SUBSET (1 .. Steps(queue))
    BY <2>2 DEF Places
  <2>6. /\ HasNextTrack(queue) <=> n > 0 /\ (queue.loop = "none" => c + 1 < n)
        /\ Steps(queue) = IF queue.loop = "queue" THEN n ELSE n - (c + 1)
    BY DEF HasNextTrack, HasFollowingTrack, Steps
  <2> HIDE DEF n, c
  <2>7. ~HasNextTrack(queue) => P = {} /\ queue.loop # "track"
    <3> SUFFICES ASSUME ~HasNextTrack(queue) PROVE P = {} /\ queue.loop # "track"
      OBVIOUS
    <3>1. queue.loop = "none" /\ Steps(queue) = 0
      BY <2>1, <2>6
    <3> QED
      BY <2>5, <3>1
  <2>8. HasNextTrack(queue) /\ playable = Track /\ queue.loop # "track" => P # {}
    <3> SUFFICES ASSUME HasNextTrack(queue), playable = Track, queue.loop # "track" PROVE 1 \in P
      OBVIOUS
    <3>1. queue.loop = "none" \/ queue.loop = "queue"
      BY <2>1 DEF LoopModes
    <3>2. 1 \in 1 .. Steps(queue)
      BY <2>1, <2>6, <3>1
    <3> QED
      BY <2>2, <3>2 DEF Places
  <2> HIDE DEF P, good
  <2>9. P # {} /\ queue.loop # "track" =>
           next \in 0 .. n - 1 /\ TrackAt(queue, next) = good[1]
    BY <2>2, <2>3, <2>4, <2>5
  <2>10. \A x \in 0 .. n - 1 : x # Nowhere
    BY DEF Nowhere
  <2>11. c \in 0 .. n - 1
    BY <2>1
  <2> QED
    BY <2>3, <2>4, <2>7, <2>8, <2>9, <2>10, <2>11 DEF a, next, good, c
<1> QED
  BY <1>1, SpecInv, PTL

-----------------------------------------------------------------------------
(***************************************************************************)
(* Where that queue is kept (QueueSync), for any number of sources, any     *)
(* listings and any amount of what happens from outside: no queue is lost by *)
(* the persist tick, a switch, a quit or a crash; the newest push is the     *)
(* last one tried; and a change of the queue published while the server      *)
(* answers outranks its answer.                                             *)
(***************************************************************************)

MarkRec == [rows : Rows, current : 0 .. MaxPlace, playing : BOOLEAN]
SessionRec == [active : Sources, server : Sources, queue : Queues, playing : BOOLEAN,
               rev : Nat, dirty : BOOLEAN, unread : BOOLEAN,
               loaded : [mark : MarkRec, secs : 0 .. MaxSecs] \cup {None}]
SaveRec == [src : Sources, queue : Queues]
WrittenRec == [src : Sources, rows : Rows]
TurnRec == [to : Sources, removed : BOOLEAN]
PushRec == [to : Sources, src : Sources, queue : Queues, mark : MarkRec, seq : Nat]
WriterRec == [at : {"idle", "send", "record", "answer"}, push : PushRec \cup {None},
              flush : BOOLEAN]
AdoptRec == [at : {"none", "ask", "fetch", "judge", "tell"}, src : Sources \cup {None},
             rev : Nat, got : Queues]
GhostRec == [parked : [Sources -> Queues], lost : SUBSET Sources, sent : Nat, tried : Nat,
             touched : BOOLEAN, skipped : BOOLEAN]

SessionTypes ==
    /\ daemon \in {"up", "flushing", "down"}
    /\ chosen \in Sources
    /\ s \in SessionRec
    /\ turn \in TurnRec \cup {None}
StoreTypes ==
    /\ saves \in Seq(SaveRec)
    /\ written \in WrittenRec \cup {None}
    /\ db \in [Sources -> Queues]
    /\ events \in Nat
WriterTypes ==
    /\ jobs \in Seq(PushRec \cup {None})
    /\ writer \in WriterRec
    /\ writer.at \in {"send", "record"} => writer.push \in PushRec
    /\ remote \in [Sources -> Queues]
AdoptTypes ==
    /\ adopt \in AdoptRec
    /\ adopt.at # "none" => adopt.src \in Sources
GhostTypes == ghost \in GhostRec

Typed == SessionTypes /\ StoreTypes /\ WriterTypes /\ AdoptTypes /\ GhostTypes

LEMMA EmptyIsQueue == Empty \in Queues
BY QueueSyncBounds DEF Empty, Queues, Rows

LEMMA QueuesOfAreQueues == ASSUME NEW src \in Sources PROVE QueuesOf(src) \subseteq Queues
<1>1. [rows : {<<src>>} \X Listings, current : 0 .. MaxPlace, secs : 0 .. MaxSecs] \subseteq Queues
  <2>1. {<<src>>} \X Listings \subseteq Rows BY DEF Rows
  <2> QED BY <2>1 DEF Queues
<1> QED BY <1>1, EmptyIsQueue DEF QueuesOf

LEMMA LoadedTypes ==
    ASSUME NEW sess \in SessionRec
    PROVE  [sess EXCEPT !.loaded = Loaded(sess)] \in SessionRec
<1>1. Loaded(sess) \in [mark : MarkRec, secs : 0 .. MaxSecs]
  BY DEF SessionRec, Queues, Loaded, Mark, MarkRec
<1> QED BY <1>1 DEF SessionRec

LEMMA RestoredTypes ==
    ASSUME NEW sess \in SessionRec, NEW held \in Queues
    PROVE  /\ Restored(sess, held) \in SessionRec
           /\ Restored(sess, held).active = sess.active
           /\ Restored(sess, held).queue = held
           /\ Restored(sess, held).rev = sess.rev + 1
           /\ Restored(sess, held).dirty = FALSE
           /\ Restored(sess, held).unread = (sess.unread /\ held = Empty)
<1> DEFINE new == [sess EXCEPT !.queue = held, !.playing = FALSE, !.rev = @ + 1,
                               !.dirty = FALSE, !.unread = @ /\ held = Empty]
<1>1. new \in SessionRec
  <2>1. ASSUME NEW unread \in BOOLEAN, NEW rev \in Nat
        PROVE  [sess EXCEPT !.queue = held, !.playing = FALSE, !.rev = rev,
                            !.dirty = FALSE, !.unread = unread] \in SessionRec
    <3> HIDE DEF new
    <3> QED BY DEF SessionRec
  <2>2. sess.rev + 1 \in Nat BY DEF SessionRec
  <2>3. (sess.unread /\ held = Empty) \in BOOLEAN OBVIOUS
  <2> QED BY <2>1, <2>2, <2>3
<1>2. /\ new.active = sess.active /\ new.queue = held /\ new.rev = sess.rev + 1
      /\ new.dirty = FALSE /\ new.unread = (sess.unread /\ held = Empty)
  BY DEF SessionRec
<1>3. Restored(sess, held) = [new EXCEPT !.loaded = Loaded(new)] BY DEF Restored
<1> HIDE DEF new
<1> QED BY <1>1, <1>2, <1>3, LoadedTypes DEF SessionRec

LEMMA BootedTypes ==
    ASSUME NEW src \in Sources, NEW held \in Queues
    PROVE  /\ Booted(src, held) \in SessionRec
           /\ Booted(src, held).active = src /\ Booted(src, held).queue = held
           /\ Booted(src, held).dirty = FALSE /\ Booted(src, held).unread = FALSE
<1>1. Session(src, held) \in SessionRec BY DEF Session, SessionRec
<1>2. /\ Session(src, held).active = src /\ Session(src, held).queue = held
      /\ Session(src, held).dirty = FALSE /\ Session(src, held).unread = FALSE
  BY DEF Session
<1>3. Booted(src, held) = [Session(src, held) EXCEPT !.loaded = Loaded(Session(src, held))]
  BY DEF Booted
<1> HIDE DEF Session
<1> QED BY <1>1, <1>2, <1>3, LoadedTypes DEF SessionRec

LEMMA PushOfTypes ==
    ASSUME Typed PROVE PushOf(s) \in PushRec /\ PushOf(s).seq = ghost.sent + 1
BY DEF Typed, SessionTypes, GhostTypes, SessionRec, GhostRec, Queues, PushOf, PushRec, Mark,
       MarkRec

LEMMA PushIsNoFlush == ASSUME NEW push \in PushRec PROVE push # Flush
BY NoneIsApart DEF PushRec, MarkRec, Flush

(* A save of the database: it holds what was saved, or the source's last     *)
(* save has failed.                                                          *)
WrittenIsStored == written # None => db[written.src].rows = written.rows
LEMMA SaveStores ==
    ASSUME StoreTypes, WrittenIsStored, GhostTypes, NEW src \in Sources, NEW held \in Queues,
           Save(src, held)
    PROVE  /\ db' \in [Sources -> Queues] /\ written' \in WrittenRec \cup {None}
           /\ events' \in Nat /\ WrittenIsStored'
           /\ \A other \in Sources \ {src} : db'[other] = db[other]
           /\ LostBy(src) = ghost.lost \ {src} \/ LostBy(src) = ghost.lost \cup {src}
           /\ src \in LostBy(src) \/ db'[src] = held
<1>1. CASE /\ db' = [db EXCEPT ![src] = IF OnlyMoved(src, held)
                                        THEN [held EXCEPT !.rows = db[src].rows] ELSE held]
           /\ written' = [src |-> src, rows |-> held.rows]
           /\ UNCHANGED events
  <2>1. db[src] \in Queues /\ held.rows \in Rows BY DEF StoreTypes, Queues
  <2>2. CASE OnlyMoved(src, held)
    <3>1. written # None
      <4>1. [src |-> src, rows |-> held.rows] # None BY <2>1, NoneIsApart
      <4> QED BY <2>2, <4>1 DEF OnlyMoved
    <3>2. db[src].rows = held.rows BY <2>2, <3>1 DEF OnlyMoved, WrittenIsStored
    <3>3. [held EXCEPT !.rows = db[src].rows] = held BY <2>1, <3>2 DEF Queues
    <3> QED BY <1>1, <2>1, <2>2, <3>3 DEF StoreTypes, WrittenRec, WrittenIsStored, LostBy
  <2>3. CASE ~OnlyMoved(src, held)
    BY <1>1, <2>1, <2>3 DEF StoreTypes, WrittenRec, WrittenIsStored, LostBy
  <2> QED BY <2>2, <2>3
<1>2. CASE Happens("save fails") /\ written' = None /\ UNCHANGED db
  <2>1. events' = events + 1 /\ events \in Nat BY <1>2 DEF Happens, StoreTypes
  <2>2. events' # events /\ events' \in Nat BY <2>1
  <2>3. db' = db /\ written' = None BY <1>2
  <2>4. LostBy(src) = ghost.lost \cup {src} BY <2>2, <2>3 DEF LostBy
  <2> QED BY <2>2, <2>3, <2>4 DEF StoreTypes, WrittenIsStored
<1> QED BY <1>1, <1>2 DEF Save

-----------------------------------------------------------------------------
(* What has been left is where it was left.  The saves still to run are the  *)
(* active source's, the last of them the queue it has now unless that is     *)
(* dirty; a queue that could not be read, and one that a quit has saved, are  *)
(* as they were left.                                                        *)
Parked(src) == src \notin ghost.lost => db[src] = ghost.parked[src]
Saved ==
    /\ WrittenIsStored
    /\ \A i \in 1 .. Len(saves) : saves[i].src = s.active
    /\ daemon # "up" \/ s.unread => saves = <<>> /\ Parked(s.active)
    /\ \A src \in Sources : src # s.active => Parked(src)
    /\ daemon # "down" /\ ~s.dirty /\ ~s.unread =>
          IF saves = <<>> THEN s.active \notin ghost.lost => db[s.active] = s.queue
                          ELSE saves[Len(saves)].queue = s.queue

(* The two commands of a switch are about the source that was chosen.        *)
Turns ==
    /\ turn # None => turn.to = chosen /\ chosen # s.active
    /\ turn = None /\ daemon # "down" => chosen = s.active
    /\ daemon = "down" => turn = None

(* What is stored, what is owed and what the switch is at stay as they are.  *)
StoreStays ==
    /\ UNCHANGED <<daemon, chosen, turn, saves, written, db>>
    /\ ghost'.parked = ghost.parked /\ ghost'.lost = ghost.lost
    /\ s'.active = s.active /\ s'.queue = s.queue /\ s'.dirty = s.dirty /\ s'.unread = s.unread

LEMMA StoreStaysSaved == ASSUME Saved, Turns, StoreStays PROVE Saved' /\ Turns'
BY DEF Saved, Turns, StoreStays, Parked, WrittenIsStored

(* The session goes on with a queue that is owed a save.                     *)
LEMMA DirtySaved ==
    ASSUME Saved, Turns, UNCHANGED <<daemon, chosen, turn, saves, written, db>>,
           ghost'.parked = ghost.parked, ghost'.lost = ghost.lost,
           s'.active = s.active, s'.dirty = TRUE, s'.unread => s.unread
    PROVE  Saved' /\ Turns'
BY DEF Saved, Turns, Parked, WrittenIsStored

-----------------------------------------------------------------------------
(* The newest push is the one the writer has or will take, or has been tried. *)
Newest(i) == i \in Pushes /\ \A j \in Pushes : j <= i
Tries ==
    /\ ghost.tried <= ghost.sent
    /\ daemon = "down" => jobs = <<>> /\ writer.at = "idle"
    /\ writer.at = "send" => writer.push.seq <= ghost.sent
    /\ daemon # "down" =>
          \/ \E i \in Pushes : Newest(i) /\ jobs[i].seq = ghost.sent
          \/ Pushes = {} /\ writer.at = "send" /\ writer.push.seq = ghost.sent
          \/ Pushes = {} /\ writer.at # "send" /\ ghost.tried = ghost.sent

(* Adoption judges by a revision no newer than the session's, and an older   *)
(* one once the queue has been touched.                                      *)
Judges ==
    adopt.at \in {"fetch", "judge", "tell"} =>
        adopt.rev <= s.rev /\ (ghost.touched => adopt.rev < s.rev)

LEMMA TriesStay ==
    ASSUME Tries, UNCHANGED <<daemon, jobs, writer>>,
           ghost'.tried = ghost.tried, ghost'.sent = ghost.sent
    PROVE  Tries'
BY DEF Tries, Newest, Pushes

LEMMA JudgesStay ==
    ASSUME Judges, adopt' = adopt, s'.rev = s.rev, ghost'.touched = ghost.touched
    PROVE  Judges'
BY DEF Judges

(* What one step owes the two other properties.                              *)
Outranked == adopt.at = "tell" /\ adopt'.at = "none" /\ ghost.touched => s'.queue = s.queue

SyncInv == Typed /\ Saved /\ Turns /\ Tries /\ Judges

LEMMA SaveNextKeeps == ASSUME SyncInv, SaveNext PROVE SyncInv' /\ Outranked
<1> USE DEF SyncInv, Typed
<1>1. /\ saves \in Seq(SaveRec) /\ saves # <<>>
      /\ Head(saves) = saves[1] /\ saves[1] \in SaveRec
      /\ saves' = Tail(saves) /\ Tail(saves) \in Seq(SaveRec) /\ Len(Tail(saves)) = Len(saves) - 1
      /\ Len(saves) \in Nat /\ Len(saves) >= 1
      /\ \A i \in 1 .. Len(Tail(saves)) : Tail(saves)[i] = saves[i + 1]
  BY DEF SaveNext, StoreTypes
<1>2. Save(saves[1].src, saves[1].queue) /\ saves[1].src = s.active /\ saves[1].queue \in Queues
  BY <1>1 DEF SaveNext, Saved, SaveRec
<1> DEFINE lost == LostBy(s.active)
<1>3. /\ db' \in [Sources -> Queues] /\ written' \in WrittenRec \cup {None}
      /\ events' \in Nat /\ WrittenIsStored'
      /\ \A other \in Sources \ {s.active} : db'[other] = db[other]
      /\ lost = ghost.lost \ {s.active} \/ lost = ghost.lost \cup {s.active}
      /\ s.active \in lost \/ db'[s.active] = saves[1].queue
  BY <1>2, SaveStores DEF SessionTypes, SessionRec, Saved
<1>4. ghost' = [ghost EXCEPT !.lost = lost] BY <1>1, <1>2 DEF SaveNext
<1>5. UNCHANGED <<daemon, chosen, s, turn, jobs, writer, remote, adopt>> /\ daemon # "down"
  BY DEF SaveNext
<1> HIDE DEF lost
<1>6. /\ ghost' \in GhostRec /\ ghost'.lost = lost /\ ghost'.parked = ghost.parked
      /\ ghost'.sent = ghost.sent /\ ghost'.tried = ghost.tried /\ ghost'.touched = ghost.touched
  BY <1>3, <1>4 DEF GhostTypes, GhostRec, SessionTypes, SessionRec
<1>7. Typed'
  BY <1>1, <1>3, <1>5, <1>6 DEF SessionTypes, StoreTypes, WriterTypes, AdoptTypes, GhostTypes
<1>8. daemon = "up" /\ ~s.unread BY <1>1, <1>5 DEF Saved, SessionTypes
<1>9. \A src \in Sources : src # s.active => Parked(src)'
  BY <1>3, <1>6 DEF Saved, Parked
<1>10. ASSUME ~s.dirty
       PROVE  IF saves' = <<>> THEN s.active \notin lost => db'[s.active] = s.queue
                               ELSE saves'[Len(saves')].queue = s.queue
  <2>1. saves[Len(saves)].queue = s.queue BY <1>1, <1>5, <1>8, <1>10 DEF Saved
  <2>2. CASE Len(saves) = 1 BY <1>1, <1>3, <2>1, <2>2
  <2>3. CASE Len(saves) # 1
    <3>1. saves'[Len(saves')] = saves[Len(saves)] BY <1>1, <2>3
    <3>2. saves' # <<>>
      <4>1. saves' \in Seq(SaveRec) /\ Len(saves') # 0 BY <1>1, <2>3
      <4> QED BY <4>1, EmptySeq
    <3> QED BY <2>1, <3>1, <3>2
  <2> QED BY <2>2, <2>3
<1>11. \A i \in 1 .. Len(saves') : saves'[i].src = s.active BY <1>1 DEF Saved
<1>12. Saved' BY <1>3, <1>5, <1>6, <1>8, <1>9, <1>10, <1>11 DEF Saved
<1>13. Turns' BY <1>5 DEF Turns
<1>14. Tries' BY <1>5, <1>6, TriesStay
<1>15. Judges' BY <1>5, <1>6, JudgesStay
<1> QED BY <1>5, <1>7, <1>12, <1>13, <1>14, <1>15 DEF Outranked

(* A push handed to the writer is the newest, with or without a flush.       *)
LEMMA HandedOver ==
    ASSUME WriterTypes, Tries, GhostTypes, NEW push \in PushRec, push.seq = ghost.sent + 1,
           jobs' = Append(jobs, push) \/ jobs' = jobs \o <<push, Flush>>,
           writer' = writer, daemon # "down", daemon' # "down",
           ghost'.sent = ghost.sent + 1, ghost'.tried = ghost.tried
    PROVE  jobs' \in Seq(PushRec \cup {None}) /\ Tries'
<1> DEFINE Jobs == PushRec \cup {None}
<1>1. jobs \in Seq(Jobs) BY DEF WriterTypes
<1>2. PICK n \in Nat : n = Len(jobs) + 1 BY <1>1
<1>3. push # Flush BY PushIsNoFlush
<1>4. push \in Jobs /\ Flush \in Jobs BY DEF Flush
<1> HIDE DEF Jobs
<1>5. /\ jobs' \in Seq(Jobs) /\ n \in DOMAIN jobs' /\ jobs'[n] = push
      /\ \A j \in DOMAIN jobs' : jobs'[j] # Flush => j <= n
  <2>1. CASE jobs' = Append(jobs, push) BY <1>1, <1>2, <1>4, <2>1
  <2>2. CASE jobs' = jobs \o <<push, Flush>>
    <3>1. <<push, Flush>> \in Seq(Jobs) BY <1>4
    <3>2. /\ jobs' \in Seq(Jobs) /\ Len(jobs') = n + 1 /\ DOMAIN jobs' = 1 .. n + 1
          /\ jobs'[n] = push /\ jobs'[n + 1] = Flush
      BY <1>1, <1>2, <2>2, <3>1
    <3> QED BY <1>2, <3>2
  <2> QED BY <2>1, <2>2
<1>6. n \in Pushes' /\ Newest(n)' BY <1>3, <1>5 DEF Pushes, Newest
<1>7. ghost.sent \in Nat /\ ghost.tried \in Nat /\ (writer.at = "send" => writer.push.seq \in Nat)
  BY DEF GhostTypes, GhostRec, WriterTypes, PushRec
<1>8. jobs'[n].seq = ghost'.sent BY <1>5
<1>9. ghost'.tried <= ghost'.sent BY <1>7 DEF Tries
<1>10. writer'.at = "send" => writer'.push.seq <= ghost'.sent BY <1>7 DEF Tries
<1> QED BY <1>5, <1>6, <1>8, <1>9, <1>10 DEF Tries, Jobs

LEMMA TickKeeps == ASSUME SyncInv, Tick PROVE SyncInv' /\ Outranked
<1> USE DEF SyncInv, Typed
<1>1. UNCHANGED <<daemon, chosen, turn, written, db, writer, remote, adopt, events>>
      /\ daemon = "up" /\ s.dirty
  BY DEF Tick, Up
<1>2. /\ s' \in SessionRec /\ s'.active = s.active /\ s'.queue = s.queue /\ s'.dirty = FALSE
      /\ s'.unread = s.unread /\ s'.rev = s.rev
  <2>1. s' = [s EXCEPT !.dirty = FALSE, !.loaded = None] \/ s' = [s EXCEPT !.dirty = FALSE]
    BY DEF Tick
  <2> QED BY <2>1 DEF SessionTypes, SessionRec
<1>3. /\ ghost' \in GhostRec /\ ghost'.parked = ghost.parked /\ ghost'.lost = ghost.lost
      /\ ghost'.touched = ghost.touched /\ ghost'.tried = ghost.tried
  <2>1. ghost' = [ghost EXCEPT !.sent = @ + 1] \/ ghost' = ghost BY DEF Tick
  <2> QED BY <2>1 DEF GhostTypes, GhostRec
<1>4. jobs' \in Seq(PushRec \cup {None}) /\ Tries'
  <2>1. CASE Owed(FALSE)
    <3>1. jobs' = Append(jobs, PushOf(s)) /\ ghost'.sent = ghost.sent + 1
      BY <2>1 DEF Tick, GhostTypes, GhostRec
    <3> QED BY <1>1, <1>3, <3>1, PushOfTypes, HandedOver
  <2>2. CASE ~Owed(FALSE)
    <3>1. jobs' = jobs /\ ghost' = ghost BY <2>2 DEF Tick
    <3> QED BY <1>1, <3>1, TriesStay DEF WriterTypes
  <2> QED BY <2>1, <2>2
<1>5. StoreTypes' /\ Saved'
  <2>1. CASE s.unread
    <3>1. saves' = saves BY <2>1 DEF Tick
    <3> QED BY <1>1, <1>2, <1>3, <2>1, <3>1 DEF StoreTypes, Saved, Parked, WrittenIsStored
  <2>2. CASE ~s.unread
    <3> DEFINE save == [src |-> s.active, queue |-> s.queue]
    <3>1. saves' = Append(saves, save) BY <2>2 DEF Tick
    <3>2. save \in SaveRec BY DEF SaveRec, SessionTypes, SessionRec
    <3>3. saves \in Seq(SaveRec) /\ saves' \in Seq(SaveRec) /\ Len(saves') = Len(saves) + 1
          /\ Len(saves) \in Nat
      BY <3>1, <3>2 DEF StoreTypes
    <3>4. \A i \in 1 .. Len(saves') : saves'[i].src = s.active
      BY <3>1, <3>3 DEF Saved
    <3>5. saves'[Len(saves')].queue = s.queue BY <3>1, <3>3
    <3>6. saves' # <<>>
      <4>1. Len(saves') # 0 BY <3>3
      <4> QED BY <3>3, <4>1, EmptySeq
    <3> HIDE DEF save
    <3> QED BY <1>1, <1>2, <1>3, <2>2, <3>3, <3>4, <3>5, <3>6
            DEF StoreTypes, Saved, Parked, WrittenIsStored
  <2> QED BY <2>1, <2>2
<1>6. Typed'
  BY <1>1, <1>2, <1>3, <1>4, <1>5 DEF SessionTypes, WriterTypes, AdoptTypes, GhostTypes
<1>7. Turns' BY <1>1, <1>2 DEF Turns
<1>8. Judges' BY <1>1, <1>2, <1>3, JudgesStay
<1> QED BY <1>1, <1>2, <1>4, <1>5, <1>6, <1>7, <1>8 DEF Outranked

LEMMA PersistKeeps == ASSUME SyncInv, Persist PROVE SyncInv' /\ Outranked
<1> USE DEF SyncInv, Typed
<1>1. UNCHANGED <<chosen, turn, saves, writer, remote, adopt>>
      /\ daemon = "up" /\ daemon' = "flushing" /\ saves = <<>>
  BY DEF Persist, Up
<1>2. /\ s' \in SessionRec /\ s'.active = s.active /\ s'.queue = s.queue
      /\ s'.unread = s.unread /\ s'.rev = s.rev
  BY DEF Persist, SessionTypes, SessionRec
<1>3. /\ s.active \in Sources /\ s.queue \in Queues
      /\ LostBy(s.active) = ghost.lost \ {s.active} \/ LostBy(s.active) = ghost.lost \cup {s.active}
  BY DEF SessionTypes, SessionRec, LostBy
<1>4. /\ ghost' \in GhostRec /\ ghost'.touched = ghost.touched /\ ghost'.tried = ghost.tried
      /\ ghost'.sent = IF Owed(TRUE) THEN ghost.sent + 1 ELSE ghost.sent
      /\ ghost'.lost = IF s.unread THEN ghost.lost ELSE LostBy(s.active)
      /\ ghost'.parked = IF s.unread THEN ghost.parked ELSE [ghost.parked EXCEPT ![s.active] = s.queue]
  <2> DEFINE sent == IF Owed(TRUE) THEN ghost.sent + 1 ELSE ghost.sent
             lost == IF s.unread THEN ghost.lost ELSE LostBy(s.active)
             parked == IF s.unread THEN ghost.parked ELSE [ghost.parked EXCEPT ![s.active] = s.queue]
  <2>1. ghost' = [ghost EXCEPT !.sent = sent, !.lost = lost, !.parked = parked] BY DEF Persist
  <2>2. sent \in Nat
    <3>1. ghost.sent \in Nat /\ ghost.sent + 1 \in Nat BY DEF GhostTypes, GhostRec
    <3> QED BY <3>1
  <2>3. lost \in SUBSET Sources BY <1>3 DEF GhostTypes, GhostRec
  <2>4. parked \in [Sources -> Queues] BY <1>3 DEF GhostTypes, GhostRec
  <2> HIDE DEF sent, lost, parked
  <2>5. /\ ghost' \in GhostRec /\ ghost'.touched = ghost.touched /\ ghost'.tried = ghost.tried
        /\ ghost'.sent = sent /\ ghost'.lost = lost /\ ghost'.parked = parked
    BY <2>1, <2>2, <2>3, <2>4 DEF GhostTypes, GhostRec
  <2> QED BY <2>5 DEF sent, lost, parked
<1>5. jobs' \in Seq(PushRec \cup {None}) /\ Tries'
  <2>1. CASE Owed(TRUE)
    <3>1. jobs' = jobs \o <<PushOf(s), Flush>> BY <2>1 DEF Persist
    <3>2. ghost'.sent = ghost.sent + 1 BY <1>4, <2>1
    <3> QED BY <1>1, <1>4, <3>1, <3>2, PushOfTypes, HandedOver
  <2>2. CASE ~Owed(TRUE)
    <3>1. jobs' = jobs BY <2>2 DEF Persist
    <3>2. ghost'.sent = ghost.sent BY <1>4, <2>2
    <3> QED BY <1>1, <1>4, <3>1, <3>2 DEF WriterTypes, Tries, Newest, Pushes
  <2> QED BY <2>1, <2>2
<1>6. StoreTypes' /\ Saved'
  <2>1. CASE s.unread
    <3>1. UNCHANGED <<db, written, events>> BY <2>1 DEF Persist
    <3> QED BY <1>1, <1>2, <1>4, <2>1, <3>1 DEF StoreTypes, Saved, Parked, WrittenIsStored
  <2>2. CASE ~s.unread
    <3>1. Save(s.active, s.queue) BY <2>2 DEF Persist
    <3>2. /\ db' \in [Sources -> Queues] /\ written' \in WrittenRec \cup {None}
          /\ events' \in Nat /\ WrittenIsStored'
          /\ \A other \in Sources \ {s.active} : db'[other] = db[other]
          /\ s.active \in LostBy(s.active) \/ db'[s.active] = s.queue
      BY <1>3, <3>1, SaveStores DEF Saved
    <3>3. ghost'.parked[s.active] = s.queue
          /\ \A other \in Sources \ {s.active} : ghost'.parked[other] = ghost.parked[other]
      BY <1>3, <1>4, <2>2 DEF GhostTypes, GhostRec
    <3>4. \A other \in Sources \ {s.active} : other \in ghost'.lost <=> other \in ghost.lost
      BY <1>3, <1>4, <2>2
    <3>5. ghost'.lost = LostBy(s.active) BY <1>4, <2>2
    <3>6. \A src \in Sources : Parked(src)' BY <3>2, <3>3, <3>4, <3>5 DEF Saved, Parked
    <3> QED BY <1>1, <1>2, <1>3, <3>2, <3>5, <3>6 DEF StoreTypes, Saved
  <2> QED BY <2>1, <2>2
<1>7. Typed'
  BY <1>1, <1>2, <1>4, <1>5, <1>6 DEF SessionTypes, WriterTypes, AdoptTypes, GhostTypes
<1>8. Turns' BY <1>1, <1>2 DEF Turns
<1>9. Judges' BY <1>1, <1>2, <1>4, JudgesStay
<1> QED BY <1>1, <1>2, <1>5, <1>6, <1>7, <1>8, <1>9 DEF Outranked

LEMMA StaysKeep ==
    ASSUME SyncInv, StoreStays, SessionTypes', StoreTypes', WriterTypes', AdoptTypes', GhostTypes',
           Tries', Judges'
    PROVE  SyncInv'
BY StoreStaysSaved DEF SyncInv, Typed

LEMMA WriterTakesKeeps == ASSUME SyncInv, WriterTakes PROVE SyncInv' /\ Outranked
<1> USE DEF SyncInv, Typed
<1>1. UNCHANGED <<daemon, chosen, s, turn, saves, written, db, remote, adopt, events, ghost>>
      /\ jobs' = <<>> /\ writer.at = "idle" /\ jobs # <<>>
      /\ writer' = [at |-> IF Pushes = {} THEN "answer" ELSE "send",
                    push |-> IF Pushes = {} THEN None ELSE TakeNewest,
                    flush |-> Pushes # DOMAIN jobs]
  BY DEF WriterTakes
<1>2. Pushes' = {} BY <1>1 DEF Pushes
<1>3. daemon # "down" BY <1>1 DEF Tries
<1>4. WriterTypes' /\ Tries'
  <2>1. CASE Pushes = {}
    <3>1. writer' \in WriterRec /\ writer'.at = "answer" BY <1>1, <2>1 DEF WriterRec
    <3>2. ghost.tried = ghost.sent BY <1>1, <1>3, <2>1 DEF Tries
    <3> QED BY <1>1, <1>2, <1>3, <3>1, <3>2 DEF WriterTypes, Tries
  <2>2. CASE Pushes # {}
    <3>1. PICK i \in Pushes : Newest(i) /\ jobs[i].seq = ghost.sent BY <1>3, <2>2 DEF Tries
    <3>2. \A j \in Pushes : Newest(j) => j = i
      <4>1. Pushes \subseteq Nat BY DEF WriterTypes, Pushes
      <4> QED BY <3>1, <4>1 DEF Newest
    <3>3. i = (CHOOSE k \in Pushes : \A j \in Pushes : j <= k)
      BY <3>1, <3>2 DEF Newest
    <3>4. TakeNewest = jobs[i] BY <3>3 DEF TakeNewest
    <3>5. jobs[i] \in PushRec BY <3>1 DEF WriterTypes, Pushes, Flush
    <3>6. writer' \in WriterRec /\ writer'.at = "send" /\ writer'.push = jobs[i]
      BY <1>1, <2>2, <3>4, <3>5 DEF WriterRec
    <3>7. jobs[i].seq <= ghost.sent BY <3>1 DEF GhostTypes, GhostRec
    <3> QED BY <1>1, <1>2, <1>3, <3>1, <3>5, <3>6, <3>7 DEF WriterTypes, Tries
  <2> QED BY <2>1, <2>2
<1>5. SessionTypes' /\ StoreTypes' /\ AdoptTypes' /\ GhostTypes' /\ Judges'
  BY <1>1, JudgesStay DEF SessionTypes, StoreTypes, AdoptTypes, GhostTypes
<1>6. StoreStays BY <1>1 DEF StoreStays
<1> QED BY <1>1, <1>4, <1>5, <1>6, StaysKeep DEF Outranked

(* The writer's push is tried: its answer is an error, or it is to be        *)
(* recorded.                                                                 *)
LEMMA TriedKeeps ==
    ASSUME SyncInv, ServerTakes \/ PushFails PROVE SyncInv' /\ Outranked
<1> USE DEF SyncInv, Typed
<1>1. UNCHANGED <<daemon, chosen, s, turn, saves, written, db, jobs, adopt>>
      /\ writer.at = "send" /\ writer.push \in PushRec
  BY DEF ServerTakes, PushFails, WriterTypes
<1>2. ghost' = [ghost EXCEPT !.tried = writer.push.seq]
  BY DEF ServerTakes, PushFails, ServerHolds
<1>3. /\ ghost' \in GhostRec /\ ghost'.tried = writer.push.seq /\ ghost'.sent = ghost.sent
      /\ ghost'.parked = ghost.parked /\ ghost'.lost = ghost.lost /\ ghost'.touched = ghost.touched
  BY <1>1, <1>2 DEF GhostTypes, GhostRec, PushRec
<1>4. remote' \in [Sources -> Queues]
  <2>1. remote' = [remote EXCEPT ![writer.push.to] = writer.push.queue] \/ remote' = remote
    BY DEF ServerTakes, PushFails, ServerHolds
  <2> QED BY <1>1, <2>1 DEF WriterTypes, PushRec
<1>5. writer' \in WriterRec /\ writer'.push = writer.push /\ writer'.at \in {"record", "answer"}
  BY DEF ServerTakes, PushFails, WriterTypes, WriterRec
<1>6. events' \in Nat
  <2>1. events' = events \/ events' = events + 1 BY DEF ServerTakes, PushFails, Happens
  <2> QED BY <2>1 DEF StoreTypes
<1>7. Tries'
  <2>1. daemon # "down" BY <1>1 DEF Tries
  <2> QED BY <1>1, <1>3, <1>5, <2>1 DEF Tries, Newest, Pushes, GhostTypes, GhostRec, PushRec
<1>8. SessionTypes' /\ StoreTypes' /\ WriterTypes' /\ AdoptTypes' /\ GhostTypes' /\ Judges'
  BY <1>1, <1>3, <1>4, <1>5, <1>6, JudgesStay
     DEF SessionTypes, StoreTypes, WriterTypes, AdoptTypes, GhostTypes
<1>9. StoreStays BY <1>1, <1>3 DEF StoreStays
<1> QED BY <1>1, <1>7, <1>8, <1>9, StaysKeep DEF Outranked

LEMMA RecordKeeps == ASSUME SyncInv, Record PROVE SyncInv' /\ Outranked
<1> USE DEF SyncInv, Typed
<1>1. UNCHANGED <<daemon, chosen, s, turn, saves, written, db, jobs, remote, adopt, events, ghost>>
      /\ writer.at = "record" /\ writer' = [writer EXCEPT !.at = "answer"]
  BY DEF Record
<1>2. writer' \in WriterRec /\ writer'.at = "answer" BY <1>1 DEF WriterTypes, WriterRec
<1>3. Tries' BY <1>1, <1>2 DEF Tries, Newest, Pushes
<1>4. SessionTypes' /\ StoreTypes' /\ WriterTypes' /\ AdoptTypes' /\ GhostTypes' /\ Judges'
  BY <1>1, <1>2, JudgesStay
     DEF SessionTypes, StoreTypes, WriterTypes, AdoptTypes, GhostTypes
<1>5. StoreStays BY <1>1 DEF StoreStays
<1> QED BY <1>1, <1>3, <1>4, <1>5, StaysKeep DEF Outranked

-----------------------------------------------------------------------------
(* The task that adopts.                                                     *)
LEMMA AdoptSteps ==
    ASSUME SyncInv, Ask \/ Fetch \/ Judge PROVE SyncInv' /\ Outranked
<1> USE DEF SyncInv, Typed
<1>1. UNCHANGED <<daemon, chosen, s, turn, saves, written, db, jobs, writer, remote, events>>
  BY DEF Ask, Fetch, Judge
<1>2. /\ ghost' \in GhostRec /\ ghost'.tried = ghost.tried /\ ghost'.sent = ghost.sent
      /\ ghost'.parked = ghost.parked /\ ghost'.lost = ghost.lost
  BY DEF Ask, Fetch, Judge, GhostTypes, GhostRec
<1>3. AdoptTypes' /\ Judges' /\ Outranked
  <2>1. CASE Ask
    <3>1. adopt' = [adopt EXCEPT !.at = "fetch", !.rev = s.rev] /\ s.rev \in Nat
          /\ adopt.at = "ask"
      BY <2>1 DEF Ask, SessionTypes, SessionRec
    <3>2. ghost'.touched = FALSE BY <2>1 DEF Ask, GhostTypes, GhostRec
    <3>3. adopt' \in AdoptRec /\ adopt'.at = "fetch" /\ adopt'.rev = s.rev /\ adopt'.src = adopt.src
      BY <3>1 DEF AdoptTypes, AdoptRec
    <3> QED BY <1>1, <3>1, <3>2, <3>3 DEF AdoptTypes, Judges, Outranked
  <2>2. CASE Fetch
    <3>1. adopt' = [adopt EXCEPT !.at = "judge", !.got = remote[adopt.src]]
          /\ adopt.at = "fetch" /\ ghost' = ghost
      BY <2>2 DEF Fetch
    <3>2. remote[adopt.src] \in Queues BY <3>1 DEF WriterTypes, AdoptTypes
    <3> QED BY <1>1, <3>1, <3>2 DEF AdoptTypes, AdoptRec, Judges, Outranked
  <2>3. CASE Judge
    <3>1. adopt' = [adopt EXCEPT !.at = "tell"] \/ adopt' = NoAdopt BY <2>3 DEF Judge
    <3>2. NoAdopt \in AdoptRec BY EmptyIsQueue DEF NoAdopt, AdoptRec
    <3>3. adopt.at = "judge" /\ ghost' = ghost BY <2>3 DEF Judge
    <3> QED BY <1>1, <3>1, <3>2, <3>3 DEF AdoptTypes, AdoptRec, NoAdopt, Judges, Outranked
  <2> QED BY <2>1, <2>2, <2>3
<1>4. SessionTypes' /\ StoreTypes' /\ WriterTypes' /\ GhostTypes' /\ Tries'
  BY <1>1, <1>2, TriesStay DEF SessionTypes, StoreTypes, WriterTypes, GhostTypes
<1>5. StoreStays BY <1>1, <1>2 DEF StoreStays
<1> QED BY <1>3, <1>4, <1>5, StaysKeep

LEMMA AdoptKeeps == ASSUME SyncInv, AdoptQueue PROVE SyncInv' /\ Outranked
<1> USE DEF SyncInv, Typed
<1>1. UNCHANGED <<daemon, chosen, turn, saves, written, db, jobs, writer, remote, events, ghost>>
      /\ adopt' = NoAdopt /\ adopt.at = "tell"
  BY DEF AdoptQueue
<1>2. NoAdopt \in AdoptRec /\ NoAdopt.at = "none" BY EmptyIsQueue DEF NoAdopt, AdoptRec
<1>3. AdoptTypes' /\ Judges' BY <1>1, <1>2 DEF AdoptTypes, Judges
<1>4. StoreTypes' /\ WriterTypes' /\ GhostTypes' /\ Tries'
  BY <1>1, TriesStay DEF StoreTypes, WriterTypes, GhostTypes
<1>5. CASE ~Adoptable
  <2>1. s' = s BY <1>5 DEF AdoptQueue
  <2> QED BY <1>1, <1>3, <1>4, <2>1, StoreStaysSaved DEF StoreStays, SessionTypes, Outranked
<1>6. CASE Adoptable
  <2>1. s' = [Restored(s, adopt.got) EXCEPT !.dirty = TRUE] BY <1>6 DEF AdoptQueue
  <2>2. adopt.got \in Queues /\ s \in SessionRec BY DEF AdoptTypes, AdoptRec, SessionTypes
  <2>3. /\ s' \in SessionRec /\ s'.active = s.active /\ s'.dirty = TRUE
        /\ (s'.unread => s.unread)
    <3> DEFINE new == Restored(s, adopt.got)
    <3>1. /\ new \in SessionRec /\ new.active = s.active
          /\ new.unread = (s.unread /\ adopt.got = Empty)
      BY <2>2, RestoredTypes
    <3> HIDE DEF new
    <3>2. s' = [new EXCEPT !.dirty = TRUE] BY <2>1 DEF new
    <3> QED BY <3>1, <3>2 DEF SessionRec
  <2>4. Saved' /\ Turns' BY <1>1, <2>3, DirtySaved
  <2>5. ~ghost.touched BY <1>1, <1>6 DEF Judges, Adoptable, SessionTypes, SessionRec
  <2> QED BY <1>1, <1>3, <1>4, <2>3, <2>4, <2>5 DEF SessionTypes, Outranked
<1> QED BY <1>5, <1>6

-----------------------------------------------------------------------------
(* The listener.                                                             *)
LEMMA EditKeeps == ASSUME SyncInv, Edit PROVE SyncInv' /\ Outranked
<1> USE DEF SyncInv, Typed
<1>1. UNCHANGED <<daemon, chosen, turn, saves, written, db, jobs, writer, remote, adopt>>
      /\ daemon = "up"
  BY DEF Edit, Up
<1>2. PICK held \in {q \in QueuesOf(s.active) : q.secs = 0} \ {s.queue}, playing \in BOOLEAN :
        s' = [s EXCEPT !.queue = held, !.playing = playing /\ held # Empty, !.rev = @ + 1,
                       !.dirty = TRUE, !.unread = @ /\ held = Empty]
  BY DEF Edit
<1>3. held \in Queues /\ s \in SessionRec
  BY QueuesOfAreQueues DEF SessionTypes, SessionRec
<1>4. /\ s' \in SessionRec /\ s'.active = s.active /\ s'.dirty = TRUE /\ s'.rev = s.rev + 1
      /\ (s'.unread => s.unread)
  <2>2. s.rev + 1 \in Nat BY <1>3 DEF SessionRec
  <2>3. (playing /\ held # Empty) \in BOOLEAN /\ (s.unread /\ held = Empty) \in BOOLEAN
    OBVIOUS
  <2>4. PICK on \in BOOLEAN, unread \in BOOLEAN, rev \in Nat :
          on = (playing /\ held # Empty) /\ unread = (s.unread /\ held = Empty) /\ rev = s.rev + 1
    BY <2>2, <2>3
  <2>5. s' = [s EXCEPT !.queue = held, !.playing = on, !.rev = rev, !.dirty = TRUE,
                       !.unread = unread]
    BY <1>2, <2>4
  <2>6. unread => s.unread BY <2>4
  <2>7. /\ s' \in SessionRec /\ s'.active = s.active /\ s'.dirty = TRUE /\ s'.rev = rev
        /\ s'.unread = unread
    BY <1>3, <2>5 DEF SessionRec
  <2> QED BY <2>4, <2>6, <2>7
<1>5. ghost' = [ghost EXCEPT !.touched = TRUE] BY DEF Edit
<1>6. /\ ghost' \in GhostRec /\ ghost'.tried = ghost.tried /\ ghost'.sent = ghost.sent
      /\ ghost'.parked = ghost.parked /\ ghost'.lost = ghost.lost
  BY <1>5 DEF GhostTypes, GhostRec
<1>7. events' \in Nat BY DEF Edit, Happens, StoreTypes
<1>8. Saved' /\ Turns' BY <1>1, <1>4, <1>6, DirtySaved
<1>9. Judges' BY <1>1, <1>4 DEF Judges, AdoptTypes, AdoptRec, SessionTypes, SessionRec
<1>10. Tries' BY <1>1, <1>6, TriesStay
<1>11. Typed'
  BY <1>1, <1>4, <1>6, <1>7 DEF SessionTypes, StoreTypes, WriterTypes, AdoptTypes, GhostTypes
<1> QED BY <1>1, <1>8, <1>9, <1>10, <1>11 DEF Outranked

LEMMA SkipKeeps == ASSUME SyncInv, Skip PROVE SyncInv' /\ Outranked
<1> USE DEF SyncInv, Typed
<1>1. UNCHANGED <<daemon, chosen, turn, saves, written, db, jobs, writer, remote, adopt>>
  BY DEF Skip
<1>2. PICK current \in 0 .. MaxPlace, playing \in BOOLEAN, pressed \in BOOLEAN :
        /\ s' = [s EXCEPT !.queue.current = current, !.queue.secs = 0, !.playing = playing,
                          !.dirty = TRUE]
        /\ ghost' = [ghost EXCEPT !.skipped = @ \/ pressed]
  BY DEF Skip
<1>3. s \in SessionRec /\ [s.queue EXCEPT !.current = current, !.secs = 0] \in Queues
  <2>1. 0 \in 0 .. MaxSecs BY QueueSyncBounds
  <2>2. s \in SessionRec BY DEF SessionTypes
  <2>3. s.queue \in Queues BY <2>2 DEF SessionRec
  <2> QED BY <2>1, <2>2, <2>3 DEF Queues
<1>4. /\ s' \in SessionRec /\ s'.active = s.active /\ s'.dirty = TRUE /\ s'.rev = s.rev
      /\ s'.unread = s.unread
  <2> DEFINE held == [s.queue EXCEPT !.current = current, !.secs = 0]
  <2>1. held \in Queues BY <1>3
  <2>2. s' = [s EXCEPT !.queue = held, !.playing = playing, !.dirty = TRUE]
    BY <1>2, <1>3 DEF SessionRec
  <2> HIDE DEF held
  <2> QED BY <1>2, <1>3, <2>1, <2>2 DEF SessionRec
<1>5. events' \in Nat BY DEF Skip, Happens, StoreTypes
<1>6. /\ ghost' \in GhostRec /\ ghost'.tried = ghost.tried /\ ghost'.sent = ghost.sent
      /\ ghost'.parked = ghost.parked /\ ghost'.lost = ghost.lost
      /\ ghost'.touched = ghost.touched
  BY <1>2 DEF GhostTypes, GhostRec
<1>7. Saved' /\ Turns' BY <1>1, <1>4, <1>6, DirtySaved
<1>8. Judges' /\ Tries' BY <1>1, <1>4, <1>6, TriesStay, JudgesStay
<1>9. Typed'
  BY <1>1, <1>4, <1>5, <1>6 DEF SessionTypes, StoreTypes, WriterTypes, AdoptTypes, GhostTypes
<1> QED BY <1>1, <1>7, <1>8, <1>9 DEF Outranked

LEMMA ListenKeeps == ASSUME SyncInv, Listen PROVE SyncInv' /\ Outranked
<1> USE DEF SyncInv, Typed
<1>1. UNCHANGED <<daemon, chosen, turn, saves, written, db, jobs, writer, remote, adopt, ghost>>
  BY DEF Listen
<1>2. PICK playing \in BOOLEAN, secs \in 0 .. MaxSecs :
        s' = [s EXCEPT !.queue.secs = secs, !.playing = playing, !.dirty = TRUE]
  BY DEF Listen
<1>3. s \in SessionRec /\ [s.queue EXCEPT !.secs = secs] \in Queues
  BY DEF SessionTypes, SessionRec, Queues
<1>4. /\ s' \in SessionRec /\ s'.active = s.active /\ s'.dirty = TRUE /\ s'.rev = s.rev
      /\ s'.unread = s.unread
  BY <1>2, <1>3 DEF SessionRec
<1>5. events' \in Nat BY DEF Listen, Happens, StoreTypes
<1>6. Saved' /\ Turns' BY <1>1, <1>4, DirtySaved
<1>7. Judges' /\ Tries' BY <1>1, <1>4, TriesStay, JudgesStay
<1>8. Typed'
  BY <1>1, <1>4, <1>5 DEF SessionTypes, StoreTypes, WriterTypes, AdoptTypes, GhostTypes
<1> QED BY <1>1, <1>6, <1>7, <1>8 DEF Outranked

LEMMA SwitchKeeps == ASSUME SyncInv, Switch PROVE SyncInv' /\ Outranked
<1> USE DEF SyncInv, Typed
<1>1. UNCHANGED <<daemon, s, saves, written, db, jobs, writer, remote, adopt, ghost>>
      /\ daemon = "up" /\ turn = None
  BY DEF Switch, Up
<1>2. PICK to \in Sources \ (gone \cup {chosen}), removed \in BOOLEAN :
        /\ chosen' = to /\ turn' = [to |-> to, removed |-> removed]
        /\ Happens(IF removed THEN "remove" ELSE "switch")
  BY DEF Switch
<1>3. turn' \in TurnRec /\ turn'.to = chosen' BY <1>2 DEF TurnRec
<1>4. turn' # None BY <1>3, NoneIsApart DEF TurnRec
<1>5. Turns' BY <1>1, <1>2, <1>3, <1>4 DEF Turns
<1>6. Saved' BY <1>1 DEF Saved, Parked, WrittenIsStored
<1>7. Judges' /\ Tries' BY <1>1, TriesStay, JudgesStay
<1>8. events' \in Nat BY <1>2 DEF Happens, StoreTypes
<1>9. Typed'
  BY <1>1, <1>2, <1>3, <1>8 DEF SessionTypes, StoreTypes, WriterTypes, AdoptTypes, GhostTypes
<1> QED BY <1>1, <1>5, <1>6, <1>7, <1>9 DEF Outranked

LEMMA SetActiveKeeps == ASSUME SyncInv, SetActiveSource PROVE SyncInv' /\ Outranked
<1> USE DEF SyncInv, Typed
<1>1. UNCHANGED <<daemon, chosen, turn, saves, written, db, jobs, writer, remote, adopt, events,
                  ghost>>
      /\ s' = [s EXCEPT !.server = turn.to] /\ turn \in TurnRec
  BY DEF SetActiveSource, SessionTypes
<1>2. /\ s' \in SessionRec /\ s'.active = s.active /\ s'.queue = s.queue /\ s'.dirty = s.dirty
      /\ s'.unread = s.unread /\ s'.rev = s.rev
  BY <1>1 DEF SessionTypes, SessionRec, TurnRec
<1>3. StoreStays BY <1>1, <1>2 DEF StoreStays
<1>4. Judges' /\ Tries' BY <1>1, <1>2, TriesStay, JudgesStay
<1>5. SessionTypes' /\ StoreTypes' /\ WriterTypes' /\ AdoptTypes' /\ GhostTypes'
  BY <1>1, <1>2 DEF SessionTypes, StoreTypes, WriterTypes, AdoptTypes, GhostTypes
<1> QED BY <1>1, <1>2, <1>3, <1>4, <1>5, StaysKeep DEF Outranked

LEMMA DeviceKeeps == ASSUME SyncInv, OtherDevice PROVE SyncInv' /\ Outranked
<1> USE DEF SyncInv, Typed
<1>1. UNCHANGED <<daemon, chosen, s, turn, saves, written, db, jobs, writer, adopt, ghost>>
  BY DEF OtherDevice
<1>2. remote' \in [Sources -> Queues]
  BY QueuesOfAreQueues DEF OtherDevice, WriterTypes
<1>3. events' \in Nat BY DEF OtherDevice, Happens, StoreTypes
<1>4. StoreStays BY <1>1 DEF StoreStays
<1>5. Judges' /\ Tries' BY <1>1, TriesStay, JudgesStay
<1>6. SessionTypes' /\ StoreTypes' /\ WriterTypes' /\ AdoptTypes' /\ GhostTypes'
  BY <1>1, <1>2, <1>3 DEF SessionTypes, StoreTypes, WriterTypes, AdoptTypes, GhostTypes
<1> QED BY <1>1, <1>4, <1>5, <1>6, StaysKeep DEF Outranked

-----------------------------------------------------------------------------
(* The second command of a switch leaves one queue where it is to be found,  *)
(* or forgets it with its source, and resumes the other.                     *)
LEMMA SetSourcesKeeps == ASSUME SyncInv, SetSources PROVE SyncInv' /\ Outranked
<1> USE DEF SyncInv, Typed
<1>1. /\ UNCHANGED <<daemon, chosen, saves, jobs, writer, remote, adopt>>
      /\ daemon = "up" /\ turn # None /\ saves = <<>> /\ turn' = None
  BY DEF SetSources, Up
<1>2. /\ turn \in TurnRec /\ turn.to = chosen /\ chosen # s.active /\ chosen \in Sources
      /\ s.active \in Sources /\ s.queue \in Queues /\ s \in SessionRec
  BY <1>1 DEF SessionTypes, SessionRec, Turns
<1>0. PICK old \in Sources : old = s.active BY <1>2
<1>3. /\ LostBy(old) = ghost.lost \ {old} \/ LostBy(old) = ghost.lost \cup {old}
  BY <1>0 DEF LostBy
<1>4. /\ db' \in [Sources -> Queues] /\ written' \in WrittenRec \cup {None} /\ events' \in Nat
      /\ ghost' \in GhostRec /\ ghost'.sent = ghost.sent /\ ghost'.tried = ghost.tried
      /\ ghost'.touched = TRUE
      /\ WrittenIsStored' /\ Parked(old)'
      /\ \A src \in Sources \ {old} :
            /\ db'[src] = db[src] /\ ghost'.parked[src] = ghost.parked[src]
            /\ (src \in ghost'.lost <=> src \in ghost.lost)
  <2>1. CASE turn.removed
    <3>1. /\ db' = [db EXCEPT ![old] = Empty]
          /\ written' = IF written # None /\ written.src = old THEN None ELSE written
          /\ UNCHANGED events
          /\ ghost' = [ghost EXCEPT !.parked = [@ EXCEPT ![old] = Empty],
                                    !.lost = @ \ {old}, !.touched = TRUE]
      BY <1>0, <2>1 DEF SetSources
    <3>2. [ghost.parked EXCEPT ![old] = Empty] \in [Sources -> Queues]
      BY <1>0, EmptyIsQueue DEF GhostTypes, GhostRec
    <3>3. /\ ghost' \in GhostRec /\ ghost'.sent = ghost.sent /\ ghost'.tried = ghost.tried
          /\ ghost'.touched = TRUE /\ ghost'.lost = ghost.lost \ {old}
          /\ ghost'.parked = [ghost.parked EXCEPT ![old] = Empty]
      BY <3>1, <3>2 DEF GhostTypes, GhostRec
    <3>4. ghost.parked \in [Sources -> Queues] BY DEF GhostTypes, GhostRec
    <3>5. WrittenIsStored'
      BY <3>1 DEF StoreTypes, WrittenRec, Saved, WrittenIsStored
    <3>6. Parked(old)' BY <3>1, <3>3, <3>4 DEF StoreTypes, Parked
    <3>7. written' \in WrittenRec \cup {None} /\ events' \in Nat /\ db' \in [Sources -> Queues]
      BY <3>1, EmptyIsQueue DEF StoreTypes
    <3>8. \A src \in Sources \ {old} :
             /\ db'[src] = db[src] /\ ghost'.parked[src] = ghost.parked[src]
             /\ (src \in ghost'.lost <=> src \in ghost.lost)
      BY <3>1, <3>3, <3>4 DEF StoreTypes
    <3> QED BY <3>3, <3>5, <3>6, <3>7, <3>8
  <2>2. CASE ~turn.removed /\ s.unread
    <3>1. UNCHANGED <<db, written, events>> /\ ghost' = [ghost EXCEPT !.touched = TRUE]
      BY <2>2 DEF SetSources
    <3>2. /\ ghost' \in GhostRec /\ ghost'.sent = ghost.sent /\ ghost'.tried = ghost.tried
          /\ ghost'.touched = TRUE /\ ghost'.lost = ghost.lost /\ ghost'.parked = ghost.parked
      BY <3>1 DEF GhostTypes, GhostRec
    <3>3. Parked(old)' BY <1>0, <2>2, <3>1, <3>2 DEF Saved, Parked
    <3>4. StoreTypes /\ WrittenIsStored' BY <3>1 DEF Saved, WrittenIsStored
    <3> QED BY <3>1, <3>2, <3>3, <3>4 DEF StoreTypes
  <2>3. CASE ~turn.removed /\ ~s.unread
    <3>1. /\ Save(old, s.queue)
          /\ ghost' = [ghost EXCEPT !.parked = [@ EXCEPT ![old] = s.queue],
                                    !.lost = LostBy(old), !.touched = TRUE]
      BY <1>0, <2>3 DEF SetSources
    <3>2. /\ [ghost.parked EXCEPT ![old] = s.queue] \in [Sources -> Queues]
          /\ LostBy(old) \in SUBSET Sources
      BY <1>0, <1>2, <1>3 DEF GhostTypes, GhostRec
    <3>3. /\ ghost' \in GhostRec /\ ghost'.sent = ghost.sent /\ ghost'.tried = ghost.tried
          /\ ghost'.touched = TRUE /\ ghost'.lost = LostBy(old)
          /\ ghost'.parked = [ghost.parked EXCEPT ![old] = s.queue]
      BY <3>1, <3>2 DEF GhostTypes, GhostRec
    <3>4. ghost.parked \in [Sources -> Queues] BY DEF GhostTypes, GhostRec
    <3>5. /\ db' \in [Sources -> Queues] /\ written' \in WrittenRec \cup {None}
          /\ events' \in Nat /\ WrittenIsStored'
          /\ \A other \in Sources \ {old} : db'[other] = db[other]
          /\ old \in LostBy(old) \/ db'[old] = s.queue
      BY <1>0, <1>2, <3>1, SaveStores DEF Saved
    <3>6. Parked(old)' BY <3>3, <3>4, <3>5 DEF Parked
    <3>7. \A src \in Sources \ {old} :
             /\ db'[src] = db[src] /\ ghost'.parked[src] = ghost.parked[src]
             /\ (src \in ghost'.lost <=> src \in ghost.lost)
      BY <1>3, <3>3, <3>4, <3>5
    <3> QED BY <3>3, <3>5, <3>6, <3>7
  <2> QED BY <2>1, <2>2, <2>3
<1>5. PICK read \in BOOLEAN :
        s' = [Restored(s, IF read THEN db'[turn.to] ELSE Empty) EXCEPT
                 !.active = turn.to, !.unread = ~read]
  BY DEF SetSources
<1>6. /\ s' \in SessionRec /\ s'.active = chosen /\ s'.dirty = FALSE /\ s'.rev = s.rev + 1
      /\ s'.unread = ~read /\ (read => s'.queue = db'[chosen])
  <2> DEFINE new == Restored(s, IF read THEN db'[chosen] ELSE Empty)
  <2>1. (IF read THEN db'[chosen] ELSE Empty) \in Queues BY <1>2, <1>4, EmptyIsQueue
  <2>2. /\ new \in SessionRec /\ new.dirty = FALSE /\ new.rev = s.rev + 1
        /\ (read => new.queue = db'[chosen])
    BY <1>2, <2>1, RestoredTypes
  <2>3. s' = [new EXCEPT !.active = chosen, !.unread = ~read] BY <1>2, <1>5
  <2>4. (~read) \in BOOLEAN OBVIOUS
  <2> HIDE DEF new
  <2> QED BY <1>2, <2>2, <2>3, <2>4 DEF SessionRec
<1>7. \A src \in Sources : Parked(src)'
  <2>1. \A src \in Sources \ {old} : Parked(src)' BY <1>0, <1>4 DEF Saved, Parked
  <2> QED BY <1>4, <2>1
<1>8. Saved'
  <2>1. saves' = <<>> /\ Len(saves') = 0 /\ daemon' = "up" BY <1>1
  <2>2. Parked(s.active)' BY <1>2, <1>6, <1>7
  <2>3. ~s'.unread => db'[s'.active] = s'.queue BY <1>6
  <2>4. WrittenIsStored' BY <1>4
  <2>5. \A src \in Sources : src # s'.active => Parked(src)' BY <1>7
  <2> QED BY <2>1, <2>2, <2>3, <2>4, <2>5 DEF Saved
<1>9. Turns' BY <1>1, <1>6 DEF Turns
<1>10. Judges' BY <1>1, <1>2, <1>4, <1>6 DEF Judges, AdoptTypes, AdoptRec, SessionRec
<1>11. Tries' BY <1>1, <1>4, TriesStay
<1>12. Typed'
  BY <1>1, <1>4, <1>6 DEF SessionTypes, StoreTypes, WriterTypes, AdoptTypes, GhostTypes
<1> QED BY <1>1, <1>8, <1>9, <1>10, <1>11, <1>12 DEF Outranked

-----------------------------------------------------------------------------
(* The process ends, with every queue where it was left, and starts again.   *)
LEMMA IdleTypes == Idle \in WriterRec /\ Idle.at = "idle" /\ NoAdopt \in AdoptRec /\ NoAdopt.at = "none"
BY EmptyIsQueue DEF Idle, WriterRec, NoAdopt, AdoptRec

LEMMA EndsKeeps ==
    ASSUME SyncInv, NEW parked, Ends(parked), events' \in Nat,
           \/ daemon # "up" /\ parked = ghost.parked
           \/ parked = [ghost.parked EXCEPT ![s.active] = db[s.active]]
    PROVE  SyncInv' /\ Outranked
<1> USE DEF SyncInv, Typed
<1>1. /\ UNCHANGED <<chosen, s, db>> /\ daemon' = "down" /\ turn' = None /\ saves' = <<>>
      /\ written' = None /\ jobs' = <<>> /\ writer' = Idle /\ adopt' = NoAdopt
      /\ ghost' = [ghost EXCEPT !.parked = parked]
  BY DEF Ends
<1>2. s.active \in Sources /\ db[s.active] \in Queues /\ ghost.parked \in [Sources -> Queues]
  BY DEF SessionTypes, SessionRec, StoreTypes, GhostTypes, GhostRec
<1>3. /\ ghost' \in GhostRec /\ ghost'.tried = ghost.tried /\ ghost'.sent = ghost.sent
      /\ ghost'.lost = ghost.lost /\ ghost'.parked = parked
  <2>1. parked \in [Sources -> Queues] BY <1>2
  <2> QED BY <1>1, <2>1 DEF GhostTypes, GhostRec
<1>4. remote' \in [Sources -> Queues]
  <2>1. \/ UNCHANGED remote
        \/ /\ writer.at = "send"
           /\ remote' = [remote EXCEPT ![writer.push.to] = writer.push.queue]
    BY DEF Ends
  <2> QED BY <2>1 DEF WriterTypes, PushRec
<1>5. \A src \in Sources : Parked(src)'
  <2>1. CASE daemon # "up" /\ parked = ghost.parked BY <1>1, <1>3, <2>1 DEF Saved, Parked
  <2>2. CASE parked = [ghost.parked EXCEPT ![s.active] = db[s.active]]
    <3>1. \A src \in Sources : parked[src] = IF src = s.active THEN db[src] ELSE ghost.parked[src]
      BY <1>2, <2>2
    <3> QED BY <1>1, <1>3, <3>1 DEF Saved, Parked
  <2> QED BY <2>1, <2>2
<1>6. Saved'
  <2>1. Len(saves') = 0 /\ Parked(s.active)' BY <1>1, <1>2, <1>5
  <2> QED BY <1>1, <1>5, <2>1 DEF Saved, WrittenIsStored
<1>7. Turns' /\ Judges' BY <1>1, IdleTypes DEF Turns, Judges
<1>8. Tries' BY <1>1, <1>3, IdleTypes DEF Tries
<1>9. Typed'
  BY <1>1, <1>3, <1>4, IdleTypes DEF SessionTypes, StoreTypes, WriterTypes, AdoptTypes, GhostTypes
<1> QED BY <1>1, <1>6, <1>7, <1>8, <1>9 DEF Outranked

LEMMA AnswerKeeps == ASSUME SyncInv, Answer PROVE SyncInv' /\ Outranked
<1> USE DEF SyncInv, Typed
<1>1. writer.at = "answer" /\ events' = events BY DEF Answer
<1>2. CASE writer.flush /\ daemon = "flushing"
  <2>1. Ends(ghost.parked) BY <1>2 DEF Answer
  <2> QED BY <1>1, <1>2, <2>1, EndsKeeps DEF StoreTypes
<1>3. CASE ~(writer.flush /\ daemon = "flushing")
  <2>1. /\ UNCHANGED <<daemon, chosen, s, turn, saves, written, db, jobs, remote, adopt, ghost>>
        /\ writer' = Idle
    BY <1>3 DEF Answer
  <2>2. Tries' BY <1>1, <2>1, IdleTypes DEF Tries, Newest, Pushes
  <2>3. Judges' BY <2>1, JudgesStay
  <2>4. SessionTypes' /\ StoreTypes' /\ WriterTypes' /\ AdoptTypes' /\ GhostTypes'
    BY <1>1, <2>1, IdleTypes DEF SessionTypes, StoreTypes, WriterTypes, AdoptTypes, GhostTypes
  <2>5. StoreStays BY <2>1 DEF StoreStays
  <2> QED BY <2>1, <2>2, <2>3, <2>4, <2>5, StaysKeep DEF Outranked
<1> QED BY <1>2, <1>3

LEMMA CrashKeeps == ASSUME SyncInv, FlushTimesOut \/ Crash PROVE SyncInv' /\ Outranked
<1>1. events' \in Nat
  <2>1. events' = events \/ events' = events + 1 BY DEF FlushTimesOut, Crash, Happens
  <2> QED BY <2>1 DEF SyncInv, Typed, StoreTypes
<1>2. CASE FlushTimesOut BY <1>1, <1>2, EndsKeeps DEF FlushTimesOut
<1>3. CASE Crash /\ Up BY <1>1, <1>3, EndsKeeps DEF Crash
<1>4. CASE Crash /\ ~Up BY <1>1, <1>4, EndsKeeps DEF Crash, Up
<1> QED BY <1>2, <1>3, <1>4

LEMMA BootKeeps == ASSUME SyncInv, Boot PROVE SyncInv' /\ Outranked
<1> USE DEF SyncInv, Typed
<1>1. /\ UNCHANGED <<chosen, turn, saves, written, db, jobs, writer, remote, events>>
      /\ daemon = "down" /\ daemon' = "up"
      /\ adopt' = [NoAdopt EXCEPT !.at = "ask", !.src = chosen]
      /\ ghost' = [ghost EXCEPT !.sent = 0, !.tried = 0]
  BY DEF Boot
<1>2. chosen \in Sources /\ db[chosen] \in Queues BY DEF SessionTypes, StoreTypes
<1>3. PICK read \in BOOLEAN :
        s' = [Booted(chosen, IF read THEN db[chosen] ELSE Empty) EXCEPT !.unread = ~read]
  BY DEF Boot
<1>4. /\ s' \in SessionRec /\ s'.active = chosen /\ s'.dirty = FALSE
      /\ s'.unread = ~read /\ (read => s'.queue = db[chosen])
  <2> DEFINE new == Booted(chosen, IF read THEN db[chosen] ELSE Empty)
  <2>1. (IF read THEN db[chosen] ELSE Empty) \in Queues BY <1>2, EmptyIsQueue
  <2>2. /\ new \in SessionRec /\ new.dirty = FALSE /\ new.active = chosen
        /\ (read => new.queue = db[chosen])
    BY <1>2, <2>1, BootedTypes
  <2>3. s' = [new EXCEPT !.unread = ~read] BY <1>3
  <2>4. (~read) \in BOOLEAN OBVIOUS
  <2> HIDE DEF new
  <2> QED BY <1>2, <2>2, <2>3, <2>4 DEF SessionRec
<1>5. /\ ghost' \in GhostRec /\ ghost'.tried = 0 /\ ghost'.sent = 0
      /\ ghost'.lost = ghost.lost /\ ghost'.parked = ghost.parked
  BY <1>1 DEF GhostTypes, GhostRec
<1>6. adopt' \in AdoptRec /\ adopt'.at = "ask" /\ adopt'.src = chosen
  BY <1>1, <1>2, IdleTypes, EmptyIsQueue DEF NoAdopt, AdoptRec
<1>7. saves = <<>> /\ turn = None /\ jobs = <<>> /\ writer.at = "idle"
  BY <1>1 DEF Saved, Turns, Tries
<1>8. \A src \in Sources : Parked(src)'
  <2>1. \A src \in Sources : Parked(src) BY <1>1 DEF Saved
  <2> QED BY <1>1, <1>5, <2>1 DEF Parked
<1>9. Saved'
  <2>1. Len(saves') = 0 /\ Parked(s.active)' BY <1>1, <1>2, <1>4, <1>7, <1>8
  <2>2. ~s'.unread => db'[s'.active] = s'.queue BY <1>1, <1>4
  <2> QED BY <1>1, <1>7, <1>8, <2>1, <2>2 DEF Saved, WrittenIsStored
<1>10. Turns' BY <1>1, <1>4, <1>7 DEF Turns
<1>11. Judges' BY <1>6 DEF Judges
<1>12. Tries' BY <1>1, <1>5, <1>7 DEF Tries, Pushes
<1>13. Typed'
  BY <1>1, <1>2, <1>4, <1>5, <1>6
     DEF SessionTypes, StoreTypes, WriterTypes, AdoptTypes, GhostTypes
<1>14. Outranked
  <2>1. adopt'.at # "none" BY <1>6
  <2> QED BY <2>1 DEF Outranked
<1> QED BY <1>9, <1>10, <1>11, <1>12, <1>13, <1>14

LEMMA InitKeeps == SyncInit => SyncInv
<1> SUFFICES ASSUME SyncInit PROVE SyncInv OBVIOUS
<1>1. chosen \in Sources BY DEF SyncInit
<1>2. /\ s \in SessionRec /\ s.active = chosen /\ s.queue = Empty
  BY <1>1, EmptyIsQueue, BootedTypes DEF SyncInit
<1>3. [src \in Sources |-> Empty] \in [Sources -> Queues] BY EmptyIsQueue
<1>4. /\ ghost \in GhostRec /\ ghost.parked = [src \in Sources |-> Empty]
      /\ ghost.sent = 0 /\ ghost.tried = 0
  BY <1>3 DEF SyncInit, GhostRec
<1>5. adopt \in AdoptRec /\ adopt.at = "ask" /\ adopt.src = chosen
  BY <1>1, EmptyIsQueue DEF SyncInit, NoAdopt, AdoptRec
<1>6. Typed
  BY <1>1, <1>2, <1>3, <1>4, <1>5, IdleTypes
     DEF SyncInit, Typed, SessionTypes, StoreTypes, WriterTypes, AdoptTypes, GhostTypes
<1>7. Saved
  <2>1. db = [src \in Sources |-> Empty] /\ saves = <<>> /\ written = None BY DEF SyncInit
  <2>2. \A src \in Sources : Parked(src) BY <1>4, <2>1 DEF Parked
  <2>3. Len(saves) = 0 BY <2>1
  <2> QED BY <1>1, <1>2, <2>1, <2>2, <2>3 DEF Saved, WrittenIsStored
<1>8. Turns BY <1>2 DEF SyncInit, Turns
<1>9. Tries BY <1>4, IdleTypes DEF SyncInit, Tries, Pushes
<1>10. Judges BY <1>5 DEF Judges
<1> QED BY <1>6, <1>7, <1>8, <1>9, <1>10 DEF SyncInv

LEMMA StutterKeeps == ASSUME SyncInv, UNCHANGED syncVars PROVE SyncInv' /\ Outranked
<1> USE DEF syncVars, SyncInv, Typed
<1>1. StoreStays BY DEF StoreStays
<1>2. Tries' /\ Judges' BY TriesStay, JudgesStay
<1>3. SessionTypes' /\ StoreTypes' /\ WriterTypes' /\ AdoptTypes' /\ GhostTypes'
  BY DEF SessionTypes, StoreTypes, WriterTypes, AdoptTypes, GhostTypes
<1> QED BY <1>1, <1>2, <1>3, StaysKeep DEF Outranked

LEMMA StepKeeps == SyncInv /\ [SyncNext]_syncVars => SyncInv' /\ Outranked
BY SaveNextKeeps, TickKeeps, PersistKeeps, WriterTakesKeeps, TriedKeeps, RecordKeeps, AnswerKeeps,
   AdoptSteps, AdoptKeeps, EditKeeps, SkipKeeps, ListenKeeps, SwitchKeeps, SetActiveKeeps, SetSourcesKeeps,
   DeviceKeeps, CrashKeeps, BootKeeps, StutterKeeps
   DEF SyncNext

(* Each source's queue is in the database as it was left, and the active     *)
(* one's once nothing is left to save, unless its last save failed or what   *)
(* is stored could not be read (session/mod.rs: a quit never loses the       *)
(* debounce window; persistence.rs, DbQueueStore::save).                     *)
THEOREM QueuesStayWhereLeft == SyncSpec => []QueuesAreKept
<1>1. ASSUME SyncInv PROVE QueuesAreKept
  <2>1. s.active \in Sources BY <1>1 DEF SyncInv, Typed, SessionTypes, SessionRec
  <2>2. \A src \in Sources \ ghost.lost :
          daemon = "down" \/ src # s.active => db[src] = ghost.parked[src]
    BY <1>1, <2>1 DEF SyncInv, Saved, Parked
  <2>3. s.active \notin ghost.lost /\ daemon # "down" /\ ~s.dirty /\ saves = <<>> /\ ~s.unread
        => db[s.active] = s.queue
    BY <1>1 DEF SyncInv, Saved
  <2> QED BY <2>2, <2>3 DEF QueuesAreKept
<1>2. SyncInv /\ [SyncNext]_syncVars => SyncInv' BY StepKeeps
<1>3. SyncInv => QueuesAreKept BY <1>1
<1> QED BY <1>2, <1>3, InitKeeps, PTL DEF SyncSpec

(* The one writer has tried the newest push whenever it rests, and never a   *)
(* push that has not been made (session/mod.rs, write_remote_queue).         *)
THEOREM TheNewestPushIsTried == SyncSpec => []NewestPushIsTried
<1>1. ASSUME SyncInv PROVE NewestPushIsTried
  <2>1. jobs = <<>> => Pushes = {} BY DEF Pushes
  <2> QED BY <1>1, <2>1 DEF SyncInv, Tries, NewestPushIsTried
<1>2. SyncInv /\ [SyncNext]_syncVars => SyncInv' BY StepKeeps
<1>3. SyncInv => NewestPushIsTried BY <1>1
<1> QED BY <1>2, <1>3, InitKeeps, PTL DEF SyncSpec

(* An edit, a replacement or a switch while the server answers wins over the  *)
(* answer (persistence.rs; session/mod.rs, SessionCmd::AdoptQueue), however   *)
(* many tracks are skipped, queues saved and pushed, and starts made between. *)
THEOREM EditsOutrank == SyncSpec => EditsOutrankAdoption
<1>1. SyncInv /\ [SyncNext]_syncVars => SyncInv' BY StepKeeps
<1>2. SyncInv /\ [SyncNext]_syncVars =>
        (adopt.at = "tell" /\ adopt'.at = "none" /\ ghost.touched => s'.queue = s.queue)
  BY StepKeeps DEF Outranked
<1> QED BY <1>1, <1>2, InitKeeps, PTL DEF SyncSpec, EditsOutrankAdoption

=============================================================================

# Kopuz: a TLA+ model of the daemon's core

Kopuz is a music player. A daemon owns the library, the queue and the audio
device; front ends talk to it over gRPC and hold no state of their own. This
directory models the parts of the daemon in which being wrong is easy and
testing is hard: what is heard (queue, session, engine, streams), what is kept
(the queue of each source, the offline cache), and what is agreed with servers
(favorites, scrobbles, the remote queue, scheduled syncs).

## 1. The system

| Component | Source | State | Operations | Talks to |
|---|---|---|---|---|
| Play queue | `daemon/core/src/queue_model.rs` | tracks, current position, history, shuffle permutation, loop mode | edits, next and previous, shuffle, restore | called by the session |
| Playback session | `daemon/core/src/session/{mod,load,reconciler,state}.rs` | queue, intent, pending transition, load task, phase | client commands, results of its load task, engine events, one at a time in one tokio task | engine by a command channel, an event channel and a lock-free status |
| Playback engine | `daemon/player/src/engine/*.rs` | current, fading, queued and pending sessions; rings; the callback's slots | load, seek, pause, stop, device errors, tick | workers by an inbox, the callback by two bounded channels |
| Stream sources | `daemon/server/src/stream/{range_source,stream_buffer}.rs` | bytes, chunks had, flags, one demand, failures | download or fill, read, seek, hand the whole file to the cache | decode worker, offline cache |
| Queue persistence, remote queue | `persistence.rs`, `session/mod.rs`, `sources.rs` | snapshot last written, queue and mark per source, pushes on the channel | save, restore, push, adopt, switch | database, servers |
| Favorites | `favorites/*.rs`, `server/src/sync.rs` | dirty rows, flight lock, shared outcome | toggle, push, import, sweep | source, database |
| Jobs, scheduled sync | `jobs.rs`, `auto_sync.rs` | job registry; deadline, what it is armed for, stamps | start, cancel, end, forget; check, arm, re-arm | settings, sources, every service with jobs |
| Scrobbling | `scrobbler.rs`, `scrobble/src/queue.rs` | retry rows, one task per listen, drains | submit, enqueue, drain, trim | services, database |
| Offline cache | `offline_cache.rs` | index, table, files, writer lock, fills | store, evict, forget, take, load | database, files, streams |
| Radio feed | `session/radio_feed.rs` | cursor, spent cursors, a fetch, "play on" | ask for a page, take it in | session commands |
| Session recovery | `recovery.rs` | epoch, last answer | one repair for all who saw a sign-in expire | sources |
| Settings | `config_service.rs`, `shared/config` | layers, locks, revision | read, edit, reload | files, session |
| Sources, library, playlists, downloads, artwork, integrations, boot, database, decoding, reader, radio directory, clients | see `PROJECT.json` | mostly tables and files | I/O and mapping | |

`PROJECT.json` lists every component with its status, and every hazard of the
code at its line with the properties that watch it.

What makes each modelled part correct:

* **Queue.** Whatever is edited, the pointer is on the playing track, the
  shuffle permutation is one, history follows its tracks, and next/previous mean
  what the listener sees.
* **Engine.** What the actor believes is playing is what the callback plays,
  although the callback moves on by itself and reports later; messages of
  workers that were let go change nothing; the ring count is exact, because the
  actor sleeps by it; everything ends: loads, fades, tracks, deferred rebuilds.
* **Session.** Intent, transition, load task and queue pointer change together,
  against an engine two channels away that acts on its own.
* **Streams.** A read brings the file's own bytes or says why not, no reader
  waits for ever, and the cache is handed a whole file or none.
* **Queue of a source.** It is stored as it was left; the listener's edits win
  over what a server answers; the server is sent the newest queue of its own.
* **Favorites.** No import ends what is still pending; an undisturbed one leaves
  what the remote holds; who takes another run's outcome gets one that is new
  enough.
* **Jobs and schedule.** One job of a kind at a time; what is due comes back.
* **Scrobbles.** A listen is not forgotten; a service that is down holds up
  nobody else's rows.
* **Offline cache.** Table and index name the same songs, and once everybody is
  done the cap holds.

## 2. Modules

| Module | Models | Extends |
|---|---|---|
| `QueueModel` | the operations of `QueueModel` as operators on a queue record | community modules |
| `PlayQueue` | the queue under the session's queue handlers | `QueueModel` |
| `Engine` | actor, workers and callback of the engine | |
| `EngineContract` | what the engine promises its client, one atomic step per command or event | |
| `Playback` | the session, its load task and both channels to an `EngineContract` engine | `QueueModel`, `EngineContract` |
| `ByteSource` | the abstract source of bytes a decoder and the cache rely on | |
| `RangeSource`, `StreamBuffer` | the seekable and the progressive source, each shown to implement `ByteSource` | instance of `ByteSource` |
| `QueueSync` | the session's queue of each source, its saves, the remote writer, adoption | |
| `Favorites` | toggles, pushes and imports over the favorites table | |
| `Schedule` | the scheduler's loop over the job registry | |
| `Scrobble` | listens, the retry queue and its drains | |
| `OfflineCache` | stores, evictions and forgettings over index, table and directory | community modules |
| `QueueTheorems` | lemmas: what each operation of `QueueModel` does to a queue | `QueueModel`, `TLAPS` |
| `PlayQueueTheorems` | proofs about the queue: under its handlers, and where it is kept | `PlayQueue`, `QueueSync`, `QueueTheorems` |
| `EngineTheorems`, `PlaybackTheorems` | proofs | the module they are named after, `TLAPS` |
| `CommittedTheorems` | proofs: the session's commitment against the engine, the queue's pointer | `PlaybackTheorems` |
| `JobsTheorems` | proofs about the background jobs | `Favorites`, `Schedule`, `TLAPS` |
| `PlayedTheorems` | proofs about what a played song leaves behind | `Scrobble`, `OfflineCache`, `TLAPS` |
| `StreamSourcesTheorems` | proofs about both streams | `StreamBuffer`, `TLAPS`; an instance of `RangeSource` |
| `MC...` | constants, symmetry and views for TLC | |

Definitions whose comment starts with "Mutant" are not part of the model: each
is the code with a plausible bug in it, and shows that the property it belongs
to can fail. Operators keep the names of the Rust functions where they can.

### QueueModel and PlayQueue

A queue is a record `[items, current, history, shuffle, order, loop]`. An
operator that involves randomness (`rebuild_shuffle_order`, `shuffle_from`)
yields the *set* of queues the code could produce; the others yield one.
`current` and `history` hold play positions, which are physical indices unless
shuffling. `PlayQueue` has one action for each queue request of the API with the
bounds checks of its handler; `playable` stands for the track filter the session
builds from the connected sources and the explicit-content setting. Tracks
handed in are distinct and new, so that a track identifies its entry. `op` names
the last operation, for the step properties only.

### Engine

* *Actor.* `pc` is where its loop stands: it receives (`recv`), handles one
  message (the actions of `Handle`), then ticks: a deferred rebuild, reaping
  what the callback shipped back, latching a drained track. `Timeout` is
  `recv_timeout`, disabled when `is_idle` lets it block on `recv`.
* *Workers.* One per load: probing, decoding into a ring, parked at the end of
  file, gone. A ring is named by token and seek epoch. A worker that was let go
  can still send the message it was about to send, which is what the token and
  epoch guards are for.
* *Callback.* `RtDrain` applies one command; `RtRead` reads one block. They are
  separate because the actor can be scheduled in between.
* *Audio* is counted in blocks. End of file and ring contents are separate
  because in the code they are: the flag is set by the actor, the samples are
  the worker's.
* *Client.* It cancels before it loads and sends the load when its source is
  ready, as `start_load` and `handle_prepared_load` do.

Not in it: volume, EQ, gain, positions, stall reports, the graveyard of joined
threads, device selection, shutdown. `HoldPaused` is the setting that pauses
when the device changes; `Live` are sources that cannot seek.

### EngineContract and Playback

`EngineContract` is the engine without workers, rings and callback. Its
operators take an engine record and give the engine after the step, the events
and the answer to a load. `Moves` are the steps it takes on its own. `Engine`
implements it: under `Contract` (what the actor's sessions amount to) every step
of `Engine` is a command, one of the moves, the reload that a live source needs
(`Reloads`), or nothing the client sees, with the same events; the run `engine`
checks it as the action property `KeepsContract`. Answers to loads are the one
part left out of that comparison, because `Engine` keeps no reply channel
(`LoadAnswered` is about them). `Playback` composes it with the session: `s` is the
session actor's state, a handler is an operator on it, and `s.out` collects the
commands it sends, in order. `mail` and `events` are the session's two inputs;
any that is non-empty may be handled next, as in the `select!` of `run`. A
handler that reads the engine's status reads `engine` as it is *now*, ahead of
the events still queued: this is what the code's lock-free status gives, and the
source of most of its races. `near` stands for the position test of
`should_arm_transition`.

Three ghosts say where the two sides have come apart, and the properties that
except it name them. `s.raced` is set for good when the session undoes something
the engine may already have acted on (reverts a transition whose load was sent,
stops a stale session while a load is under way, resumes into a session it did
not intend, inserts with a transition armed, seeks a track back to life), or when
the engine fails with a load or its answer under way: `PointerFollows` and
`CommittedIsLive` claim nothing from there on. `s.forsaken` holds the single
loads whose answer nobody waits for in the right place any more (that of a
transition Play took the intent from, one that went with the output, one that a
Stop for a stale session overtook): `LoadSettles` excepts these loads only, and
stays stated after a race. `pending.amid` holds whether Play or Insert was given
in the course of the transition that is armed: `TransitionIsIntended` excepts
such a Play, `TargetFollowed` such an Insert. `TypeOK` and `GaplessIsNext` are
stated for all. Where a comment of the code promises more than is left, that
promise is a property with a run that refutes it: `TargetRemapped`,
`CancellationIsOwned` (section 3).

Every command and queue edit that moves the queue or the transport is there. An
edit that waits for the library (Insert, ReplaceUpcoming, SetQueue) is one step
with its handler, because the session handles nothing else meanwhile; that wait
running out is not modelled. Left out: radio, integrations, offline mode, resume
points, the versions of a track, and what clients are shown beyond the phase.

### ByteSource, RangeSource, StreamBuffer

The byte at position *i* of a file is the number *i*. `ByteSource` answers a
read with bytes from the reader's position on, with an error, or with nothing at
the end, and gives its sink the whole file or nothing; its fairness says that a
read is answered. `Source == INSTANCE ByteSource WITH ...` in both
implementations maps their threads' state to it: a sink is *wanted* when a
capture is asked for, *owed* once nothing can keep the file from it, and
*given*.

`RangeSource` has one action per critical section of the one mutex: the fill
thread's choice of a chunk (a demand first), the fetch outside the lock, its
result, the retry pause, the hand-over; the reader's request and each look at
the chunk it needs. `StreamBuffer` has the download task by what it waits for
(`download`) and the reader by the wait it is in (`stage`); redirects are hops,
and the body can be whole, cut, gone (nobody reads any more) or over the cap.

### QueueSync

Each source has a queue in the database, one on its server and a fingerprint
(`print`) of what the server last accepted. A queue is its rows, the place of
the current track and the seconds into it. `s` is the session: its queue,
whether it is dirty, `loaded`, `rev`. `Edit` changes rows and bumps `rev`; `Skip`
(Next, Previous, the automatic advance) moves the place and does not, as
`publish` is called there with `queue_changed = false`. `saves` are the spawned saves one after
the other, `written` is the cache of what was last written, and `writer` the
remote writer task with the push it tries. `adopt` is the start's task: ask,
fetch, judge, tell. A switch of source is `Switch`, then the two commands
`SetActiveSource` and `SetSources`, which other handlers can get between.
Database writes, loads and pushes fail; a failed push may have been taken.
`Crash` keeps the database and the servers; `Boot` starts over. `ghost` holds
what properties compare with: what each source was left with (`parked`), the
sources whose rows a failure has cost (`lost`), the numbers of pushes sent and
tried, and whether the listener edited the queue or skipped in it while the
server was asked.

### Favorites

A row of the table is its dirty mark (a pending like, a pending unlike, clean,
none); `remote` is the server's set. `toggle` is a client call between its
optimistic write, the request and the accept or revert; `caller` a task in
`sync`; `work` the run that holds the flight lock, with a program counter for
each `await`: push of each dirty row, the fetch, the replacement (sources that
list) or the pages and the sweep (sources that page). Other devices change the
remote, the listener switches the active source, the daemon crashes. `calm` and
`imports` are ghosts: whether anything but this sync has touched what it works
on, and the imports that went through.

### Schedule

`check` is the one task: it begins a check, plans which kinds are due, starts
them, then waits with a deadline and with `armed`, what that deadline was
computed for. `entries` is the registry with the finished jobs it retains,
`tasks` the spawned tasks, which a cancelled job outlives. `Tick` is time: it
ages the stamps and the deadline.

### Scrobble

`flow[l]` is the task of the listen at time `l` (commit, submit to each service
in turn, queue where it failed), `queue` the set of rows `<<listen, service>>`,
`drain[d]` a drain: it reads credentials and rows once and works through them,
skipping services it has given up. `owed` is the ghost of `NothingForgotten`:
rows a service has neither taken nor refused, and that no cap, failed write or
crash has cost.

### OfflineCache

`rows` is the table, `kept` and `older` the index and its order of last use,
`files` the directory, `writer` the lock. A task is whatever runs on its own: a
capture of the playing stream, the prefetch (a newer one aborts it: `Dies`), an
eviction, a forgetting, a download that takes a copy over. Row and index are
written in two steps under the lock; victims are chosen without it. The ghosts
`torn` and `short` are the songs an abort left between the two, and that an
abort cut an eviction off.

## 3. Runs

Every property of a passing run has a mutant that breaks it under the same
configuration. Three runs (`queues`, `tables`, `streams`) check two models at once,
which share no variable: `part` says which of them moves in a behaviour, the other
stays at its beginning, so that the states are those of the one and those of the
other, never their product.

| Run | Question | Bounds and why they are enough |
|---|---|---|
| `queues` | Do the queue's invariants survive every sequence of operations? Is every source's queue kept, and its server's too? | The queue: 3 tracks of which one explicit, queue of 3, history of 2. Three entries distinguish before, at and after the pointer; positions in history may be stale. The run is exhaustive for any number of operations. The tracks that are not explicit are interchangeable, and the view drops `op`. Where it is kept: 2 sources, queues empty or `x`, at place 0 or 1 (so that a skip moves it), at second 0 or 1, and any 3 of eleven kinds of disturbance: an edit, a skip or a switch or crash while a push, a save or an answer is under way. |
| `engine` | Do actor and callback agree under every interleaving? | 2 loads, the second a live stream, up to 5 commands and device events, one block of track, ring and fade: enough for a load of every transition followed by a takeover, a cancel, a seek and a device loss in any order. The view drops `events`, which properties read only as the output of a step. |
| `engine_live` | Does everything end? | 2 loads of fade or gapless kind and 4 commands, with lost devices and fades of two blocks. |
| `playback` | Do session and engine agree although they hear of each other late? | 2 tracks, one streamed; a third that nobody can provide can be added; 3 listener commands or faults, 3 loads, 2 queued events before the engine acts by itself. Crossfade and gapless. A load of its own, the transition out of it and what a listener then asks for are three loads. In mid-transition every command can be given, Play and Insert among them; before one, those that set the stage for it. |
| `tables` | Do toggles, syncs, other devices, switches and crashes leave the right favorites? Do table, index and cap survive overlapping stores and evictions? | Favorites: One source that lists and one that pages, 1 track (rows are independent but for the sweep, which the two kinds of source cover), 1 toggler, 2 callers with 2 calls, 2 disturbances. A caller that waits, one that runs and a toggle between their steps are three actors at once. Offline cache: 2 songs of sizes 1 and 2, caps 1 (one of them fits) and 3 (both do), 2 tasks, 1 disturbance (restart, failure, lost file). |
| `schedule` | Does single flight hold, and does what is due come back? | 2 kinds, a server and the local library, interval 2, 1 retained job, 4 job ids, 2 changes by people or settings. |
| `streams` | Does the seekable source serve its file to a decoder and the cache? Does the progressive source serve its body, and do its waits end? | Seekable: 5 bytes in chunks of 2, the last one short; reads of up to 3, which span two chunks; 2 failures before the background gives up, any number in all. Progressive: 4 bytes, prebuffer 2, read-ahead 2, caps 3 (exceeded) and 4 (reached), 1 redirect, reads of up to 2. |
| `scrobble` | Is a listen delivered, or still somewhere? | 3 listens with a cap of 2, so that the cap trims; 2 services, one of which may fail for ever; 2 drains; 2 disturbances. |

Some runs refute something the code says of itself. Each checks the claim by
itself, on the smallest instance that reaches it, and expects TLC to find it
violated:

| Run | The claim | What TLC finds |
|---|---|---|
| `playback_insert` | `TargetRemapped`: structural edits remap the armed position (`mod.rs:751`) | Insert does not: after the fade the queue points at another track than the one that plays. |
| `playback_output` | `CancellationIsOwned`: a cancelled load is owned by the command that cancelled it (`load.rs:466`) | No command owns the load that goes with a lost output, whose reply closes: Loading for ever. |
| `queue_sync_own` | `PushesOwnQueue`: entering a source is no edit of its queue (`tests.rs:4087`) | A persist tick between the two commands of a switch pushes the queue of the old source to the new one's server. |
| `queue_sync_skip` | `SkipsOutrankAdoption`: anything done to the queue while the server answers wins (`persistence.rs:160`) | A skip leaves `queue_rev` alone: the server's queue replaces the track skipped to. |

The findings in `PROJECT.json` quote the lines and tell the stories.

Deadlock is not checked in the engine, playback, scrobble and stream runs, nor in
the runs that refute a claim about playback: with the bounds used up, everything
idle is where they are meant to stop. In `tables` the favorites may rest by a step
of the run's own; the offline cache may not. `queues` and `schedule` check it.

### Refinement

`ServesTheFile` is `ByteSource`'s whole specification, fairness included, under
the mapping of `RangeSource`. `ServesTheBody` is its safety part under that of
`StreamBuffer`: that source's client has no timeout, so that a read may wait for
a server that went silent; `WaitsEnd` says what holds instead, namely that every
wait ends once the download has. The abstract source lets a body be *cut*:
`StreamBuffer` tells the decoder of a body that broke off as of one that ended.

### Fairness

* `engine_live`: weak fairness of the actor handling its inbox, its timeout and
  its tick, of the callback, of the debounce timer, and of each worker's probe,
  decoding and end of file. Threads are scheduled, `recv_timeout` returns, the
  audio backend calls the callback while a stream is open, and a source answers
  or its read fails. The client is not fair (it need not press anything) and
  `WorkerFails` is not (a source need not fail). `TrackEnds` excepts the
  stranded state of section 5, which is exactly where it does not hold.
* `schedule`: the loop (`Drive`), time, and each kind's jobs, which assumes that
  a job ends. People and settings are not fair. `SyncsComeBack` excepts the
  stranded loop of section 5, and nothing else.
* `streams`, seekable: the fill thread (its requests have a timeout), its retry pause
  and the reader's looks. The reader need not read.
* `streams`, progressive: the download task where it does not wait for the server, and
  the reader's polls.
* `scrobble`: each drain and the next listen. Services outside `Dead` fail a
  bounded number of times.

## 4. Proofs

`tlapm` proves the following for every value of the constants; the assumptions
on constants are the named `ASSUME`s of the modules, which TLC evaluates in the
runs.

`PlayQueueTheorems` proves every property that the run `queues` checks of it, for
any tracks and any lengths: `QueueTypeCorrect` (`Spec => []TypeOK`),
`ShuffleCovers`, `NextIsNearest` (`NextIsNearestPlayable`), `PreviousUndoes`,
`EditsKeep` (`EditsKeepPlaying`), `EditsRemember` (`EditsKeepHistory`),
`AdditionsKeep` (`AdditionsKeepOrder`) and `UpcomingEdits`
(`UpcomingEditsSparePast`). The invariant `Inv` is that the queue is a
`GoodQueue`: typed, with a permutation of its own length while it shuffles
(`Sound`), and the pointer below that length (`Pointing`); and that no track is
queued twice, which is what the model's inputs are restricted to and what makes
"the same track" mean the same entry. The work is in `QueueTheorems`, which says
of each operation what it does, whatever the queue:

* A filter, a truncation or a removal keeps places and closes the gaps: the rank
  of a place among those kept is where it ends up, and every rank is that of one
  place (`RankIs`, `RankIsOnto`, `AtPlacesIs`). `RankIsOnto` is a count, not an
  induction: an injection into a set of the same size is onto.
* An operation on the play order is then one relation between the tracks at the
  old and at the new positions (`Inserted`, `Truncated`, `TailShuffled`,
  `EntryMoved`, `EntryRemoved`), the same whether the queue shuffles or not; from
  it follows that the pointer is still on its track (`InsertedKeepsPointer`,
  `TruncatedKeepsPointer`, `ShuffledTailKeepsPointer`, `MovedKeepsPointer`,
  `RemovedKeepsPointer`), and that the history, shifted, remapped or closed up by
  the same code, stands for the tracks it stood for, without those that left
  (`HistoryFollows`, and a `...KeepsTrack` lemma for each edit).
* Filtering a play order after an addition gives back the order before it,
  because the rank of a place among the old ones is the place it had
  (`SplicedTogether`).
* The first element of a filtered sequence is the one at the least place
  (`FirstKept`), which is how far Next looks, once around (`OnceAround`).
* A permutation that is spliced, remapped or rearranged is one again, since it
  covers its length: as many entries as indices, each of them there
  (`PermutesIsOnto`, `CoversPermutes`). So `Repaired` is never asked for
  anything (`SoundQueue`), and its fold is in no proof.

`EngineTheorems` proves of the engine three properties and its types, assuming nothing of the
constants but their types. `StatusIsTruthful` (`Spec => []StatusTruthful`): the
session reads the engine's status without asking the actor; after every step it
is the status of the actor's sessions, pause and last token. The invariant is
inductive as it stands: a step of a client, a worker or the callback leaves the
actor's fields alone, and a handler or tick either publishes
(`PublishIsTruthful`) or leaves every field that the status is made of alone
(`StillIsTruthful`). `EngineTyped` (`TypeOK`), `RingsAreCounted`
(`RingsBalanced`) and `EndedIsHeard` (`EndedWasHeard`) share the invariant `Inv`:

* `Typed`: `TypeOK` and the types of the messages on the three channels.
* `Budgeted`: every message that may still seek, and a rebuild that was put off,
  was paid for by a command of its own (`Due`); without it nothing bounds the
  epochs, and the types of rings and of `want` are not kept.
* `Loads`: a load's token is in one place (inbox, preparing or pending), and its
  worker was never told to write; without it a second start would take a
  session's epoch back.
* `Sessions`: a session's epoch is the one its worker was last told to write.
* `Rings`: a ring is at one place of the callback or in one command to it, and
  none is newer than its worker's epoch; without it a swap could put a ring in
  two places, and its two retirements would be counted for one.
* `Balanced`: `outstanding` counts the commands with a ring, the rings the
  callback holds and the retirements of rings. Its proof rests on lemmas about
  what `Append`, `Tail` and concatenation do to a count (`CountAppend`,
  `CountTail`, `CountConcat`).
* `Eofs`: an Eof for a ring is the last word of a worker parked on its newest
  ring, or is about a ring that a seek has left behind.

`PlaybackTheorems` proves `SessionTyped` (`TypeOK`), `TransitionsAreIntended`
(`TransitionIsIntended`) and `LoadsSettle` (`LoadSettles`), all from one
invariant `Inv`; every command is allowed at any moment. `SessionTyped` alone
assumes that `"Play"` is not given in mid transition: the invariant does not
exclude that Play leaves behind a transition from no session (`from` 0), which
the runs show not to be reached (`playback` checks `TypeOK` with Play in mid
transition). None of the three properties is inductive. A load's second answer, if there could be
one, would fail a session already queued and leave its transition behind with
the intent Stopped; and that nothing waits for a load at rest says nothing of
where the load is before. `Good(s, mail)` adds:

* `OnePlace`, `Answered`: tokens are handed out once; every load under way is
  the task or one message of the mail, never both; one that is past its Loading
  stage has no answer under way.
* `Fresh`: the engine has heard of a load only once the session sent it, and
  every load is sent once, so that what the engine answers is about that load.
* `Somewhere`: the load that is waited for is with the task, in the mail, the
  last of its kind on the channel, or pending in the engine; in the last two
  with only commands behind it that leave it alone (pause, resume, seek), and
  its task there to take the answer; or it is forsaken.
* `Typed`, `Shaped`: types, and that what a transition leaves is a session.

The proof goes by what a handler does to `intent`, `pending`, `task`,
`nextToken` and the commands it sends: it keeps them (`KeepsGood`), ends the
transition (`EndsGood`), starts a load (`LoadsGood`), or takes in the answer to
one (`MailIsGood`, with `FirstMail` for what is known of the first message).
One lemma per handler says which; `SessionIsGood`, `TaskIsGood` and
`EngineIsGood` go through the actions. That a record is not the model's `None`
is an assumption on that constant (`NoneIsNothing`), which TLC evaluates.

It also proves `GaplessStaysNext` (`GaplessIsNext`), with no restriction on what
is pressed, and `TargetsFollow` (`TargetFollowed`), which excepts a transition in
whose course something was inserted, because `handle_queue_edit` does not remap
for it (`playback_insert`).
Both come from `FirmInv`: the queue is one that `QueueTheorems` speaks of, a
gapless target is the next position, and the entry at the armed position is the
one being loaded. A handler that leaves the queue alone keeps the transition or
ends it (`Keeps`, a `...Keeps` lemma for each); one that starts a load arms what
it reads from the queue there and then; an edit finds the armed entry again at
the position it remaps to (`StillThere`, with one lemma for each edit of the
queue: `DropKeeps`, `MoveKeeps`, `ShuffleKeeps`, ...), and ends in
`rearm_gapless`, which gives up a gapless target that is no longer next
(`RearmIsFirm`). The one assumption added is that the initial queue is a
sequence (`TracksAreListed`).

`CommittedTheorems` proves `CommittedStaysLive` (`CommittedIsLive`) from those
two invariants and a third, `LiveNow`. Every command is allowed at any moment;
Play and Insert in mid transition, of which the one moves the intent and the other
the queue without telling the engine, count as races from there on. It holds only
at rest, and the session never asks the engine what it plays; so `LiveNow` says for every moment
how far apart the two can be. It has a claim for each thing the session can be
waiting for, and each claim names what still lies between (`Claims`):

* committed with no transition, the engine is at that session or a seek on its
  way brings it back (`CommittedClaim`, `Rest`);
* while a transition's load is not answered, the engine's place follows from
  where the load is: with the task, on the channel, pending in the engine, or
  answered as failed, started, crossfaded or gapless in the mail (`LoadingClaim`);
* after its answer the transition fades in, or is lined up, or has taken over
  with its TrackSwitched still unheard (`PastClaim`, `Fade`, `Lined`);
* a load that outlived its transition still finds the session it left
  (`LateClaim`).

`Strange` says of a load the engine has not met that no event names it, `EndsStay`
that a session that ended stays so, `SeekOrder` that an aimed seek precedes the
load that would overtake it; `Orderly` that no session fades into itself. The
session's handlers are taken by the pieces `PlaybackTheorems` takes them by; a
step of the engine by what it takes from the channel (`Gives`), what it emits
(`Emits`) and whether it answers a load (`Answers`).

It then proves `PointerStays` (`PointerFollows`) from all three invariants, with one more, `Points`: the armed load is of the armed
entry's track, and the pointer is on the track of the session intended, or of
the one the transition leaves. A handler that leaves the queue alone stays in
the transition or falls back on the session before it (`RestsPoint`); a handler
that moves the pointer arms or loads what it moves to; an edit of the queue
leaves the pointer on its track (`Stands`, a `...Stands` lemma for each edit); a
transition that is committed puts the pointer on the armed entry, which is the
track of its load because `Followed` found the entry again. `LiveNow` is needed
for a load that fails: if it was asked for by a transition, that transition is
still there to be left (`FailedLeaves`), unless the session raced.

`StreamSourcesTheorems` proves the refinements' safety part
(`RangeSourceServes`: `Range!Spec => Range!ServesBytes`, the part of
`ServesTheFile` without fairness, under the assumption on its constants that
`RangeSource` states; `StreamBufferServes`: `Spec => ServesTheBody`). The first
needs that a chunk that is had holds the file's bytes (`HadIsRight`), that the
thread only completes with every chunk (`JobIsWhole`), and the arithmetic of
positions and chunks; the second what the flags mean: `done` without an error
says that the body is whole or was cut as long as anybody reads (`DoneMeans`),
and a sink is owed the whole body or nothing (`SinkMeans`).

Of `QueueSync`, `PlayQueueTheorems` proves `QueuesStayWhereLeft` (`Spec => []QueuesAreKept`),
`TheNewestPushIsTried` (`Spec => []NewestPushIsTried`) and `EditsOutrank`
(`Spec => EditsOutrankAdoption`) from one invariant: the saves on their way
are of the active source, the last of them holds the session's queue unless that
has changed since, and the sources at rest are in the database as they were left
(`Saved`); the two commands of a switch are about the source that was chosen
(`Turns`); the newest push is the last job of the writer, in its hand, or tried
(`Tries`); and an adoption judges by a revision older than the session's once the
queue was edited (`Judges`), however often it was skipped in as well.

`JobsTheorems` proves of the favorites service `OneSyncAtATime` (`Spec => []TypeOK`),
`SharedOutcomesAreFresh` (`Spec => JoinIsFresh`), `PendingMarksSurvive` (`Spec
=> PendingSurvives`) and `UndisturbedImportsAgree` (`Spec => ImportAgrees`). The
second goes by the count of runs: the lock is held by the run started last and
all before it have finished (`Turn`), so that once a run as late as the one a
caller joined has finished with an import, that import is newer than the call
(`Waits`). The third needs no invariant beyond shapes: each kind of import is
shown to skip the rows somebody has a claim on. The fourth follows a run through
its pages (`Quiet`): as long as nobody disturbs it, what it has stamped is on the
remote, and what is on the remote is still in its pages, in its hand, or stamped
and in the table; the sweep then removes exactly the rest.

Of the jobs it proves `JobsFlyAlone` (`ScheduleSpec => []SingleFlight`).
`SingleFlight` speaks of tasks, which no start looks at; the argument goes
through the registry: every task has a running entry of its own (`Registered`),
ids are never shared (`IdsDiffer`), no kind has two running entries
(`OneRunning`), and the retention of ended jobs forgets no running one
(`RetainedKeepsRunning`).

`PlayedTheorems` proves `NoListenForgotten` (`Spec => []NothingForgotten`). A
drain deletes the row it delivered a step later; in between that row must not be
owed (`Delivered`), and could only come to be by the listen being heard after
its row was about, which `HeardBefore` excludes.

Of the offline cache it proves `TableAndIndexAgree` (`CacheSpec => []IndexAgrees`).
`IndexAgrees` says nothing of the time in which the lock is held; the invariant
adds that a task holds it exactly from its row write to its index write
(`LockIsHeld`) and that row and index differ by its own songs in between
(`Halfway`).

Model-checked only:

* liveness, and the fairness part of `ServesTheFile` (out of the prover's reach);
* `CapHolds` of the offline cache: a sum over a set goes by induction over its
  input;
* `CallbackAgrees` of the engine: that the callback, once it has drained its
  commands, has what the actor takes it to have, is a simulation over the
  commands still pending;
* `KeepsContract` of the engine rests on `CallbackAgrees` (a takeover is only of
  a session the actor believes queued) and on the order of its inbox.

## 5. Known races and gaps

Found while modelling; the model has each of them. Those with a run that shows
them are named with that run; where another contradicts a comment of the
repository, the comment is named. A property that excepts one says so in its own.

Queue and engine:

* `QueueModel::replace` (`queue_model.rs:275`) keeps the history of the queue it
  replaces; with a shorter one its entries lie beyond the end.
* A gapless session takes over just before the actor's Unqueue reaches the
  callback (`actor.rs:812`, `rt.rs:93`): the next gapless load queues behind
  nothing and silence follows until the next start. `TrackEnds` excepts it.
* The live session's worker fails while a session is queued behind it
  (`actor.rs:561`): the queued one stays there and never plays.
* A device loss, or the outgoing worker's failure, ends a crossfade without
  `TrackSwitched` (`actor.rs:962`): the session learns nothing of the handover.

Session:

* `Insert` does not remap the armed position (`mod.rs:1226`): after the fade the
  queue points at another track: `playback_insert`.
* Play during a preload (`mod.rs:1759`) takes the intent back and leaves the
  transition armed without its load; when the track ends the session waits for a
  load nobody makes (`reconciler.rs:85`, which speaks of a preload that is only
  slow). One more way for `CancellationIsOwned` to fail.
* Seeking back into a finished queue starts the track in the engine, and the
  stale-session rule stops it at once.
* The playing track's worker fails: the phase stays Playing over silence.
* A load whose answer never comes because the output is gone is ignored
  (`load.rs:466`): the session stays in Loading: `playback_output`.
* `TrackSwitched` can be handled before the `LoadFinished` that says the load
  was queued: the transition commits while the intent still says Loading.
* A pause between the start of a fade and its answer reverts a transition the
  engine has already begun.
* The Stop of the stale-session rule also drops a load or seek that the session
  sent after the event it reacts to. Another way for `CancellationIsOwned` to fail.
* A track that ends during its own fade-in, and a device rebuild while a queued
  session is not yet known to the session, leave the two sides a track apart
  until the next start.
* When the track that fades in fails, `fail_load` leaves the transition behind
  with the intent Stopped; `TransitionIsIntended` allows exactly this state. A
  failed load of a local track leaves the prior track playing with the intent
  Stopped.
* `ReplaceUpcoming` and an insert wait for the library inside the session's
  handler; nothing else is handled meanwhile.
* Found by reading, not modelled: a radio queue that ran dry sets the feed's
  `resume`, and Stop does not clear it (`mod.rs:1808`, `radio_feed.rs:59`,
  `:120`): the page that lands then plays on. An autoplay answer already in the
  session's inbox when Stop aborts its task is likewise applied (`mod.rs:1641`).

Streams:

* A body that breaks off ends for the decoder like a whole one
  (`stream_buffer.rs:258`); it is not captured. The client has no timeout.
* A fill thread that cannot be spawned leaves the reads of a `RangeSource`
  waiting. An empty file is never handed to its sink. A stream dropped when its
  last byte is in may still be captured.

Remote queue:

* Between the two commands of a source switch a persist tick pushes the old
  source's queue to the new one's server: `queue_sync_own`.
* After a crash between a push and its mark, or a quit past the push timeout,
  the daemon's own push looks like another client's queue and is adopted; that
  is the same queue unless it was edited since, and then edits win.
* The mark of the last push is not keyed by source.
* Next, Previous and the automatic advance do not count as changes of the queue:
  the server's queue is adopted over what was skipped to while it answered:
  `queue_sync_skip`.

Favorites and schedule:

* A toggle's row is clean while and after it is pushed: an import that fetched the
  remote's list before drops it (`sync.rs:129`), although `sync.rs:3` reads as if
  it were kept; the next import brings it back. `ImportAgrees` is about imports
  that nothing crosses.
* A switch between the sync's reading of the active source and the import's
  (`favorites/mod.rs:273`, `pull.rs:68`) stamps one source for the import of
  another.
* Overlapping toggles of one track: the revert of a refused one undoes a later
  accepted one.
* After a check that was due the loop takes over its deadline but neither what
  it is armed for nor the changes that came meanwhile (`auto_sync.rs:214`),
  although `:186` says that it checks on every change. When a change to settings
  without a deadline is taken up that way and then taken back, nothing is synced
  until something changes again: `Stranded`, the exception of `SyncsComeBack`.
* With interval 0 a failed job is not tried again until something changes.

Scrobbling:

* Two drains, or a crash between a delivery and the deletion of its row, send a
  listen twice. Services take a listen by its time, so it is counted once.
* A row its service cannot answer (5xx every time) blocks that service's later
  rows.
* Rows queued under one account go to the account signed in next.
* A listen is lost by a failed write of its row, or a crash before it: the two
  exceptions of `owed`. No drain runs when offline mode ends.

Offline cache:

* An aborted prefetch can leave a stray file or a row without its entry
  (`torn`), or the cap passed until the next store (`short`). A restart mends
  the table.
* Victims are chosen before the lock is taken: a song played in between is
  evicted all the same.
* Files are deleted after the lock is released, and a newer copy of the same
  song may be the one deleted; `path()` heals the entry when it is next asked
  for.
* A download that takes a copy while the song is forgotten deletes the file it
  handed over. A source deleted during a capture leaves its song behind.

## 6. Not modelled, and the plan

Most of the repository's lines are front ends, HTTP clients, SQL and migrations,
signal processing, parsers and generated tables; the models cover the control of
the daemon's core, which is a small share of the whole. What is left there:

* `RadioFeed` with autoplay and stations (`radio_feed.rs`): a page that lands
  late; the next module to write, composed with the queue edits of `Playback`.
* In `Playback`: resume points, versions.
* Theorems: the cap of the offline cache; `CallbackAgrees`.
* `recovery.rs`: one mutex is held over the repair and the counter is read under
  it, so that its steps are sequential; its tests drive every path.
* `config_service.rs`: saved settings are published under the write guard, so
  that their order is the lock's; the layering of TOML documents is data.
* Source registry and sign-in, library, playlists, downloads: calls to a server
  and to SQLite one after the other; their control is in `Jobs` and in the
  session, which are modelled.

## 7. Checking

Each run is `tlc -config <cfg> <module>` with the module and cfg listed in
`PROJECT.json`; `tlapm <X>Theorems.tla` checks the proofs of a module.

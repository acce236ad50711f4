------------------------------ MODULE QueueSync ------------------------------
(***************************************************************************)
(* Where the queue is kept: the database's queue of each source            *)
(* (daemon/core/src/persistence.rs), the play queue a server keeps, and the  *)
(* session's handlers that write them (session/mod.rs): the persist tick, the *)
(* flush on quit, a switch of source, the adoption of the server's queue at  *)
(* start.                                                                  *)
(*                                                                         *)
(* Saves run in a task each, one after the other; the remote writer is one   *)
(* task fed by a channel; adoption is a task that asks the server and then   *)
(* commands the session.  A switch is two commands, the source object and    *)
(* then the settings.  Requests fail with or without having been taken,      *)
(* database writes fail, another device writes the server's queue, and the   *)
(* daemon dies anywhere.                                                   *)
(*                                                                         *)
(* A queue is its tracks in play order, the place of the current one and the  *)
(* second it stands at.  Every source here keeps a play queue and can name   *)
(* the other's tracks; offline mode, removable sources, origins, stations    *)
(* and the shuffle that a server cannot keep are left out.                   *)
(***************************************************************************)
EXTENDS Integers, Sequences

CONSTANTS
    Sources,
    Listings,      \* how a source's tracks can be queued
    MaxPlace,   \* bound: the current track's place
    MaxSecs,    \* bound: seconds into a track
    None,
    Events,     \* bound: what happens from outside, and how much of it
    MaxEvents

AllEvents == {"edit", "skip", "listen", "switch", "remove", "device", "save fails",
              "load fails", "push fails", "quit", "crash"}
ASSUME QueueSyncBounds ==
    /\ MaxPlace \in Nat /\ MaxSecs \in Nat /\ MaxEvents \in Nat
    /\ Events \subseteq AllEvents

Empty == [rows |-> <<>>, current |-> 0, secs |-> 0]
Rows == {<<>>} \cup (({<<src>> : src \in Sources}) \X Listings)
Queues == [rows : Rows, current : 0 .. MaxPlace, secs : 0 .. MaxSecs]
QueuesOf(src) ==
    {Empty} \cup [rows : {<<src>>} \X Listings, current : 0 .. MaxPlace, secs : 0 .. MaxSecs]
ASSUME NoneIsApart ==
    /\ None \notin [src : Sources, rows : Rows]
    /\ None \notin [to : Sources, removed : BOOLEAN]
    /\ None \notin [to : Sources, src : Sources, queue : Queues,
                    mark : [rows : Rows, current : 0 .. MaxPlace, playing : BOOLEAN], seq : Nat]

VARIABLES
    daemon,   \* "up", "flushing" (waiting for the writer on quit), "down"
    chosen,   \* the active source, as the settings on disk say
    gone,     \* sources that were removed
    s,        \* the session: `active` (of its settings), `server` (the source
              \* object), queue, playing, rev, dirty, unread, loaded
    turn,     \* the commands of a switch still in the session's inbox
    saves,    \* the chain of save tasks
    written,  \* DbQueueStore::written: source and rows of the last full save
    db,       \* each source's stored queue
    jobs,     \* the remote writer's channel
    writer,   \* the remote writer
    synced,   \* the mark of the last push that was taken
    remote,   \* each server's queue
    print,    \* fingerprint of what its server last accepted, per source
    adopt,    \* the task that adopts the server's queue
    events,   \* outside events so far
    ghost     \* ours: what the properties compare with (see below)

syncVars == <<daemon, chosen, gone, s, turn, saves, written, db, jobs, writer, synced,
          remote, print, adopt, events, ghost>>

(* ghost: `parked`, the queue each source was left with; `lost`, the sources  *)
(* whose last save failed; `sent` and `tried`, pushes handed to the writer    *)
(* and the newest it has tried; `touched`, the queue was edited or replaced   *)
(* since adoption began; `skipped`, another of its tracks was chosen since.   *)

Session(src, queue) ==
    [active |-> src, server |-> src, queue |-> queue, playing |-> FALSE, rev |-> 0,
     dirty |-> FALSE, unread |-> FALSE, loaded |-> None]

Mark(sess) ==
    [rows |-> sess.queue.rows, current |-> sess.queue.current, playing |-> sess.playing]
Loaded(sess) == [mark |-> Mark(sess), secs |-> sess.queue.secs]

\* handle_restore: stopped, with what was read, owed to nobody.
Restored(sess, queue) ==
    LET new == [sess EXCEPT !.queue = queue, !.playing = FALSE, !.rev = @ + 1, !.dirty = FALSE,
                            !.unread = @ /\ queue = Empty]
    IN  [new EXCEPT !.loaded = Loaded(new)]

NoAdopt == [at |-> "none", src |-> None, rev |-> 0, got |-> Empty]
Idle == [at |-> "idle", push |-> None, flush |-> FALSE]
Booted(src, queue) ==
    LET new == Session(src, queue) IN [new EXCEPT !.loaded = Loaded(new)]

SyncInit ==
    /\ daemon = "up"
    /\ chosen \in Sources
    /\ gone = {}
    /\ db = [src \in Sources |-> Empty]
    /\ s = Booted(chosen, Empty)
    /\ turn = None
    /\ saves = <<>>
    /\ written = None
    /\ jobs = <<>>
    /\ writer = Idle
    /\ synced = None
    /\ remote = [src \in Sources |-> Empty]
    /\ print = [src \in Sources |-> None]
    /\ adopt = [NoAdopt EXCEPT !.at = "ask", !.src = chosen]
    /\ events = 0
    /\ ghost = [parked |-> [src \in Sources |-> Empty], lost |-> {}, sent |-> 0, tried |-> 0,
                touched |-> FALSE, skipped |-> FALSE]

Happens(event) == event \in Events /\ events < MaxEvents /\ events' = events + 1
Up == daemon = "up"

\* A job of the writer is a push, or a flush.
Flush == None

-----------------------------------------------------------------------------
(* The database.                                                             *)

\* Mutant: the rows are taken for those written when their source is.
MovedSource(src, queue) == written # None /\ written.src = src
OnlyMoved(src, queue) == written = [src |-> src, rows |-> queue.rows]

\* DbQueueStore::save, under its lock: only where it stands when the rows are those
\* last written.  Gives db, written and lost after it.
Save(src, queue) ==
    \/ /\ db' = [db EXCEPT ![src] = IF OnlyMoved(src, queue)
                                    THEN [queue EXCEPT !.rows = db[src].rows] ELSE queue]
       /\ written' = [src |-> src, rows |-> queue.rows]
       /\ UNCHANGED events
    \/ /\ Happens("save fails")
       /\ written' = None
       /\ UNCHANGED db
LostBy(src) == IF db' = db /\ events' # events THEN ghost.lost \cup {src} ELSE ghost.lost \ {src}

SaveNext ==
    /\ saves # <<>>
    /\ daemon # "down"
    /\ Save(Head(saves).src, Head(saves).queue)
    /\ saves' = Tail(saves)
    /\ ghost' = [ghost EXCEPT !.lost = LostBy(Head(saves).src)]
    /\ UNCHANGED <<daemon, chosen, gone, s, turn, jobs, writer, synced, remote, print, adopt>>

-----------------------------------------------------------------------------
(* push_remote_queue: what is handed to the writer, if anything.             *)

Untouched(force) ==
    /\ s.loaded # None /\ s.loaded.mark = Mark(s)
    /\ force => s.loaded.secs = s.queue.secs
Owed(force) == ~Untouched(force) /\ (force \/ synced # Mark(s))

PushOf(sess) == [to |-> sess.server, src |-> sess.active, queue |-> sess.queue,
                 mark |-> Mark(sess), seq |-> ghost.sent + 1]

\* The persist tick, while something changed.
Tick ==
    /\ Up /\ s.dirty
    /\ saves' = IF s.unread THEN saves ELSE Append(saves, [src |-> s.active, queue |-> s.queue])
    /\ IF Owed(FALSE)
       THEN /\ jobs' = Append(jobs, PushOf(s))
            /\ s' = [s EXCEPT !.dirty = FALSE, !.loaded = None]
            /\ ghost' = [ghost EXCEPT !.sent = @ + 1]
       ELSE s' = [s EXCEPT !.dirty = FALSE] /\ UNCHANGED <<jobs, ghost>>
    /\ UNCHANGED <<daemon, chosen, gone, turn, written, db, writer, synced, remote, print,
                   adopt, events>>

\* persist_now, on quit: every save first, then this one; a push is waited for.
Persist ==
    /\ Up /\ saves = <<>>
    /\ "quit" \in Events
    /\ IF s.unread THEN UNCHANGED <<db, written, events>> ELSE Save(s.active, s.queue)
    /\ daemon' = "flushing"
    /\ s' = [s EXCEPT !.dirty = @ /\ s.unread, !.loaded = IF Owed(TRUE) THEN None ELSE @]
    /\ jobs' = IF Owed(TRUE) THEN jobs \o <<PushOf(s), Flush>> ELSE jobs
    /\ ghost' = [ghost EXCEPT !.sent = IF Owed(TRUE) THEN @ + 1 ELSE @,
                              !.lost = IF s.unread THEN @ ELSE LostBy(s.active),
                              !.parked = IF s.unread THEN @ ELSE [@ EXCEPT ![s.active] = s.queue]]
    /\ UNCHANGED <<chosen, gone, turn, saves, writer, synced, remote, print, adopt>>

-----------------------------------------------------------------------------
(* write_remote_queue: the newest push of those that piled up.               *)

Pushes == {i \in DOMAIN jobs : jobs[i] # Flush}
\* Mutant: the oldest of them.
TakeOldest == jobs[CHOOSE i \in Pushes : \A j \in Pushes : i <= j]
TakeNewest == jobs[CHOOSE i \in Pushes : \A j \in Pushes : j <= i]

WriterTakes ==
    /\ writer.at = "idle" /\ jobs # <<>>
    /\ writer' = [at |-> IF Pushes = {} THEN "answer" ELSE "send",
                  push |-> IF Pushes = {} THEN None ELSE TakeNewest,
                  flush |-> Pushes # DOMAIN jobs]
    /\ jobs' = <<>>
    /\ UNCHANGED <<daemon, chosen, gone, s, turn, saves, written, db, synced, remote, print, adopt,
                   events, ghost>>

ServerHolds(push) ==
    /\ remote' = [remote EXCEPT ![push.to] = push.queue]
    /\ ghost' = [ghost EXCEPT !.tried = push.seq]

ServerTakes ==
    /\ writer.at = "send"
    /\ ServerHolds(writer.push)
    /\ writer' = [writer EXCEPT !.at = "record"]
    /\ UNCHANGED <<daemon, chosen, gone, s, turn, saves, written, db, jobs, synced, print, adopt,
                   events>>

\* The answer is an error; the server may have taken it.
PushFails ==
    /\ writer.at = "send"
    /\ Happens("push fails")
    /\ \/ ServerHolds(writer.push)
       \/ ghost' = [ghost EXCEPT !.tried = writer.push.seq] /\ UNCHANGED remote
    /\ writer' = [writer EXCEPT !.at = "answer"]
    /\ UNCHANGED <<daemon, chosen, gone, s, turn, saves, written, db, jobs, synced, print, adopt>>

Record ==
    /\ writer.at = "record"
    /\ print' = [print EXCEPT ![writer.push.src] = writer.push.queue]
    /\ synced' = writer.push.mark
    /\ writer' = [writer EXCEPT !.at = "answer"]
    /\ UNCHANGED <<daemon, chosen, gone, s, turn, saves, written, db, jobs, remote, adopt, events,
                   ghost>>

-----------------------------------------------------------------------------
(* adopt_remote_queue: a task of the start.                                  *)

Ask ==
    /\ adopt.at = "ask" /\ daemon # "down"
    /\ adopt' = [adopt EXCEPT !.at = "fetch", !.rev = s.rev]
    /\ ghost' = [ghost EXCEPT !.touched = FALSE, !.skipped = FALSE]
    /\ UNCHANGED <<daemon, chosen, gone, s, turn, saves, written, db, jobs, writer, synced, remote,
                   print, events>>

Fetch ==
    /\ adopt.at = "fetch"
    /\ adopt' = [adopt EXCEPT !.at = "judge", !.got = remote[adopt.src]]
    /\ UNCHANGED <<daemon, chosen, gone, s, turn, saves, written, db, jobs, writer, synced, remote,
                   print, events, ghost>>

\* remote_queue_to_adopt: not what this install last saved there; an empty one
\* only where this install has saved another.
Foreign(got, own) ==
    IF got = Empty THEN own \notin {None, Empty} ELSE own # got

Judge ==
    /\ adopt.at = "judge"
    /\ adopt' = IF Foreign(adopt.got, print[adopt.src]) THEN [adopt EXCEPT !.at = "tell"] ELSE NoAdopt
    /\ UNCHANGED <<daemon, chosen, gone, s, turn, saves, written, db, jobs, writer, synced, remote,
                   print, events, ghost>>

\* Mutant: whatever has become of the queue meanwhile.
AdoptableAnyway == s.active = adopt.src
Adoptable == s.rev = adopt.rev /\ s.active = adopt.src

AdoptQueue ==
    /\ Up
    /\ adopt.at = "tell"
    /\ s' = IF Adoptable THEN [Restored(s, adopt.got) EXCEPT !.dirty = TRUE] ELSE s
    /\ adopt' = NoAdopt
    /\ UNCHANGED <<daemon, chosen, gone, turn, saves, written, db, jobs, writer, synced, remote,
                   print, events, ghost>>

-----------------------------------------------------------------------------
(* The listener.                                                             *)

\* An edit of the queue: it counts as read once it holds something.
Edit ==
    /\ Up
    /\ Happens("edit")
    /\ \E queue \in {q \in QueuesOf(s.active) : q.secs = 0} \ {s.queue}, playing \in BOOLEAN :
        s' = [s EXCEPT !.queue = queue, !.playing = playing /\ queue # Empty, !.rev = @ + 1,
                       !.dirty = TRUE, !.unread = @ /\ queue = Empty]
    /\ ghost' = [ghost EXCEPT !.touched = TRUE]
    /\ UNCHANGED <<daemon, chosen, gone, turn, saves, written, db, jobs, writer, synced, remote,
                   print, adopt>>

\* Another track of the queue: Next or Previous, or the one playing has ended.
\* Published as no change of the queue, so its revision stays.
Skip ==
    /\ Up
    /\ s.queue # Empty
    /\ Happens("skip")
    /\ \E current \in 0 .. MaxPlace \ {s.queue.current}, playing, pressed \in BOOLEAN :
        /\ pressed \/ s.playing
        /\ s' = [s EXCEPT !.queue.current = current, !.queue.secs = 0, !.playing = playing,
                          !.dirty = TRUE]
        /\ ghost' = [ghost EXCEPT !.skipped = @ \/ pressed]
    /\ UNCHANGED <<daemon, chosen, gone, turn, saves, written, db, jobs, writer, synced, remote,
                   print, adopt>>

\* Play, pause, and the time that passes.
Listen ==
    /\ Up
    /\ s.queue # Empty
    /\ Happens("listen")
    /\ \E playing \in BOOLEAN, secs \in 0 .. MaxSecs :
        s' = [s EXCEPT !.queue.secs = secs, !.playing = playing, !.dirty = TRUE]
    /\ UNCHANGED <<daemon, chosen, gone, turn, saves, written, db, jobs, writer, synced, remote,
                   print, adopt, ghost>>

-----------------------------------------------------------------------------
(* A switch of source: stored, then SetActiveSource, then SetSources.        *)

Switch ==
    /\ Up /\ turn = None
    /\ \E to \in Sources \ (gone \cup {chosen}), removed \in BOOLEAN :
        /\ Happens(IF removed THEN "remove" ELSE "switch")
        /\ chosen' = to
        /\ gone' = IF removed THEN gone \cup {chosen} ELSE gone
        /\ turn' = [to |-> to, removed |-> removed]
    /\ UNCHANGED <<daemon, s, saves, written, db, jobs, writer, synced, remote, print, adopt, ghost>>

SetActiveSource ==
    /\ Up /\ turn # None
    /\ s.server # turn.to
    /\ s' = [s EXCEPT !.server = turn.to]
    /\ UNCHANGED <<daemon, chosen, gone, turn, saves, written, db, jobs, writer, synced, remote,
                   print, adopt, events, ghost>>

\* swap_queue: once every save is through, park the queue left or forget it, and
\* resume the other; one that cannot be read is not saved over.
SetSources ==
    /\ Up /\ turn # None
    /\ s.server = turn.to
    /\ saves = <<>>
    /\ IF turn.removed
       THEN /\ db' = [db EXCEPT ![s.active] = Empty]
            /\ written' = IF written # None /\ written.src = s.active THEN None ELSE written
            /\ UNCHANGED events
            /\ ghost' = [ghost EXCEPT !.parked[s.active] = Empty, !.lost = @ \ {s.active},
                                      !.touched = TRUE]
       ELSE IF s.unread
       THEN UNCHANGED <<db, written, events>> /\ ghost' = [ghost EXCEPT !.touched = TRUE]
       ELSE /\ Save(s.active, s.queue)
            /\ ghost' = [ghost EXCEPT !.parked[s.active] = s.queue, !.lost = LostBy(s.active),
                                      !.touched = TRUE]
    /\ \E read \in IF "load fails" \in Events THEN BOOLEAN ELSE {TRUE} :
        s' = [Restored(s, IF read THEN db'[turn.to] ELSE Empty) EXCEPT
                 !.active = turn.to, !.unread = ~read]
    /\ turn' = None
    /\ UNCHANGED <<daemon, chosen, gone, saves, jobs, writer, synced, remote, print, adopt>>

-----------------------------------------------------------------------------
(* Outside.                                                                  *)

OtherDevice ==
    /\ Happens("device")
    /\ \E src \in Sources : \E queue \in QueuesOf(src) : remote' = [remote EXCEPT ![src] = queue]
    /\ UNCHANGED <<daemon, chosen, gone, s, turn, saves, written, db, jobs, writer, synced, print,
                   adopt, ghost>>

\* The process is gone: a request under way may still reach the server.
Ends(parked) ==
    /\ daemon' = "down"
    /\ \/ ghost' = [ghost EXCEPT !.parked = parked] /\ UNCHANGED remote
       \/ /\ writer.at = "send"
          /\ remote' = [remote EXCEPT ![writer.push.to] = writer.push.queue]
          /\ ghost' = [ghost EXCEPT !.parked = parked]
    /\ turn' = None /\ saves' = <<>> /\ written' = None /\ jobs' = <<>> /\ writer' = Idle
    /\ synced' = None /\ adopt' = NoAdopt
    /\ UNCHANGED <<chosen, gone, s, db, print>>

\* The flush is answered; there was nothing to wait for, or the quit does not wait
\* any longer (REMOTE_PUSH_TIMEOUT).
Answer ==
    /\ writer.at = "answer"
    /\ IF writer.flush /\ daemon = "flushing"
       THEN Ends(ghost.parked)
       ELSE /\ writer' = Idle
            /\ UNCHANGED <<daemon, chosen, gone, s, turn, saves, written, db, jobs, synced, remote,
                           print, adopt, ghost>>
    /\ UNCHANGED events
FlushTimesOut ==
    /\ daemon = "flushing"
    /\ Ends(ghost.parked)
    /\ UNCHANGED events
Crash ==
    /\ daemon # "down"
    /\ Happens("crash")
    /\ Ends(IF Up THEN [ghost.parked EXCEPT ![s.active] = db[s.active]] ELSE ghost.parked)

\* The start: the stored queue of the chosen source, then adoption.
Boot ==
    /\ daemon = "down"
    /\ daemon' = "up"
    /\ \E read \in IF "load fails" \in Events THEN BOOLEAN ELSE {TRUE} :
        s' = [Booted(chosen, IF read THEN db[chosen] ELSE Empty) EXCEPT !.unread = ~read]
    /\ adopt' = [NoAdopt EXCEPT !.at = "ask", !.src = chosen]
    /\ ghost' = [ghost EXCEPT !.sent = 0, !.tried = 0]
    /\ UNCHANGED <<chosen, gone, turn, saves, written, db, jobs, writer, synced, remote, print,
                   events>>

SyncNext ==
    \/ SaveNext \/ Tick \/ Persist
    \/ WriterTakes \/ ServerTakes \/ PushFails \/ Record \/ Answer
    \/ Ask \/ Fetch \/ Judge \/ AdoptQueue
    \/ Edit \/ Skip \/ Listen \/ Switch \/ SetActiveSource \/ SetSources
    \/ OtherDevice \/ FlushTimesOut \/ Crash \/ Boot

SyncSpec == SyncInit /\ [][SyncNext]_syncVars

-----------------------------------------------------------------------------
(* What was left where it was left (mod.rs: "a quit never loses the debounce *)
(* window"; persistence.rs: only where it stands is rewritten when the rows   *)
(* are those last written): the database holds the queue each source was left    *)
(* with and, with nothing left to save, the active one, unless the last save *)
(* failed or what is stored could not be read.                               *)
QueuesAreKept ==
    \A src \in Sources \ ghost.lost :
        IF daemon = "down" \/ src # s.active
        THEN db[src] = ghost.parked[src]
        ELSE ~s.dirty /\ saves = <<>> /\ ~s.unread => db[src] = s.queue

(* "Anything the person does to the queue while the server answers wins over *)
(* what it says" (persistence.rs), for what publishes a change of the queue:  *)
(* an edit, a replacement, the queue of another source.  A skip does not, see *)
(* SkipsOutrankAdoption.                                                     *)
EditsOutrankAdoption ==
    [][adopt.at = "tell" /\ adopt'.at = "none" /\ ghost.touched => s'.queue = s.queue]_syncVars

(* The same comment for the other thing a person does to the queue: Next and  *)
(* Previous.                                                                 *)
SkipsOutrankAdoption ==
    [][adopt.at = "tell" /\ adopt'.at = "none" /\ ghost.skipped => s'.queue = s.queue]_syncVars

(* The one writer tries pushes in the order they were made, and once it rests *)
(* the newest has been tried (mod.rs: "a slow push can never land after a    *)
(* newer one", "Answered once every push sent before it has been tried").    *)
NewestPushIsTried ==
    /\ ghost.tried <= ghost.sent
    /\ daemon # "down" /\ jobs = <<>> /\ writer.at \in {"idle", "answer"} => ghost.tried = ghost.sent

(* A server is sent only its own source's queue (tests.rs: "Entering a       *)
(* source loads its queue, which is no edit: only what is done to it there   *)
(* reaches its server").                                                     *)
PushesOwnQueue ==
    \A i \in DOMAIN jobs : jobs[i] # Flush => jobs[i].to = jobs[i].src
=============================================================================

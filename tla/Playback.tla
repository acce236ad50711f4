------------------------------ MODULE Playback ------------------------------
(***************************************************************************)
(* The session actor's playback control (daemon/core/src/session): what it *)
(* intends to play, the transition it has armed, the load it is preparing, *)
(* and how it reconciles that with what the engine says.                   *)
(*                                                                         *)
(* The session runs one handler at a time: a client command, a result of   *)
(* its own load task (`mail`), or an engine event (`events`); tokio's      *)
(* select! picks any that is ready.  The engine (EngineContract) takes its *)
(* commands from `sent`, emits into `events` and answers a load through    *)
(* the load task.  A handler reads the engine's published status as it is  *)
(* at that moment, ahead of the events still queued.                       *)
(*                                                                         *)
(* A handler is an operator on the session record `s`; `s.out` are the     *)
(* engine commands it sends.  Radio, integrations, offline mode, resume    *)
(* points and what clients are shown are left out.                         *)
(***************************************************************************)
EXTENDS QueueModel, EngineContract

CONSTANTS
    Tracks,      \* the queue at the start
    NewTrack,    \* a track an edit can add
    Remote,      \* tracks that are streamed from a source
    Unavailable, \* tracks no connected source can provide
    Modes,       \* transition settings: "crossfade", "gapless", "none"
    Commands,    \* bound: what clients ask for
    Hasty,       \* bound: what they ask for with a load or a transition under way
    Troubles,    \* bound: what goes wrong: "load", "rebuild", "output", "worker"
    MaxToken,    \* bound: loads
    MaxCommands, \* bound: client commands, device changes and failing workers
    MaxQueued    \* bound: the engine acts on its own while fewer events wait

Requests == {"Play", "Pause", "Next", "Previous", "Stop", "Seek", "Jump", "JumpPhysical", "Replace"}
Edits == {"Insert", "PlayNext", "Append", "ClearUpcoming", "ReplaceUpcoming", "ShuffleUpcoming",
          "Move", "Remove", "Shuffle", "Loop"}

ASSUME TracksAreListed == Tracks \in Seq(ToSet(Tracks))
ASSUME PlaybackBounds ==
    /\ {MaxToken, MaxCommands, MaxQueued} \subseteq Nat
    /\ Modes \subseteq {"crossfade", "gapless", "none"}
    /\ Troubles \subseteq {"load", "rebuild", "output", "worker"}
    /\ Commands \cup Hasty \subseteq Requests \cup Edits

\* None stands for no load, no session and no transition.
Transitions == {"immediate", "crossfade", "gapless"}
ASSUME NoneIsNothing ==
    /\ None \notin [token : Nat, stage : {"prepare", "reply"}, transition : Transitions]
    /\ None \notin [token : Nat, transition : Transitions]
    /\ None \notin [token : Nat, ended : BOOLEAN]
    /\ None \notin [to : Nat, key : ToSet(Tracks) \cup {NewTrack}, token : Nat, from : Nat,
                    stage : {"Loading", "Fading", "Queued"}, gapless : BOOLEAN,
                    amid : SUBSET {"Play", "Insert"}]

VARIABLES
    s,        \* the Session: queue, intent, pending, armed, phase, nextToken,
              \* task (its load task), out; of ours: trackOf (what each token
              \* loads), raced (it undid what the engine may already have
              \* acted on, took up a session it did not intend, or inserted
              \* with a transition armed), forsaken (loads whose answer will
              \* not come, or find nobody that waits for it), and in pending
              \* amid (commands since that leave the transition alone)
    mode,     \* the transition setting
    mail,     \* results of load tasks on the session's command channel
    sent,     \* commands on the engine's channel
    events,   \* engine events on the session's channel
    engine,
    commands  \* client commands so far

vars == <<s, mode, mail, sent, events, engine, commands>>

Token == 1 .. MaxToken
Stopped == [kind |-> "Stopped", token |-> 0]
Committed(t) == [kind |-> "Committed", token |-> t]
Loading(t, deferred, from) == [kind |-> "Loading", token |-> t, deferred |-> deferred,
                               from |-> from]

Init ==
    /\ s = [queue |-> [EmptyQueue EXCEPT !.items = Tracks], intent |-> Stopped,
            pending |-> None, armed |-> 0, phase |-> "Idle", nextToken |-> 1,
            task |-> None, trackOf |-> [t \in 1 .. MaxToken + 1 |-> Gone], out |-> <<>>,
            raced |-> FALSE, forsaken |-> {}]
    /\ mode \in Modes
    /\ mail = <<>> /\ sent = <<>> /\ events = <<>>
    /\ engine = NewEngine /\ commands = 0

-----------------------------------------------------------------------------
(* Pieces of the handlers.                                                   *)

Send(x, op) == [x EXCEPT !.out = Append(@, [op |-> op, token |-> 0])]
SendSeek(x, token) == [x EXCEPT !.out = Append(@, [op |-> "Seek", token |-> token])]
SendLoad(x, t, transition) ==
    [x EXCEPT !.out = Append(@, [op |-> "Load", token |-> t, transition |-> transition])]

IsLoading(x) == x.intent.kind = "Loading"
CancelLoadTask(x) == Send([x EXCEPT !.task = None], "Cancel")

Unsent(x) == \/ x.task # None /\ x.task.stage = "prepare"
             \/ \E i \in DOMAIN mail : mail[i].type = "LoadPrepared"
                                       /\ mail[i].token = x.intent.token

RevertTransition(x) ==
    IF x.pending = None THEN x
    ELSE [(IF x.pending.stage # "Fading" THEN CancelLoadTask(x) ELSE x)
             EXCEPT !.pending = None, !.armed = 0, !.intent = Committed(x.pending.from),
                    !.raced = @ \/ (x.pending.stage # "Fading" /\ ~Unsent(x))]

ShouldCrossfade(x) == mode = "crossfade" /\ x.phase = "Playing" /\ CanResume(engine)
ShouldPlayGapless(x) == mode = "gapless" /\ x.phase = "Playing" /\ CanResume(engine)

Playable(x, idx) == HasTrack(x.queue, idx) /\ TrackAt(x.queue, idx) \notin Unavailable

\* start_load of a track nothing can play, asked for by a listener.
RefuseLoad(x) ==
    [Send(CancelLoadTask(x), "Stop") EXCEPT !.pending = None, !.intent = Stopped,
                                            !.phase = "Idle"]

\* start_load of the track at idx.
StartLoad(x, idx, transition) ==
    LET t == x.nextToken
        track == TrackAt(x.queue, idx)
        deferred == transition # "immediate"
        quieted == IF ~deferred /\ track \in Remote
                   THEN [Send(CancelLoadTask(x), "Stop") EXCEPT !.phase = "Idle"]
                   ELSE CancelLoadTask(x)
    IN  [quieted EXCEPT
            !.pending = IF ~deferred THEN None
                        ELSE [to |-> idx, key |-> track, token |-> t, from |-> x.intent.token,
                              stage |-> "Loading", gapless |-> transition = "gapless",
                              amid |-> {}],
            !.intent = Loading(t, deferred, x.intent.token),
            !.nextToken = t + 1,
            !.task = [token |-> t, stage |-> "prepare", transition |-> transition],
            !.trackOf[t] = track]

\* start_immediate_load: the queue moves with the load, or not at all.
StartImmediateLoad(x, queue, idx) ==
    LET moved == [x EXCEPT !.queue = queue]
    IN  IF Playable(moved, idx) THEN StartLoad(moved, idx, "immediate")
        ELSE IF HasTrack(queue, idx) THEN RefuseLoad(x)
        ELSE x

NextPosition(x) == PeekNext(x.queue, {TrackAt(x.queue, i) : i \in IndexSet(x.queue)})

ShouldArm(x, near) ==
    /\ ShouldCrossfade(x) \/ ShouldPlayGapless(x)
    /\ near
    /\ ~IsLoading(x) /\ x.pending = None
    /\ HasNextTrack(x.queue)
    /\ x.armed = 0 \/ x.armed # x.intent.token

ArmTransition(x) ==
    LET idx == NextPosition(x)
    IN  IF idx = Nowhere \/ ~Playable(x, idx) THEN x
        ELSE StartLoad(x, idx, IF ShouldCrossfade(x) THEN "crossfade" ELSE "gapless")

ArmGaplessNow(x, near) ==
    IF ShouldPlayGapless(x) /\ ShouldArm(x, near) THEN ArmTransition(x) ELSE x

\* Mutant: a queued track is kept whatever the edit made of the queue.
NeverRearm(x, near) == x

RearmGapless(x, near) ==
    LET reverted == RevertTransition(x)
    IN  IF x.pending = None \/ ~x.pending.gapless THEN x
        ELSE IF NextPosition(x) = x.pending.to /\ TrackAt(x.queue, x.pending.to) = x.pending.key
        THEN x
        ELSE IF ShouldArm(reverted, near) THEN ArmTransition(reverted) ELSE reverted

\* Mutant: the pointer stays on the outgoing track.
CommitInPlace(x) == [x EXCEPT !.pending = None]

\* commit_transition_model: the pointer moves to where the target is now.
CommitModel(x) ==
    [x EXCEPT !.pending = None,
              !.queue = IF x.pending.to < QueueLen(@)
                        THEN [PushHistory(@) EXCEPT !.current = x.pending.to] ELSE @]
CommitTransition(x) == [CommitModel(x) EXCEPT !.armed = x.pending.from]

\* Mutant: a failed preload leaves its transition armed.
FailKeepsTransition(x, token) ==
    IF x.intent.token # token THEN x
    ELSE IF IsLoading(x) /\ x.intent.deferred THEN [x EXCEPT !.intent = Committed(x.intent.from)]
    ELSE [(IF x.phase = "Ended" THEN Send(x, "Pause") ELSE x) EXCEPT !.intent = Stopped]

FailLoad(x, token) ==
    IF x.intent.token # token THEN x
    ELSE IF IsLoading(x) /\ x.intent.deferred
    THEN [x EXCEPT !.armed = IF x.pending # None /\ x.pending.gapless THEN x.intent.from ELSE 0,
                   !.pending = None, !.intent = Committed(x.intent.from)]
    ELSE [(IF x.phase = "Ended" THEN Send(x, "Pause") ELSE x) EXCEPT !.intent = Stopped]

PlayNext(x) ==
    LET y == RevertTransition(x)
        idx == NextPosition(y)
        advanced == [PushHistory(y.queue) EXCEPT !.current = idx]
    IN  IF y.queue.items = <<>> THEN y
        ELSE IF idx # Nowhere THEN StartImmediateLoad(y, advanced, idx)
        ELSE [Send(CancelLoadTask(y), "Pause") EXCEPT
                 !.pending = None, !.intent = Stopped,
                 !.phase = IF @ = "Ended" THEN @ ELSE "Paused"]

-----------------------------------------------------------------------------
(* Client commands.                                                          *)

Seek(x) ==
    LET y == RevertTransition(x)
    IN  [SendSeek(y, IF x.pending = None THEN 0 ELSE x.pending.from) EXCEPT !.armed = 0]

\* rewind: RewindThenPrev, more than three seconds in.
PlayPrevious(x, rewind) ==
    LET y == RevertTransition(x)
        back == PreviousTarget(y.queue)
        moved == [y.queue EXCEPT !.current = back,
                                 !.history = IF @ = <<>> THEN @ ELSE Front(@)]
    IN  IF x.pending # None /\ ~x.pending.gapless
        THEN StartImmediateLoad(y, y.queue, y.queue.current)
        ELSE IF rewind THEN Seek(y)
        ELSE IF back # Nowhere THEN StartImmediateLoad(y, moved, back)
        ELSE y

\* Mutant: pausing cancels a load and goes on waiting for it.
PauseAndWait(x) == [Send(CancelLoadTask(x), "Pause") EXCEPT
                       !.phase = IF @ = "Ended" THEN @ ELSE "Paused"]

Pause(x) ==
    LET queued == x.pending # None /\ x.pending.stage = "Queued"
        y == IF ~IsLoading(x) /\ ~queued THEN x
             ELSE IF x.pending # None THEN RevertTransition(x)
             ELSE [CancelLoadTask(x) EXCEPT !.intent = Stopped]
    IN  [Send(y, "Pause") EXCEPT !.phase = IF @ = "Ended" THEN @ ELSE "Paused"]

\* The intent is taken from whatever was under way; what is armed stays so.
TakeUp(x, t) ==
    IF t = 0 \/ Committed(t) = x.intent THEN x
    ELSE [x EXCEPT !.intent = Committed(t), !.raced = TRUE,
                   !.forsaken = IF x.pending = None THEN @ ELSE @ \cup {x.pending.token},
                   !.pending = IF x.pending = None THEN None
                               ELSE [x.pending EXCEPT !.amid = @ \cup {"Play"}]]

Resume(x) ==
    LET idx == x.queue.current
    IN  IF ~CanResume(engine)
        THEN IF Playable(x, idx) THEN StartLoad(x, idx, "immediate")
             ELSE IF HasTrack(x.queue, idx) THEN RefuseLoad(x) ELSE x
        ELSE [TakeUp(Send(x, "Resume"), SessionToken(engine)) EXCEPT !.phase = "Playing"]

Stop(x) == [Send(CancelLoadTask(x), "Stop") EXCEPT
               !.pending = None, !.armed = 0, !.intent = Stopped, !.phase = "Idle"]

\* Mutant: a move leaves the armed position behind.
RemappedStill(x, from, to) == x

\* The armed position follows an entry that moves, and one that goes.
Remapped(x, from, to) ==
    IF x.pending = None THEN x ELSE [x EXCEPT !.pending.to = RemapQueueIndex(@, from, to)]
Closed(x, index) ==
    IF x.pending # None /\ index < x.pending.to THEN [x EXCEPT !.pending.to = @ - 1] ELSE x

WithQueue(x, queue) == [x EXCEPT !.queue = queue]

\* An insertion does not remap the armed position.
WithInsertion(x, queue) ==
    IF x.pending = None THEN WithQueue(x, queue)
    ELSE [WithQueue(x, queue) EXCEPT !.pending.amid = @ \cup {"Insert"}, !.raced = TRUE]

\* upcoming_from, with the transition it may undo.
UpcomingFrom(x) ==
    LET current == x.queue.current
        fading == x.pending # None /\ ~x.pending.gapless
    IN  CASE fading /\ x.pending.to > current -> [x |-> x, from |-> x.pending.to + 1]
          [] fading /\ x.pending.to <= current /\ x.pending.stage = "Loading" ->
                 [x |-> RevertTransition(x), from |-> current + 1]
          [] OTHER -> [x |-> x, from |-> current + 1]

\* Shuffling rebuilds the permutation around the current track; the armed position
\* is found again by the track's place in storage.
PositionOf(q, physical) ==
    IF q.shuffle THEN (CHOOSE i \in DOMAIN q.order : q.order[i] = physical) - 1 ELSE physical
Reshuffled(x, queue) ==
    IF x.pending = None \/ ~HasTrack(x.queue, x.pending.to) THEN WithQueue(x, queue)
    ELSE [WithQueue(x, queue)
             EXCEPT !.pending.to = PositionOf(queue, PhysicalIndexOf(x.queue, x.pending.to))]

\* The sessions an edit of this kind can produce, before gapless is re-armed.
Edited(x, kind) ==
    CASE kind = "Insert" ->
            {WithInsertion(x, InsertAtReady(x.queue, i, <<NewTrack>>)) :
                 i \in {j \in 0 .. QueueLen(x.queue) : NewTrack \notin ToSet(x.queue.items)}}
      [] kind = "PlayNext" ->
            IF NewTrack \in ToSet(x.queue.items) THEN {}
            ELSE {WithQueue(x, IF x.pending # None /\ ~x.pending.gapless
                               THEN InsertAtReady(x.queue, x.pending.to + 1, <<NewTrack>>)
                               ELSE InsertNext(x.queue, <<NewTrack>>))}
      [] kind = "Append" ->
            IF NewTrack \in ToSet(x.queue.items) THEN {}
            ELSE {WithQueue(x, Add(x.queue, <<NewTrack>>))}
      [] kind = "ClearUpcoming" ->
            LET u == UpcomingFrom(x)
            IN  {WithQueue(u.x, q) : q \in DropFrom(u.x.queue, u.from)}
      [] kind = "ReplaceUpcoming" ->
            LET u == UpcomingFrom(x)
                new == {NewTrack} \ ToSet(x.queue.items)
            IN  {WithQueue(u.x, q) :
                    q \in UNION {ReplaceFrom(u.x.queue, u.from, <<track>>) : track \in new}}
      [] kind = "ShuffleUpcoming" ->
            LET u == UpcomingFrom(x)
            IN  {WithQueue(u.x, q) : q \in ShuffleFrom(u.x.queue, u.from)}
      [] kind = "Shuffle" -> {Reshuffled(x, q) : q \in ToggleShuffle(x.queue)}
      [] kind = "Loop" -> {WithQueue(x, [x.queue EXCEPT !.loop = loop]) : loop \in LoopModes}
      [] kind = "Move" ->
            {Remapped(WithQueue(x, MoveItem(x.queue, i, j)), i, j) :
                 i, j \in IndexSet(x.queue)}
      [] kind = "Remove" ->
            {Closed(WithQueue(x, RemoveEntry(x.queue, i)), i) :
                 i \in {j \in IndexSet(x.queue) :
                            /\ j # x.queue.current
                            /\ ~(x.pending # None /\ ~x.pending.gapless /\ x.pending.to = j)}}

\* A jump to a place in storage moves the queue even where the load is refused.
JumpsPhysical(x, queue) ==
    LET moved == WithQueue(x, queue)
    IN  IF Playable(moved, queue.current) THEN StartLoad(moved, queue.current, "immediate")
        ELSE RefuseLoad(moved)

\* SetQueue in mode replace: by nothing, or by some of the tracks, from any of them.
Refilled(q, n) == UNION {SetShuffle(Replace(q, SubSeq(Tracks, 1, n)), on) : on \in BOOLEAN}
Replaced(x) ==
    {Stop(WithQueue(x, q)) : q \in Refilled(x.queue, 0)}
    \cup {StartImmediateLoad(x, q, q.current) : q \in
              UNION {UNION {JumpTo(r, i) : i \in IndexSet(r)} :
                        r \in UNION {Refilled(x.queue, n) : n \in 1 .. Len(Tracks)}}}

Asked(x, c, near) ==
    CASE c = "Play" -> {Resume(x)}
      [] c = "Pause" -> {Pause(x)}
      [] c = "Next" -> {PlayNext(x)}
      [] c = "Previous" -> {PlayPrevious(x, near /\ "Seek" \in Commands)}
      [] c = "Stop" -> {Stop(x)}
      [] c = "Seek" -> {Seek(x)}
      [] c = "Jump" -> {StartImmediateLoad(x, q, q.current) :
                            q \in UNION {JumpToPosition(x.queue, i) : i \in IndexSet(x.queue)}}
      [] c = "JumpPhysical" -> {JumpsPhysical(x, q) :
                                    q \in UNION {JumpTo(x.queue, i) : i \in IndexSet(x.queue)}}
      [] c = "Replace" -> Replaced(x)
      [] c \in Edits -> {RearmGapless(y, near) : y \in Edited(x, c)}

-----------------------------------------------------------------------------
(* The load task's results and the engine's events.                          *)

\* Mutant: a superseded load is sent to the engine all the same.
PreparedWhateverIntended(x, m) ==
    SendLoad([x EXCEPT !.task = [token |-> m.token, stage |-> "reply",
                                 transition |-> m.transition]], m.token, m.transition)

HandlePreparedLoad(x, m) ==
    IF x.intent.token # m.token THEN x
    ELSE SendLoad([x EXCEPT !.task = [token |-> m.token, stage |-> "reply",
                                      transition |-> m.transition]], m.token, m.transition)

HandleLoadFinished(x, m, near) ==
    LET y == [x EXCEPT !.intent = Committed(m.token), !.task = None]
        armed == x.pending # None /\ x.pending.token = m.token
    IN  IF x.intent.token # m.token THEN x
        ELSE IF m.result = "dropped" THEN [x EXCEPT !.task = None]
        ELSE IF m.result = "failed" THEN FailLoad([x EXCEPT !.task = None], m.token)
        ELSE ArmGaplessNow(
                 IF ~armed THEN y
                 ELSE IF m.result = "crossfaded" THEN [y EXCEPT !.pending.stage = "Fading"]
                 ELSE IF m.result = "gapless" THEN [y EXCEPT !.pending.stage = "Queued"]
                 ELSE CommitTransition(y), near)

HandleMail(x, m, near) ==
    CASE m.type = "LoadPrepared" -> HandlePreparedLoad(x, m)
      [] m.type = "PrepareFailed" -> FailLoad(x, m.token)
      [] m.type = "LoadFinished" -> HandleLoadFinished(x, m, near)

IsOutgoing(x, t) == x.pending # None /\ x.pending.from = t
WaitingFrom(x, t) == IsOutgoing(x, t) /\ x.pending.stage # "Fading"

\* A session nobody intends any more is live.
StopsStale(x, t) == /\ t # x.intent.token /\ SessionToken(engine) = t
                    /\ ~IsOutgoing(x, t)

\* stop_for_transition: it stops whatever plays when the engine gets to it.
StopStale(x) ==
    IF IsLoading(x) /\ ~Unsent(x)
    THEN [Send(x, "Stop") EXCEPT !.raced = TRUE, !.forsaken = @ \cup {x.intent.token}]
    ELSE Send(x, "Stop")

HandlePhase(x, e, near) ==
    IF e.token = x.intent.token
    THEN IF x.phase = e.phase THEN x ELSE ArmGaplessNow([x EXCEPT !.phase = e.phase], near)
    ELSE IF e.phase = "Playing" /\ StopsStale(x, e.token) THEN StopStale(x) ELSE x

HandleEnded(x, t) ==
    IF t # x.intent.token /\ ~WaitingFrom(x, t) THEN x
    ELSE IF IsOutgoing(x, t) /\ x.pending.stage = "Loading"
    THEN \* the preload finishes as an ordinary load
         [CommitModel(x) EXCEPT !.intent = Loading(x.pending.token, FALSE, t),
                                !.phase = "Ended"]
    ELSE PlayNext([(IF t # x.intent.token THEN RevertTransition(x) ELSE x)
                      EXCEPT !.phase = "Ended"])

HandleSwitched(x, t, near) ==
    IF x.pending = None \/ x.pending.token # t THEN x
    ELSE ArmGaplessNow([CommitTransition(x) EXCEPT !.phase = "Playing"], near)

HandleError(x, t) ==
    IF x.pending # None /\ x.pending.stage = "Queued" /\ x.pending.token = t
    THEN [RevertTransition(x) EXCEPT !.armed = x.pending.from]
    ELSE FailLoad(x, t)

\* Mutant: the position of any session arms a transition.
ArmOnAny(x, t) == IF ShouldArm(x, TRUE) THEN ArmTransition(x) ELSE x
HandlePosition(x, t) ==
    IF t = x.intent.token /\ ShouldArm(x, TRUE) THEN ArmTransition(x) ELSE x

HandleEvent(x, e, near) ==
    CASE e.type = "PhaseChanged" /\ e.phase \in {"Playing", "Paused"} -> HandlePhase(x, e, near)
      [] e.type = "PhaseChanged" /\ e.phase = "Idle" ->
            IF e.token = x.intent.token THEN [x EXCEPT !.phase = "Idle"] ELSE x
      [] e.type = "Ended" \/ (e.type = "PhaseChanged" /\ e.phase = "Ended") ->
            HandleEnded(x, e.token)
      [] e.type = "TrackSwitched" -> HandleSwitched(x, e.token, near)
      [] e.type = "Loaded" -> IF StopsStale(x, e.token) THEN StopStale(x) ELSE x
      [] e.type = "Error" -> HandleError(x, e.token)
      [] e.type = "Position" -> HandlePosition(x, e.token)
      [] OTHER -> x

-----------------------------------------------------------------------------
(* Steps.                                                                    *)

\* A handler ran: what it sent is on the engine's channel.
Handled(x) ==
    /\ x.nextToken <= MaxToken + 1
    /\ s' = [x EXCEPT !.out = <<>>]
    /\ sent' = sent \o x.out

Unhurried == ~IsLoading(s) /\ s.pending = None
Client ==
    /\ commands < MaxCommands /\ commands' = commands + 1
    /\ \E c \in (IF Unhurried THEN Commands ELSE Hasty), near \in BOOLEAN :
          \E x \in Asked(s, c, near) : Handled(x)
    /\ UNCHANGED <<mode, mail, events, engine>>

HandleOneMail ==
    /\ mail # <<>> /\ mail' = Tail(mail)
    /\ \E near \in BOOLEAN : Handled(HandleMail(s, Head(mail), near))
    /\ UNCHANGED <<mode, events, engine, commands>>

HandleOneEvent ==
    /\ events # <<>> /\ events' = Tail(events)
    /\ \E near \in BOOLEAN : Handled(HandleEvent(s, Head(events), near))
    /\ UNCHANGED <<mode, mail, engine, commands>>

\* The load task has resolved its source, or cannot.
TaskPrepares ==
    /\ s.task # None /\ s.task.stage = "prepare"
    /\ \E type \in {"LoadPrepared"} \cup (IF "load" \in Troubles THEN {"PrepareFailed"} ELSE {}) :
          mail' = Append(mail, [type |-> type, token |-> s.task.token,
                                transition |-> s.task.transition])
    /\ s' = [s EXCEPT !.task = None]
    /\ UNCHANGED <<mode, sent, events, engine, commands>>

\* The engine steps; its answer reaches a load task that still waits for it.
EngineSteps(x, r) ==
    LET waiting == /\ x.task # None /\ x.task.stage = "reply"
                   /\ x.task.token = r.reply.token
    IN  /\ engine' = r.eng /\ events' = events \o r.events
        /\ mail' = IF waiting THEN Append(mail, [type |-> "LoadFinished", token |-> r.reply.token,
                                                 result |-> r.reply.result])
                   ELSE mail
        /\ s' = IF waiting THEN [x EXCEPT !.task = None] ELSE x
        /\ UNCHANGED mode

\* A seek that brings an ended session back to life, or comes too late for the
\* session it is meant for.
Surprises(c) ==
    /\ c.op = "Seek"
    /\ IF Visible(engine) = None THEN c.token # 0
       ELSE Visible(engine).ended \/ c.token \notin {0, Visible(engine).token}

EngineTakesCommand ==
    /\ sent # <<>> /\ sent' = Tail(sent) /\ UNCHANGED commands
    /\ EngineSteps([s EXCEPT !.raced = @ \/ Surprises(Head(sent))],
                   Commanded(engine, Head(sent)))

\* The engine steps on its own.
EngineMoves(r) == /\ Len(events) < MaxQueued
                  /\ UNCHANGED <<sent, commands>> /\ EngineSteps(s, r)

EngineStarts == CanStart(engine) /\ EngineMoves(Starts(engine))
EngineLoadFails == /\ "load" \in Troubles /\ CanStart(engine)
                   /\ EngineMoves(LoadFails(engine))
EngineEnds == CanEnd(engine) /\ EngineMoves(Ends(engine))
EngineSwitches == CanSwitch(engine) /\ EngineMoves(Switches(engine))

\* What goes wrong in the engine is counted as a command.
Trouble(kind, x, r) ==
    /\ kind \in Troubles /\ Len(events) < MaxQueued
    /\ commands < MaxCommands /\ commands' = commands + 1 /\ UNCHANGED sent
    /\ EngineSteps(x, r)

QueuedKnown == s.pending # None /\ s.pending.stage = "Queued"
EngineRebuilds ==
    \E hold \in BOOLEAN :
       Trouble("rebuild", [s EXCEPT !.raced = @ \/ (engine.next # 0 /\ ~QueuedKnown)
                                              \/ (engine.cur # None /\ engine.cur.ended)],
               Rebuilds(engine, hold))
\* The session acts on an engine that has meanwhile failed.
UnderWay == IsLoading(s) \/ mail # <<>>
Crossed == [s EXCEPT !.raced = @ \/ UnderWay]
\* It takes a pending load with it.
Cut == [Crossed EXCEPT !.forsaken = IF IsLoading(s) /\ engine.pend # None
                                    THEN @ \cup {engine.pend.token} ELSE @]
EngineLosesOutput == Trouble("output", Cut, OutputLost(engine))
EngineWorkerFails == \E t \in Playing(engine) : Trouble("worker", Crossed, Fails(engine, t))

\* The playing track comes within reach of the transition.
EnginePosition ==
    /\ Len(events) < MaxQueued /\ EnginePhase(engine) = "Playing"
    /\ \A i \in DOMAIN events : events[i].type # "Position"
    /\ events' = Append(events, Event("Position", engine.cur.token))
    /\ UNCHANGED <<s, mode, mail, sent, engine, commands>>

EngineActs == \/ EngineTakesCommand \/ EngineStarts \/ EngineLoadFails \/ EngineEnds
              \/ EngineSwitches \/ EngineRebuilds \/ EngineLosesOutput
              \/ EngineWorkerFails \/ EnginePosition

Next == Client \/ HandleOneMail \/ HandleOneEvent \/ TaskPrepares \/ EngineActs

Spec == Init /\ [][Next]_vars

-----------------------------------------------------------------------------
(* Properties.                                                               *)

Intents == {Stopped} \cup {Committed(t) : t \in Token}
             \cup {Loading(t, d, f) : t \in Token, d \in BOOLEAN, f \in Token \cup {0}}

\* Every field holds a value of its type.
TypeOK ==
    /\ s.intent \in Intents
    /\ s.pending # None => /\ s.pending.stage \in {"Loading", "Fading", "Queued"}
                           /\ s.pending.token \in Token /\ s.pending.from \in Token
    /\ s.phase \in {"Idle", "Playing", "Paused", "Ended"}
    /\ s.armed \in Token \cup {0}
    /\ s.nextToken \in Token \cup {MaxToken + 1}

\* An armed transition is the intent, until it is heard or given up, or until
\* the track that fades in fails (revert_transition and fail_load keep the two
\* together: a transition nobody intends would still shield queue entries,
\* outlive its load, and be reverted into the intent).  Excepted is a transition
\* in whose course Play was pressed: resume re-adopts the engine's session and
\* leaves the transition armed without its load.
TransitionIsIntended ==
    s.pending # None /\ "Play" \notin s.pending.amid =>
        \/ s.intent = IF s.pending.stage = "Loading"
                      THEN Loading(s.pending.token, TRUE, s.pending.from)
                      ELSE Committed(s.pending.token)
        \/ s.intent = Stopped /\ s.pending.stage = "Fading"

\* The armed position is that of the track being loaded, whatever was moved,
\* closed up, put next, reshuffled or replaced since (handle_queue_edit).
\* Excepted is a transition in whose course something was inserted
\* (TargetRemapped).
TargetFollowed ==
    s.pending # None /\ "Insert" \notin s.pending.amid =>
        TrackOrGone(s.queue, s.pending.to) = s.pending.key

\* The same of every edit (mod.rs: "Structural edits remap `to_position` the same
\* way they remap `current`").  It does not hold: Insert (insert_at) does not
\* remap.
TargetRemapped == s.pending # None => TrackOrGone(s.queue, s.pending.to) = s.pending.key

\* A track readied for a gapless switch is the one that comes next, whatever
\* was edited since (rearm_gapless).
GaplessIsNext == s.pending # None /\ s.pending.gapless => NextPosition(s) = s.pending.to

\* The queue points at the track of the session that is intended, and at the
\* outgoing one while a transition is under way (load.rs: "Keep the visible
\* queue/track outgoing until the authoritative TrackSwitched event").  Excepted
\* is what comes after two moves have crossed (`raced`), after Play has taken the
\* intent from a load or a transition, and after an insertion with a transition
\* armed.
PointerFollows ==
    s.intent.kind # "Stopped" /\ ~s.raced =>
        CurrentTrack(s.queue) = s.trackOf[IF s.pending = None THEN s.intent.token
                                                              ELSE s.pending.from]

\* Nothing is under way: no result, command or event is on its way.
Quiet == /\ mail = <<>> /\ sent = <<>> /\ events = <<>>
         /\ s.task = None /\ engine.pend = None
Settled == Quiet /\ ~s.raced

\* No load is left hanging: with nothing under way any more, the session does
\* not wait for a load, whatever commands, edits, answers, events and failures
\* crossed (handle_load_finished, handle_engine_event).  Excepted are the loads
\* that are forsaken: one that goes with the output, one that a Stop for a stale
\* session overtakes (CancellationIsOwned), and that of a transition Play took the
\* intent from, although reconciler.rs:85 says "A slow preload can finish as an
\* ordinary load": its answer, or its source, has been thrown away by then.
LoadSettles == Quiet /\ IsLoading(s) => s.intent.token \in s.forsaken

\* No load is left hanging at all (load.rs: "Engine-side cancellation is owned by
\* the command that cancelled it").  It does not hold: nobody owns the load that
\* goes with the output, nor one dropped by a Stop meant for another session, nor
\* that of a transition Play took the intent from.
CancellationIsOwned == Quiet => ~IsLoading(s)

\* The engine plays the session a listener takes for playing: a session that is
\* committed to while a transition waits or runs is where that stage puts it.
Agreed(t) ==
    IF s.pending = None \/ s.pending.stage = "Fading" THEN SessionToken(engine) = t
    ELSE SessionToken(engine) = s.pending.from
\* Once all is settled, the session the daemon is committed to is the one the
\* engine plays (reconciler.rs).  Excepted is what comes after two moves have
\* crossed, a Stop that drops a later load among them, and after Play has taken
\* the intent from a load or a transition, or after an insertion in its course.
CommittedIsLive == Settled /\ s.intent.kind = "Committed" => Agreed(s.intent.token)
=============================================================================

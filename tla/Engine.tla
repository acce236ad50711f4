------------------------------- MODULE Engine -------------------------------
(***************************************************************************)
(* The playback engine (daemon/player/src/engine): the actor thread, the   *)
(* decode workers and the real-time audio callback.                        *)
(*                                                                         *)
(*   - the client (the session of daemon/core) sends commands, the workers *)
(*     their results and the audio backend its errors into one FIFO inbox; *)
(*   - the actor handles one message, then runs its tick (rebuild a        *)
(*     deferred output, reap what the callback shipped back, latch a       *)
(*     drained track), and waits for the next message or a timeout;        *)
(*   - the callback drains the actor's commands one by one, then reads a   *)
(*     block: separate steps, because the actor may run between them.      *)
(*                                                                         *)
(* Audio is counted in blocks.  A ring is named by the token of its        *)
(* session and the epoch of its seek.  "played >= written" is an empty     *)
(* ring.  Volume, equaliser, gain, positions and stall reports are left    *)
(* out.                                                                    *)
(***************************************************************************)
EXTENDS Integers, Sequences, FiniteSets

CONSTANTS
    MaxToken,    \* bound: loads in one behaviour
    MaxCommands, \* bound: client commands and device changes in one behaviour
    MaxInbox,    \* bound: the client sends only while the inbox is shorter
    TrackBlocks, \* bound: blocks a worker can decode after a start or a seek
    RingBlocks,  \* RING_BUF_SECONDS, in blocks
    FadeBlocks,  \* length of a crossfade, in blocks
    Live,        \* tokens whose source cannot seek (radio)
    HoldPaused,  \* DeviceChangeBehavior::Pause
    Kinds,       \* bound: the transitions loads ask for
    Others,      \* bound: what else reaches the inbox from outside
    None

ASSUME EngineBounds ==
    /\ {MaxToken, MaxCommands, MaxInbox, TrackBlocks, RingBlocks, FadeBlocks} \subseteq Nat
    /\ RingBlocks > 0 /\ FadeBlocks > 0
    /\ HoldPaused \in BOOLEAN
    /\ Kinds \subseteq {"immediate", "crossfade", "gapless"}

Token == 1 .. MaxToken
Epoch == 0 .. MaxCommands   \* one seek each at most
Transition == {"immediate", "crossfade", "gapless"}
NoRing == <<0, 0>>
Ring == Token \X Epoch

VARIABLES
    \* the Actor struct
    pc, pending, current, fading, queued, paused, open, lastToken, fadeGen,
    outstanding, rebuild, debounced, status,
    \* its channels: inbox, commands to and retirements from the callback,
    \* and the events its current step emits
    inbox, cmds, retired, events,
    \* RtState, and whether the callback is between draining and reading
    rt, reading,
    \* decode workers: their own state, the last epoch they were told to
    \* write, and the workers whose command channel is closed
    worker, want, closed,
    \* what each ring holds, and its end-of-file flag
    buffered, flag,
    \* the client: the next token, the load it is preparing, the commands so far
    nextToken, preparing, commands

actorVars == <<pc, pending, current, fading, queued, paused, open, lastToken,
               fadeGen, outstanding, rebuild, debounced, status>>
rtVars == <<rt, reading>>
workerVars == <<worker, want, closed>>
ringVars == <<buffered, flag>>
clientVars == <<nextToken, preparing, commands>>
vars == <<actorVars, inbox, cmds, retired, events, rtVars, workerVars, ringVars,
          clientVars>>

TokenOf(s) == IF s = None THEN 0 ELSE s.token
TokensOf(S) == {s.token : s \in S \ {None}}
RingOf(s) == <<s.token, s.epoch>>
NewSession(t) == [token |-> t, epoch |-> 0, ended |-> FALSE]

PhaseOf(s, held) == CASE s = None -> "Idle"
                      [] s # None /\ s.ended -> "Ended"
                      [] s # None /\ ~s.ended /\ held -> "Paused"
                      [] OTHER -> "Playing"

StatusOf(c, f, p, held, last) ==
    [token   |-> IF c = None THEN last ELSE c.token,
     phase   |-> PhaseOf(c, held),
     paused  |-> held,
     pending |-> TokenOf(p),
     fading  |-> TokenOf(f)]

\* publish(): stores the status; the phase change it may emit.
Publish == status' = StatusOf(current', fading', pending', paused', lastToken')
PhaseChange ==
    IF status'.phase = status.phase THEN <<>>
    ELSE <<[type |-> "PhaseChanged", token |-> lastToken', phase |-> status'.phase]>>

FreshRt == [active |-> NoRing, fading |-> NoRing, fade |-> None, next |-> NoRing,
            promoted |-> 0]

Init ==
    /\ pc = "recv" /\ pending = None /\ current = None /\ fading = None
    /\ queued = None /\ paused = FALSE /\ open \in BOOLEAN
    /\ lastToken = 0 /\ fadeGen = 0 /\ outstanding = 0
    /\ rebuild = "none" /\ debounced = FALSE
    /\ status = StatusOf(None, None, None, FALSE, 0)
    /\ inbox = <<>> /\ cmds = <<>> /\ retired = <<>> /\ events = <<>>
    /\ rt = FreshRt /\ reading = FALSE
    /\ worker = [t \in Token |-> [state |-> "unborn", ring |-> 0, left |-> 0]]
    /\ want = [t \in Token |-> -1] /\ closed = {}
    /\ buffered = [r \in Ring |-> 0] /\ flag = [r \in Ring |-> FALSE]
    /\ nextToken = 1 /\ preparing = None /\ commands = 0

-----------------------------------------------------------------------------
(* The client.  A load first cancels whatever resolves (start_load), and is  *)
(* sent once its source is prepared (handle_prepared_load).                  *)

Ask(m) == /\ Len(inbox) < MaxInbox /\ commands < MaxCommands
          /\ inbox' = Append(inbox, m) /\ commands' = commands + 1
          /\ events' = <<>>
          /\ UNCHANGED <<actorVars, cmds, retired, rtVars, workerVars, ringVars>>

StartLoad(transition) ==
    /\ nextToken <= MaxToken
    /\ Ask([type |-> "CancelPending"])
    /\ nextToken' = nextToken + 1
    /\ preparing' = [token |-> nextToken, transition |-> transition]

SendLoad ==
    /\ preparing # None
    /\ Ask([type |-> "Load", token |-> preparing.token,
            transition |-> preparing.transition])
    /\ preparing' = None
    /\ UNCHANGED nextToken

\* A load given up, pause, resume, stop, or a seek: of a given session, or (0)
\* of the visible one.
Control == {[type |-> "CancelPending"], [type |-> "Pause"], [type |-> "Resume"],
            [type |-> "Stop"]} \cup [type : {"Seek"}, token : Token \cup {0}]
\* What the audio backend reports (SinkEvent).
Trouble == [type : {"DeviceError"}, lost : BOOLEAN]
               \cup {[type |-> "DefaultDeviceChanged"]}

SendOther ==
    \E m \in Others \cap (Control \cup Trouble) :
        /\ Ask(m)
        /\ preparing' = IF m.type = "CancelPending" THEN None ELSE preparing
        /\ UNCHANGED nextToken

-----------------------------------------------------------------------------
(* Decode workers (worker.rs).  Commands queued behind one another coalesce: *)
(* only the last epoch asked for matters.  A worker whose channel is closed   *)
(* may still send the message it was about to send, and is then never seen   *)
(* again.                                                                    *)

Tell(m) == inbox' = Append(inbox, m)
WorkerStep(t, next) ==
    /\ worker' = [worker EXCEPT ![t] = next]
    /\ events' = <<>>
    /\ UNCHANGED <<actorVars, cmds, retired, rtVars, want, closed, flag, clientVars>>

ProbeOk(t) ==
    /\ worker[t].state = "probing"
    /\ Tell([type |-> "Ready", token |-> t])
    /\ WorkerStep(t, [worker[t] EXCEPT !.state = "waiting"])
    /\ UNCHANGED buffered

\* Mutant: a worker that panics dies without a word.
WorkerFailsSilently(t) ==
    /\ worker[t].state = "probing"
    /\ WorkerStep(t, [worker[t] EXCEPT !.state = "gone"])
    /\ UNCHANGED <<inbox, buffered>>

\* The source cannot be opened, a seek cannot be re-probed, or the decoder
\* panics: the worker reports and exits.
WorkerFails(t) ==
    /\ \/ worker[t].state \in {"probing", "decoding"}
       \/ worker[t].state = "waiting" /\ want[t] >= 0
       \/ worker[t].state = "parked" /\ want[t] # worker[t].ring
    /\ Tell([type |-> "Failed", token |-> t])
    /\ WorkerStep(t, [worker[t] EXCEPT !.state = "gone"])
    /\ UNCHANGED buffered

\* Start, or a seek that reaches a decoding or a parked worker.
TakeCommand(t) ==
    /\ t \notin closed
    /\ \/ worker[t].state = "waiting" /\ want[t] >= 0
       \/ worker[t].state \in {"decoding", "parked"} /\ want[t] # worker[t].ring
    /\ \E left \in 0 .. TrackBlocks :
          WorkerStep(t, [state |-> "decoding", ring |-> want[t], left |-> left])
    /\ UNCHANGED <<inbox, buffered>>

Decode(t) ==
    LET r == <<t, worker[t].ring>>
    IN  /\ worker[t].state = "decoding" /\ worker[t].left > 0 /\ t \notin closed
        /\ buffered[r] < RingBlocks
        /\ buffered' = [buffered EXCEPT ![r] = @ + 1]
        /\ WorkerStep(t, [worker[t] EXCEPT !.left = @ - 1])
        /\ UNCHANGED inbox

ReachEof(t) ==
    /\ worker[t].state = "decoding" /\ worker[t].left = 0
    /\ Tell([type |-> "Eof", token |-> t, epoch |-> worker[t].ring])
    /\ WorkerStep(t, [worker[t] EXCEPT !.state = "parked"])
    /\ UNCHANGED buffered

-----------------------------------------------------------------------------
(* The audio callback (RtState::process).                                    *)

\* Retired: "Ring", or "FadeComplete" of a fade, or "Advanced" to a token.
Back(kind, id) == [kind |-> kind, id |-> id]
Shipped(rings) == [i \in 1 .. Cardinality({j \in DOMAIN rings : rings[j] # NoRing})
                     |-> Back("Ring", 0)]

\* Mutant: a fade is installed as a hard swap.
NeverMixesOut(s, cmd) == FALSE
MixesOut(s, cmd) == cmd.fade # 0 /\ s.active # NoRing

IsNext(s, id) == s.next # NoRing /\ s.next[1] = id

\* Mutant: a late Unqueue does not find the session that already took over.
ForgotTakeover(s, id) == FALSE
TookOver(s, id) == ~IsNext(s, id) /\ s.promoted = id

\* What one command makes of the callback's state, and what it ships back.
RtApply(s, cmd) ==
    LET Becomes(next, dropped) == [rt |-> next, back |-> Shipped(dropped)]
    IN  CASE cmd.op = "Swap" /\ MixesOut(s, cmd) ->
               Becomes([FreshRt EXCEPT !.active = cmd.ring, !.fading = s.active,
                                       !.fade = [gen |-> cmd.fade, progress |-> 0]],
                       <<s.next, s.fading>>)
          [] cmd.op = "Swap" /\ ~MixesOut(s, cmd) ->
               Becomes([FreshRt EXCEPT !.active = cmd.ring], <<s.next, s.fading, s.active>>)
          [] cmd.op = "Queue" -> Becomes([s EXCEPT !.next = cmd.ring], <<s.next>>)
          [] cmd.op = "Unqueue" /\ IsNext(s, cmd.id) ->
               Becomes([s EXCEPT !.next = NoRing], <<s.next>>)
          [] cmd.op = "Unqueue" /\ TookOver(s, cmd.id) ->
               Becomes([s EXCEPT !.active = NoRing, !.promoted = 0], <<s.active>>)
          [] cmd.op = "DropAll" -> Becomes(FreshRt, <<s.next, s.fading, s.active>>)
          [] OTHER -> Becomes(s, <<>>)

RtStep == /\ events' = <<>>
          /\ UNCHANGED <<actorVars, inbox, workerVars, clientVars, flag>>

\* drain_commands, one command at a time; with none left the block is read.
RtDrain ==
    /\ open /\ ~reading
    /\ IF cmds # <<>>
       THEN LET x == RtApply(rt, Head(cmds))
            IN  /\ rt' = x.rt /\ retired' = retired \o x.back
                /\ cmds' = Tail(cmds) /\ UNCHANGED reading
       ELSE reading' = TRUE /\ UNCHANGED <<rt, retired, cmds>>
    /\ RtStep /\ UNCHANGED buffered

Drained(r) == flag[r] /\ buffered[r] = 0

\* The rings a read takes a block from.
Readable(rings) == {r \in rings \ {NoRing} : buffered[r] > 0}

\* process_fade: both sides are read; the fade advances while either has audio.
RtFade ==
    LET sides == Readable({rt.active, rt.fading})
        done  == rt.fade.progress + 1 >= FadeBlocks
    IN  /\ rt.fade # None /\ rt.fading # NoRing
        /\ buffered' = [r \in Ring |-> buffered[r] - (IF r \in sides THEN 1 ELSE 0)]
        /\ rt' = IF sides = {} THEN rt
                 ELSE IF done THEN [rt EXCEPT !.fade = None, !.fading = NoRing]
                 ELSE [rt EXCEPT !.fade.progress = @ + 1]
        /\ retired' = IF sides # {} /\ done
                      THEN Append(retired, Back("FadeComplete", rt.fade.gen))
                      ELSE retired

\* A block of the active ring, or, when that is drained, the takeover by the next one.
RtPlay ==
    /\ rt.fade = None \/ rt.fading = NoRing
    /\ IF rt.active # NoRing /\ buffered[rt.active] > 0
       THEN /\ buffered' = [buffered EXCEPT ![rt.active] = @ - 1]
            /\ UNCHANGED <<rt, retired>>
       ELSE /\ UNCHANGED buffered
            /\ IF rt.active # NoRing /\ Drained(rt.active) /\ rt.next # NoRing
               THEN /\ rt' = [rt EXCEPT !.active = rt.next, !.next = NoRing,
                                        !.promoted = rt.next[1]]
                    /\ retired' = Append(retired, Back("Advanced", rt.next[1]))
               ELSE UNCHANGED <<rt, retired>>

RtRead ==
    /\ open /\ reading
    /\ reading' = FALSE
    /\ IF paused THEN UNCHANGED <<rt, retired, buffered>> ELSE RtFade \/ RtPlay
    /\ RtStep /\ UNCHANGED cmds

-----------------------------------------------------------------------------
(* The actor: one message, then the tick.                                    *)

\* send_rt: outside a stream the command goes nowhere.
SendRt(seq) == cmds' = IF open THEN cmds \o seq ELSE cmds

\* Mutant: the actor forgets the queued session without telling the callback.
NoUnqueueCmd == <<>>
UnqueueCmd == IF queued = None THEN <<>>
              ELSE <<[op |-> "Unqueue", id |-> queued.token]>>
SwapCmd(ring, fade) == <<[op |-> "Swap", ring |-> ring, fade |-> fade]>>

\* Mutant: a rebuilt stream keeps the old stream's ring count.
FreshOutputStillCounting(sent) ==
    /\ open' = TRUE /\ rt' = FreshRt /\ reading' = FALSE
    /\ cmds' = sent /\ retired' = <<>> /\ outstanding' = outstanding + Len(sent)

\* A fresh stream: the old callback and the rings it held are gone.
FreshOutput(sent) ==
    /\ open' = TRUE /\ rt' = FreshRt /\ reading' = FALSE
    /\ cmds' = sent /\ retired' = <<>> /\ outstanding' = Len(sent)
SameOutput(sent, rings) ==
    /\ SendRt(sent) /\ outstanding' = outstanding + rings
    /\ UNCHANGED <<open, rtVars, retired>>

Close(S) == closed' = closed \cup TokensOf(S)

Took(type) == /\ pc = "recv" /\ inbox # <<>> /\ Head(inbox).type = type
              /\ inbox' = Tail(inbox) /\ pc' = "tick"
msg == Head(inbox)
HandlerFrame == UNCHANGED <<worker, buffered, clientVars>>

HandleLoad ==
    /\ Took("Load")
    /\ Close({pending})
    /\ UNCHANGED <<current, fading, queued, paused, open, lastToken, fadeGen, outstanding,
                   rebuild, debounced, cmds, retired, rtVars, want, ringVars, clientVars>>
    /\ \/ /\ pending' = [token |-> msg.token, transition |-> msg.transition]
          /\ worker' = [worker EXCEPT ![msg.token].state = "probing"]
          /\ Publish /\ events' = PhaseChange
       \/ \* the decode thread cannot be spawned
          /\ pending' = None /\ UNCHANGED worker
          /\ Publish
          /\ events' = <<[type |-> "Error", token |-> msg.token]>> \o PhaseChange

HandleCancelPending ==
    /\ Took("CancelPending")
    /\ Close({pending, queued})
    /\ pending' = None /\ queued' = None
    /\ SendRt(UnqueueCmd)
    /\ HandlerFrame
    /\ UNCHANGED <<current, fading, paused, open, lastToken, fadeGen, outstanding, rebuild,
                   debounced, retired, rtVars, want, flag>>
    /\ Publish /\ events' = PhaseChange

HandlePauseResume ==
    /\ \/ Took("Pause") /\ paused' = TRUE
       \/ Took("Resume") /\ paused' = FALSE
    /\ HandlerFrame
    /\ UNCHANGED <<pending, current, fading, queued, open, lastToken, fadeGen, outstanding,
                   rebuild, debounced, cmds, retired, rtVars, want, closed, flag>>
    /\ Publish /\ events' = PhaseChange

\* handle_stop, on the stream as it is
HandleStop ==
    /\ Took("Stop")
    /\ Close({pending, current, fading, queued})
    /\ pending' = None /\ current' = None /\ fading' = None /\ queued' = None
    /\ paused' = FALSE
    /\ SameOutput(UnqueueCmd \o <<[op |-> "DropAll"]>>, 0)
    /\ HandlerFrame
    /\ UNCHANGED <<lastToken, fadeGen, rebuild, debounced, want, flag>>
    /\ Publish /\ events' = PhaseChange

\* The track a listener follows: the outgoing one while a fade runs.
Visible == IF fading # None THEN fading ELSE current
SeekAllowed(token) == /\ Visible # None
                      /\ token \in {0, Visible.token}
                      /\ Visible.token \notin Live
Reringed(s) == [s EXCEPT !.epoch = @ + 1, !.ended = FALSE]

HandleSeek ==
    /\ Took("Seek")
    /\ IF SeekAllowed(msg.token)
       THEN LET s == Reringed(Visible)
            IN  /\ Close({queued} \cup (IF fading # None THEN {current} ELSE {}))
                /\ queued' = None /\ fading' = None /\ current' = s
                /\ lastToken' = IF fading # None THEN s.token ELSE lastToken
                /\ want' = [want EXCEPT ![s.token] = s.epoch]
                /\ paused' = IF Visible.ended THEN FALSE ELSE paused
                /\ SameOutput(UnqueueCmd \o SwapCmd(RingOf(s), 0), 1)
                /\ UNCHANGED pending
                /\ Publish /\ events' = PhaseChange
       ELSE /\ events' = <<>>
            /\ UNCHANGED <<pending, current, fading, queued, paused, open, lastToken,
                           outstanding, status, cmds, retired, rtVars, want, closed>>
    /\ HandlerFrame
    /\ UNCHANGED <<fadeGen, rebuild, debounced, flag>>

\* Ready of the pending load: try_start_session.
StartsPending == Took("Ready") /\ pending # None /\ pending.token = msg.token
StartFrame(t) ==
    /\ pending' = None
    /\ Publish /\ events' = PhaseChange \o <<[type |-> "Loaded", token |-> t]>>
    /\ HandlerFrame /\ UNCHANGED <<rebuild, debounced, flag>>

Outlasts(s) == s # None /\ ~s.ended
CanFade == pending.transition = "crossfade" /\ ~paused /\ open /\ Outlasts(current)
CanQueue == pending.transition = "gapless" /\ open /\ fading = None /\ Outlasts(current)

StartFade ==
    LET t == pending.token
    IN  /\ StartsPending /\ CanFade
        /\ Close({queued, fading})
        /\ queued' = None /\ fading' = current /\ current' = NewSession(t)
        /\ fadeGen' = fadeGen + 1 /\ lastToken' = t
        /\ want' = [want EXCEPT ![t] = 0]
        /\ SameOutput(UnqueueCmd \o SwapCmd(<<t, 0>>, fadeGen + 1), 1)
        /\ UNCHANGED paused
        /\ StartFrame(t)

StartGapless ==
    LET t == pending.token
    IN  /\ StartsPending /\ CanQueue
        /\ Close({queued})
        /\ queued' = NewSession(t)
        /\ want' = [want EXCEPT ![t] = 0]
        /\ SameOutput(UnqueueCmd \o <<[op |-> "Queue", ring |-> <<t, 0>>]>>, 1)
        /\ UNCHANGED <<current, fading, fadeGen, lastToken, paused>>
        /\ StartFrame(t)

\* An immediate switch, on the stream as it is or on a reopened one.
StartNow ==
    LET t == pending.token
    IN  /\ StartsPending /\ ~CanFade /\ ~CanQueue
        /\ Close({queued, current, fading})
        /\ queued' = None /\ fading' = None /\ current' = NewSession(t)
        /\ lastToken' = t
        /\ want' = [want EXCEPT ![t] = 0]
        /\ paused' = (paused /\ pending.transition # "immediate")
        /\ \/ FreshOutput(SwapCmd(<<t, 0>>, 0))
           \/ open /\ SameOutput(UnqueueCmd \o SwapCmd(<<t, 0>>, 0), 1)
        /\ UNCHANGED fadeGen
        /\ StartFrame(t)

\* Mutant: a failed start leaves the status advertising the pending load.
StartFailsUnpublished ==
    /\ StartsPending /\ ~CanFade /\ ~CanQueue
    /\ Close({queued, pending})
    /\ queued' = None /\ pending' = None
    /\ SameOutput(UnqueueCmd, 0)
    /\ UNCHANGED <<current, fading, fadeGen, lastToken, paused, want, status>>
    /\ events' = <<[type |-> "Error", token |-> msg.token]>>
    /\ HandlerFrame /\ UNCHANGED <<rebuild, debounced, flag>>

\* No output to switch to: the prior track keeps playing.
StartFails ==
    /\ StartsPending /\ ~CanFade /\ ~CanQueue
    /\ Close({queued, pending})
    /\ queued' = None /\ pending' = None
    /\ SameOutput(UnqueueCmd, 0)
    /\ UNCHANGED <<current, fading, fadeGen, lastToken, paused, want>>
    /\ Publish
    /\ events' = <<[type |-> "Error", token |-> msg.token]>> \o PhaseChange
    /\ HandlerFrame /\ UNCHANGED <<rebuild, debounced, flag>>

Ignore == /\ events' = <<>> /\ HandlerFrame
          /\ UNCHANGED <<pending, current, fading, queued, paused, open, lastToken, fadeGen,
                         outstanding, rebuild, debounced, status, cmds, retired, rtVars,
                         want, closed, flag>>

StaleReady == Took("Ready") /\ TokenOf(pending) # msg.token /\ Ignore

\* Mutant: an Eof in flight across a seek ends the new ring.
OwnerOfAnyEpoch(token, epoch) == {s \in {current, queued} \ {None} : s.token = token}

\* Mutant: a queued track that finishes decoding before it is heard is forgotten.
OwnerHeard(token, epoch) == {s \in {current} \ {None} :
                                s.token = token /\ s.epoch = epoch}

Owner(token, epoch) == {s \in {current, queued} \ {None} :
                           s.token = token /\ s.epoch = epoch}

HandleEof ==
    /\ Took("Eof")
    /\ flag' = [r \in Ring |-> flag[r] \/ r \in {RingOf(s) : s \in Owner(msg.token, msg.epoch)}]
    /\ events' = <<>> /\ HandlerFrame
    /\ UNCHANGED <<pending, current, fading, queued, paused, open, lastToken, fadeGen,
                   outstanding, rebuild, debounced, status, cmds, retired, rtVars, want,
                   closed>>

HandleFailed ==
    LET t == msg.token
        error == <<[type |-> "Error", token |-> t]>>
    IN  /\ Took("Failed")
        /\ UNCHANGED <<paused, open, lastToken, fadeGen, outstanding, rebuild, debounced,
                       retired, rtVars, want, flag>>
        /\ HandlerFrame
        /\ IF t \notin TokensOf({pending, current, fading, queued})
           THEN UNCHANGED <<pending, current, fading, queued, status, closed, cmds>>
                /\ events' = <<>>
           ELSE /\ pending' = IF TokenOf(pending) = t THEN None ELSE pending
                /\ current' = IF TokenOf(current) = t THEN None ELSE current
                /\ fading' = IF TokenOf(fading) = t THEN None ELSE fading
                /\ queued' = IF TokenOf(queued) = t THEN None ELSE queued
                /\ closed' = closed \cup {t}
                /\ SendRt(IF TokenOf(queued) = t THEN UnqueueCmd ELSE <<>>)
                /\ Publish
                /\ events' = (IF TokenOf(fading) = t THEN <<>> ELSE error) \o PhaseChange

-----------------------------------------------------------------------------
(* handle_device_error, for a message or for one the tick deferred.          *)

HoldsAfter(lost) == lost /\ HoldPaused /\ current # None /\ ~paused

\* The rebuilt stream resumes a seekable session through handle_seek, which
\* publishes before the session is held.
RebuildSeeking(lost) ==
    LET s == Reringed(current)
    IN  /\ current # None /\ current.token \notin Live
        /\ current' = s
        /\ want' = [want EXCEPT ![s.token] = s.epoch]
        /\ paused' = (HoldsAfter(lost) \/ (paused /\ ~current.ended))
        /\ Close({fading, queued})
        /\ FreshOutput(SwapCmd(RingOf(s), 0))
        /\ UNCHANGED <<pending, lastToken>>
        /\ Publish
        /\ events' = (IF current.ended /\ HoldsAfter(lost)
                      THEN <<[type |-> "PhaseChanged", token |-> lastToken,
                              phase |-> "Playing"]>> ELSE <<>>) \o PhaseChange

\* A live source has to be loaded again; without a session there is nothing to resume.
RebuildBare ==
    /\ current # None => current.token \in Live
    /\ current' = None
    /\ Close({current, fading, queued})
    /\ FreshOutput(<<>>)
    /\ UNCHANGED <<pending, lastToken, paused, want>>
    /\ Publish
    /\ events' = (IF current = None THEN <<>>
                  ELSE <<[type |-> "Error", token |-> current.token]>>) \o PhaseChange

RebuildFails ==
    /\ pending' = None /\ current' = None
    /\ paused' = FALSE
    /\ Close({pending, current, fading, queued})
    /\ open' = FALSE /\ rt' = FreshRt /\ reading' = FALSE
    /\ cmds' = <<>> /\ retired' = <<>> /\ outstanding' = 0
    /\ UNCHANGED <<lastToken, want>>
    /\ Publish
    /\ events' = PhaseChange \o <<[type |-> "Error", token |-> lastToken]>>

DeviceError(lost) ==
    /\ IF debounced
       THEN /\ rebuild' = IF lost \/ rebuild = "lost" THEN "lost" ELSE "stall"
            /\ events' = <<>>
            /\ UNCHANGED <<pending, current, fading, queued, paused, open, lastToken,
                           outstanding, debounced, status, cmds, retired, rtVars, want,
                           closed>>
       ELSE /\ rebuild' = "none" /\ debounced' = TRUE
            /\ fading' = None /\ queued' = None
            /\ RebuildSeeking(lost) \/ RebuildBare \/ RebuildFails
    /\ HandlerFrame /\ UNCHANGED <<fadeGen, flag>>

HandleDeviceError == Took("DeviceError") /\ DeviceError(msg.lost)

\* A live stream stays on the old, still working device.
HandleDefaultDeviceChanged ==
    /\ Took("DefaultDeviceChanged")
    /\ IF current # None /\ current.token \in Live THEN Ignore ELSE DeviceError(TRUE)

\* The 500 ms after a rebuild have passed.
DebounceElapses ==
    /\ debounced /\ debounced' = FALSE
    /\ events' = <<>>
    /\ UNCHANGED <<pc, pending, current, fading, queued, paused, open, lastToken, fadeGen,
                   outstanding, rebuild, status, inbox, cmds, retired, rtVars, workerVars,
                   ringVars, clientVars>>

-----------------------------------------------------------------------------
(* The tick.                                                                 *)

\* Mutant: the actor parks with a deferred rebuild outstanding.
IsIdleForgettingRebuild == /\ {current, fading, queued, pending} = {None}
                           /\ outstanding = 0

IsIdle == /\ {current, fading, queued, pending} = {None}
          /\ outstanding = 0 /\ rebuild = "none"

\* recv_timeout; an idle actor blocks on recv instead.
Timeout ==
    /\ pc = "recv" /\ inbox = <<>> /\ ~IsIdle
    /\ pc' = "tick" /\ UNCHANGED inbox
    /\ Ignore

RebuildDue == rebuild # "none" /\ ~debounced

TickRebuild ==
    /\ pc = "tick" /\ RebuildDue
    /\ pc' = "reap" /\ UNCHANGED inbox
    /\ DeviceError(rebuild = "lost")

Completes == \E i \in DOMAIN retired :
                retired[i].kind = "FadeComplete" /\ retired[i].id = fadeGen
Advanced == {retired[i].id : i \in {j \in DOMAIN retired : retired[j].kind = "Advanced"}}
Takeover == queued # None /\ queued.token \in Advanced
FadeOver == Completes /\ fading # None
Switched(to, from) == <<[type |-> "TrackSwitched", token |-> to.token,
                         from_token |-> from.token]>>

Reap ==
    /\ pc = "reap" \/ (pc = "tick" /\ ~RebuildDue)
    /\ pc' = "latch" /\ UNCHANGED inbox
    /\ retired' = <<>>
    /\ outstanding' = IF Len(retired) > outstanding THEN 0 ELSE outstanding - Len(retired)
    /\ fading' = IF FadeOver THEN None ELSE fading
    /\ current' = IF Takeover THEN queued ELSE current
    /\ queued' = IF Takeover THEN None ELSE queued
    /\ lastToken' = IF Takeover THEN queued.token ELSE lastToken
    /\ Close((IF FadeOver THEN {fading} ELSE {}) \cup (IF Takeover THEN {current} ELSE {}))
    /\ HandlerFrame
    /\ UNCHANGED <<pending, paused, open, fadeGen, rebuild, debounced, cmds, rtVars, want,
                   flag>>
    /\ IF FadeOver \/ Takeover THEN Publish ELSE UNCHANGED status
    /\ events' = (IF FadeOver /\ current # None THEN Switched(current, fading) ELSE <<>>)
                 \o (IF Takeover /\ current # None THEN Switched(queued, current) ELSE <<>>)
                 \o PhaseChange

\* Mutant: a track cannot end while the previous one still fades.
DrainCompleteUnfaded == /\ queued = None /\ fading = None /\ Outlasts(current)
                        /\ Drained(RingOf(current))

\* Mutant: a track ends although another is queued behind it.
DrainCompleteQueued == Outlasts(current) /\ Drained(RingOf(current))

DrainComplete == /\ queued = None /\ Outlasts(current)
                 /\ Drained(RingOf(current))

Latch ==
    /\ pc = "latch" /\ pc' = "recv" /\ UNCHANGED inbox
    /\ IF DrainComplete
       THEN /\ current' = [current EXCEPT !.ended = TRUE]
            /\ UNCHANGED <<pending, fading, paused, lastToken>>
            /\ Publish
            /\ events' = <<[type |-> "Ended", token |-> current.token]>> \o PhaseChange
       ELSE /\ events' = <<>>
            /\ UNCHANGED <<pending, current, fading, paused, lastToken, status>>
    /\ HandlerFrame
    /\ UNCHANGED <<queued, open, fadeGen, outstanding, rebuild, debounced, cmds, retired,
                   rtVars, want, closed, flag>>

-----------------------------------------------------------------------------
Client == (\E k \in Kinds : StartLoad(k)) \/ SendLoad \/ SendOther
Workers == \E t \in Token : \/ ProbeOk(t) \/ WorkerFails(t) \/ TakeCommand(t)
                            \/ Decode(t) \/ ReachEof(t)
Callback == RtDrain \/ RtRead
Handle == \/ HandleLoad \/ HandleCancelPending \/ HandlePauseResume \/ HandleStop
          \/ HandleSeek \/ StartFade \/ StartGapless \/ StartNow \/ StartFails
          \/ StaleReady \/ HandleEof \/ HandleFailed
          \/ HandleDeviceError \/ HandleDefaultDeviceChanged
Tick == Timeout \/ TickRebuild \/ Reap \/ Latch

Next == Client \/ Workers \/ Callback \/ Handle \/ Tick \/ DebounceElapses

Spec == Init /\ [][Next]_vars

-----------------------------------------------------------------------------
(* Properties.                                                               *)

Session == [token : Token, epoch : Epoch, ended : BOOLEAN]

\* Every field holds a value of its type; the callback holds only rings.
TypeOK ==
    /\ pc \in {"recv", "tick", "reap", "latch"}
    /\ pending \in [token : Token, transition : Transition] \cup {None}
    /\ {current, fading, queued} \subseteq Session \cup {None}
    /\ {paused, open, debounced, reading} \subseteq BOOLEAN
    /\ lastToken \in Token \cup {0} /\ fadeGen \in Nat /\ outstanding \in Nat
    /\ rebuild \in {"none", "stall", "lost"}
    /\ {rt.active, rt.fading, rt.next} \subseteq Ring \cup {NoRing}
    /\ rt.promoted \in Token \cup {0}
    /\ want \in [Token -> Epoch \cup {-1}] /\ closed \subseteq Token
    /\ buffered \in [Ring -> 0 .. RingBlocks] /\ flag \in [Ring -> BOOLEAN]

\* The lock-free status always describes the actor's own state: every path
\* that changes the session, the pause or a pending load publishes it.
StatusTruthful == status = StatusOf(current, fading, pending, paused, lastToken)

Carried == Cardinality({i \in DOMAIN cmds : cmds[i].op \in {"Swap", "Queue"}})
Holding == Cardinality({r \in {rt.active, rt.fading, rt.next} : r # NoRing})

\* rt_rings_outstanding is exact: it counts the rings on their way to the
\* callback, inside it, and on their way back, so the actor parks only when
\* there is nothing left to reap and never spins forever.
RingsBalanced == outstanding = Carried + Holding + Len(retired)

Settled == cmds = <<>> /\ retired = <<>> /\ open

\* Once the callback has caught up, it plays the actor's current session and
\* no other; only a session with nothing left to play may be missing from it.
CurrentIsHeard ==
    Settled /\ current # None =>
        \/ rt.active = RingOf(current)
        \/ rt.active = NoRing /\ Drained(RingOf(current))

\* While the outgoing side of a fade still has audio, the callback mixes it out
\* and will report the fade under the generation the actor waits for; and it
\* mixes out nothing else, but for what a failed worker left in its ring.
FadeIsHeard ==
    Settled => /\ fading # None /\ ~Drained(RingOf(fading)) =>
                      rt.fading = RingOf(fading) /\ rt.fade.gen = fadeGen
               /\ rt.fading # NoRing /\ worker[rt.fading[1]].state # "gone" =>
                      fading # None /\ rt.fading = RingOf(fading)

\* The callback holds the queued session, and only that, behind the active one.
QueuedIsNext == Settled => rt.next = (IF queued = None THEN NoRing ELSE RingOf(queued))

\* What the actor believes is playing, fading out and waiting is what the
\* callback plays, mixes out and holds, although the callback moves on by itself
\* and the actor hears of it from the rings that come back.
CallbackAgrees == CurrentIsHeard /\ FadeIsHeard /\ QueuedIsNext

\* A session is queued behind nothing and nothing will start it, as after a
\* takeover that came just before its Unqueue (README, known races).
Stranded == Settled /\ queued # None /\ rt.active = NoRing

\* An Ended is emitted only for a track that was heard to the end of its
\* latest seek: its worker has parked on that ring and left nothing in it.
EndedWasHeard ==
    [][\A i \in DOMAIN events' : events'[i].type = "Ended" =>
          LET t == events'[i].token
          IN  /\ worker[t].state # "decoding"
              /\ worker[t].ring = want[t]
              /\ buffered[<<t, want[t]>>] = 0]_vars

Contract == INSTANCE EngineContract

\* The actor's sessions as its client knows them, and the commands it takes.
AsContract ==
    [cur  |-> IF current = None THEN None
              ELSE [token |-> current.token, ended |-> current.ended],
     fade |-> TokenOf(fading), next |-> TokenOf(queued), pend |-> pending,
     held |-> paused, last |-> lastToken]
AsCommand ==
    CASE msg.type = "Load" -> [op |-> "Load", token |-> msg.token, transition |-> msg.transition]
      [] msg.type = "CancelPending" -> [op |-> "Cancel"]
      [] msg.type = "Seek" -> [op |-> "Seek", token |-> msg.token]
      [] msg.type \in {"Stop", "Pause", "Resume"} -> [op |-> msg.type]
TakesCommand == /\ pc = "recv" /\ inbox # <<>> /\ inbox' = Tail(inbox)
                /\ msg.type \in {"Load", "CancelPending", "Seek", "Stop", "Pause", "Resume"}
Told == [i \in DOMAIN events' |->
            IF events'[i].type = "TrackSwitched"
            THEN Contract!Event("TrackSwitched", events'[i].token) ELSE events'[i]]

\* Whatever the actor does, with what it emits, is one thing the contract
\* promises (module EngineContract, which the session is checked against), or a
\* load that fails at once, or nothing at all.
KeepsContract ==
    [][LET e == AsContract
           f == AsContract'
           moves == Contract!Moves(e)
                        \cup (IF current # None /\ current.token \in Live
                              THEN {Contract!Reloads(e)} ELSE {})
           load == Contract!Commanded(e, AsCommand)
       IN  \/ f = e /\ events' = <<>>
           \/ \E r \in moves : f = r.eng /\ Told = r.events
           \/ TakesCommand /\ f = load.eng /\ Told = load.events
           \/ /\ TakesCommand /\ msg.type = "Load"
              /\ LET r == Contract!LoadFails(load.eng)
                 IN  f = r.eng /\ Told = load.events \o r.events]_vars

\* Threads run, sources answer, the callback is called: everything but the client.
Fairness ==
    /\ WF_vars(Handle) /\ WF_vars(Timeout) /\ WF_vars(TickRebuild)
    /\ WF_vars(Reap) /\ WF_vars(Latch)
    /\ WF_vars(RtDrain) /\ WF_vars(RtRead) /\ WF_vars(DebounceElapses)
    /\ \A t \in Token : /\ WF_vars(ProbeOk(t)) /\ WF_vars(TakeCommand(t))
                        /\ WF_vars(Decode(t)) /\ WF_vars(ReachEof(t))

FairSpec == Spec /\ Fairness

\* A device error or change that arrives inside the debounce window is still
\* honoured after it, even if the actor has nothing else to do.
DeferredRebuildHappens == rebuild # "none" ~> rebuild = "none"

\* A load that resolves is answered, superseded or cancelled.
LoadAnswered == \A t \in Token : TokenOf(pending) = t ~> TokenOf(pending) # t

\* A track that is not paused plays out: it ends, or another one takes its place.
TrackEnds ==
    \A t \in Token : TokenOf(current) = t ~>
                        TokenOf(current) # t \/ current.ended \/ paused \/ Stranded

\* A crossfade does not stay half done, although the actor may park: it completes,
\* or its incoming side ends.  Excepted is one that is paused, which stays as it
\* is until it is resumed.
FadeResolves ==
    \A t \in Token : TokenOf(fading) = t ~>
                        TokenOf(fading) # t \/ ~Outlasts(current) \/ paused
=============================================================================

--------------------------- MODULE EngineContract ---------------------------
(***************************************************************************)
(* What the playback engine promises its client: module Engine without its *)
(* workers, rings and callback.  An engine is a record; every operator     *)
(* below is one thing it can do and yields                                 *)
(*    [eng, events, reply]                                                 *)
(* the engine after it, what it emits, and the answer to a load.           *)
(***************************************************************************)
EXTENDS Naturals, Sequences

CONSTANT None

NewEngine == [cur |-> None, fade |-> 0, next |-> 0, pend |-> None,
              held |-> FALSE, last |-> 0]

Started(t) == [token |-> t, ended |-> FALSE]
Sounding(e) == e.cur # None /\ ~e.cur.ended
EnginePhase(e) == CASE e.cur = None                            -> "Idle"
                    [] e.cur # None /\ ~Sounding(e)            -> "Ended"
                    [] Sounding(e) /\ e.held                   -> "Paused"
                    [] OTHER                                   -> "Playing"
\* EngineStatus::token
SessionToken(e) == IF e.cur = None THEN e.last ELSE e.cur.token
CanResume(e) == EnginePhase(e) \in {"Playing", "Paused"}

Event(type, token) == [type |-> type, token |-> token]
PhaseEvents(e, new) ==
    IF EnginePhase(e) = EnginePhase(new) THEN <<>>
    ELSE <<[type |-> "PhaseChanged", token |-> new.last, phase |-> EnginePhase(new)]>>
NoReply == [token |-> 0, result |-> "none"]
Reply(token, result) == [token |-> token, result |-> result]
\* A pending load that is let go answers by closing its reply channel.
Dropped(e) == IF e.pend = None THEN NoReply ELSE Reply(e.pend.token, "dropped")

\* A step that publishes, with what it emits before and after it.
Step(e, new, before, after, reply) ==
    [eng |-> new, events |-> before \o PhaseEvents(e, new) \o after, reply |-> reply]
Quietly(e, new) == Step(e, new, <<>>, <<>>, NoReply)

-----------------------------------------------------------------------------
(* Commands.                                                                 *)

\* The session a seek acts on: the outgoing one while a fade runs.
Visible(e) == IF e.fade # 0 THEN Started(e.fade) ELSE e.cur

Seeked(e, token) ==
    LET v == Visible(e)
    IN  IF v = None THEN e
        ELSE IF token \notin {0, v.token} THEN e
        ELSE [e EXCEPT !.cur = Started(v.token), !.fade = 0, !.next = 0,
                       !.last = v.token, !.held = @ /\ ~v.ended]

Commanded(e, c) ==
    CASE c.op = "Load"   -> Step(e, [e EXCEPT !.pend = [token |-> c.token,
                                                        transition |-> c.transition]],
                                 <<>>, <<>>, Dropped(e))
      [] c.op = "Cancel" -> Step(e, [e EXCEPT !.pend = None, !.next = 0], <<>>, <<>>, Dropped(e))
      [] c.op = "Stop"   -> Step(e, [NewEngine EXCEPT !.last = e.last], <<>>, <<>>, Dropped(e))
      [] c.op = "Pause"  -> Quietly(e, [e EXCEPT !.held = TRUE])
      [] c.op = "Resume" -> Quietly(e, [e EXCEPT !.held = FALSE])
      [] c.op = "Seek"   -> Quietly(e, Seeked(e, c.token))

-----------------------------------------------------------------------------
(* What it does on its own; each is given with the states it can happen in.  *)

CanStart(e) == e.pend # None
\* The pending load is probed: it fades in, queues, or replaces what plays.
Starts(e) ==
    LET t == e.pend.token
        free == [e EXCEPT !.pend = None, !.next = 0]
        loaded == <<Event("Loaded", t)>>
    IN  CASE e.pend.transition = "crossfade" /\ Sounding(e) /\ ~e.held ->
               Step(e, [free EXCEPT !.fade = e.cur.token, !.cur = Started(t), !.last = t],
                    <<>>, loaded, Reply(t, "crossfaded"))
          [] e.pend.transition = "gapless" /\ Sounding(e) /\ e.fade = 0 ->
               Step(e, [free EXCEPT !.next = t], <<>>, loaded, Reply(t, "gapless"))
          [] OTHER ->
               Step(e, [free EXCEPT !.fade = 0, !.cur = Started(t), !.last = t,
                                    !.held = @ /\ e.pend.transition # "immediate"],
                    <<>>, loaded, Reply(t, "started"))

\* The source cannot be read; the prior track keeps playing.
LoadFails(e) == Step(e, [e EXCEPT !.pend = None], <<Event("Error", e.pend.token)>>, <<>>,
                     Reply(e.pend.token, "failed"))

\* The last blocks may have been heard just before a pause.
CanEnd(e) == Sounding(e) /\ e.next = 0
Ends(e) == Step(e, [e EXCEPT !.cur.ended = TRUE], <<Event("Ended", e.cur.token)>>, <<>>, NoReply)

CanSwitch(e) == e.fade # 0 \/ (e.next # 0 /\ e.cur # None)
\* A fade is over, or the queued session took over at the last sample.  The end
\* of a fade is not reported when the incoming session is gone.
Switches(e) ==
    IF e.fade # 0
    THEN Step(e, [e EXCEPT !.fade = 0],
              IF e.cur = None THEN <<>> ELSE <<Event("TrackSwitched", e.cur.token)>>,
              <<>>, NoReply)
    ELSE Step(e, [e EXCEPT !.cur = Started(e.next), !.next = 0, !.last = e.next],
              <<Event("TrackSwitched", e.next)>>, <<>>, NoReply)

\* The output is rebuilt: a fade is cut short, a queued session let go; what
\* plays is resumed, or held where the old output went away (HoldPaused).  A
\* session that had ended is told to play before it is held.
Revival(e, hold) ==
    IF e.cur # None /\ e.cur.ended /\ ~e.held /\ hold
    THEN <<[type |-> "PhaseChanged", token |-> e.last, phase |-> "Playing"]>> ELSE <<>>
Rebuilds(e, hold) ==
    LET bare == [e EXCEPT !.fade = 0, !.next = 0]
    IN  Step(e, IF e.cur = None THEN bare
                ELSE [bare EXCEPT !.cur.ended = FALSE,
                                  !.held = IF @ THEN ~e.cur.ended ELSE hold],
             Revival(e, hold), <<>>, NoReply)

\* A source that cannot seek is not resumed: it has to be loaded again.
Reloads(e) == Step(e, [e EXCEPT !.cur = None, !.fade = 0, !.next = 0],
                   <<Event("Error", e.cur.token)>>, <<>>, NoReply)

\* There is no output to rebuild on: everything is let go, a pending load too.
OutputLost(e) == Step(e, [NewEngine EXCEPT !.last = e.last], <<>>,
                      <<Event("Error", e.last)>>, Dropped(e))

\* The worker of a session fails after it started.
Playing(e) == ({e.fade, e.next} \cup IF e.cur = None THEN {} ELSE {e.cur.token}) \ {0}
Fails(e, t) ==
    CASE e.cur # None /\ t = e.cur.token ->
           Step(e, [e EXCEPT !.cur = None], <<Event("Error", t)>>, <<>>, NoReply)
      [] t = e.fade -> Quietly(e, [e EXCEPT !.fade = 0])
      [] t = e.next -> Step(e, [e EXCEPT !.next = 0], <<Event("Error", t)>>, <<>>, NoReply)

\* All of it.
Moves(e) ==
    (IF CanStart(e) THEN {Starts(e), LoadFails(e)} ELSE {})
    \cup (IF CanEnd(e) THEN {Ends(e)} ELSE {})
    \cup (IF CanSwitch(e) THEN {Switches(e)} ELSE {})
    \cup {Rebuilds(e, hold) : hold \in BOOLEAN} \cup {OutputLost(e)}
    \cup {Fails(e, t) : t \in Playing(e)}
=============================================================================

-------------------------- MODULE CommittedTheorems --------------------------
(***************************************************************************)
(* What the session is committed to is what the engine plays, once nothing  *)
(* is under way, for any tracks and any length of the session's life:       *)
(* CommittedIsLive, under Inv and FirmInv of PlaybackTheorems.               *)
(*                                                                         *)
(* The session never asks the engine what it plays: it infers it from the   *)
(* answers to its loads and from the events, while commands of its own are  *)
(* still on their way.  So the invariant says, for each thing the session    *)
(* can be waiting for (Claims), how far the engine can be and what is still  *)
(* between the two: commands not taken yet, an answer not opened yet, an     *)
(* event not heard yet.  Orderly says who may name which session, and        *)
(* Strange and Known bound the sessions that can be heard of.  A session     *)
(* that raced (two moves crossed) claims nothing until it has settled.       *)
(*                                                                         *)
(* First the handlers of the session are taken one by one, by the pieces    *)
(* PlaybackTheorems takes them by; then the steps of the engine, by what     *)
(* they emit and whether they answer a load; then the other steps.           *)
(*                                                                         *)
(* Last, PointerFollows: the queue's pointer is on the track of the session  *)
(* intended, or of the one a transition leaves (Points), along the handlers  *)
(* and the edits of the queue, under all of the above.                       *)
(***************************************************************************)
EXTENDS PlaybackTheorems

-----------------------------------------------------------------------------
(* Where the engine is, and what is on its way to it and from it.            *)

Ending(k) == k.type = "Ended" \/ (k.type = "PhaseChanged" /\ k.phase = "Ended")
EndIn(v, u) == \E i \in DOMAIN v : v[i].token = u /\ Ending(v[i])
SwitchIn(v, t) == \E i \in DOMAIN v : v[i].token = t /\ v[i].type = "TrackSwitched"
ErrorIn(v, t) == \E i \in DOMAIN v : v[i].token = t /\ v[i].type = "Error"
ToldIn(v, t) == \E i \in DOMAIN v : v[i].token = t

LoadIn(c, t) == \E i \in DOMAIN c : c[i].op = "Load" /\ c[i].token = t
LateIn(c, t) == \E i \in DOMAIN c : /\ c[i].op = "Load" /\ c[i].token = t
                                    /\ c[i].transition # "immediate"
SeekIn(c, u) == \E i \in DOMAIN c : c[i].op = "Seek" /\ c[i].token = u
NoLoadIn(c) == \A i \in DOMAIN c : c[i].op # "Load"
NoSeek(c) == \A i \in DOMAIN c : c[i].op # "Seek"
SeeksIn(c, U) == \A i \in DOMAIN c : c[i].op = "Seek" => c[i].token \in U
LoadsAre(c, t) == \A i \in DOMAIN c : c[i].op = "Load" => c[i].token = t
SeeksFirst(c) == \A i, j \in DOMAIN c : c[i].op = "Load" /\ c[j].op = "Seek" => j < i
AimedFirst(c) == \A i, j \in DOMAIN c : c[i].op = "Load" /\ c[j].op = "Seek" /\ c[j].token # 0
                                           => j < i
Calm(c) == \A i \in DOMAIN c : c[i].op \in Tame

Pends(e, t) == e.pend # None /\ e.pend.token = t
NoLoad(c, e) == e.pend = None /\ NoLoadIn(c)
OnlyLoad(c, e, t) == (e.pend # None => e.pend.token = t) /\ LoadsAre(c, t)
\* The engine is at session u, and at no other; or a seek of u brings it there.
Base(e, u) == e.last = u /\ e.fade = 0 /\ e.next = 0
Rest(c, e, u) == Base(e, u) \/ (u # 0 /\ SeekIn(c, u))
Dead(e) == ~Sounding(e) /\ e.fade = 0 /\ e.next = 0

-----------------------------------------------------------------------------
(* The engine knows nothing of a load it was not sent.                       *)

Met(e, v, t) == t \in {e.fade, e.next, e.last} \/ ToldIn(v, t)
NotYet(x, m, t) == \/ Unsaid(x, m, t)
                   \/ \E i \in DOMAIN m : m[i].token = t /\ m[i].type = "PrepareFailed"
Strange(x, m, c, e, v) ==
    \A t \in Nat \ {0} :
       /\ t >= x.nextToken \/ NotYet(x, m, t) \/ LoadIn(c, t) \/ Pends(e, t) => ~Met(e, v, t)
       /\ NotYet(x, m, t) => ~LoadIn(c, t) /\ ~Pends(e, t)

Results == {"dropped", "failed", "started", "crossfaded", "gapless"}
Orderly(x, m, e) ==
    /\ e.fade # 0 => e.fade # e.last
    /\ x.pending # None => /\ x.pending.from # x.pending.token /\ x.pending.key \in Library
                           /\ x.pending.gapless => mode = "gapless" /\ x.pending.stage # "Fading"
                           /\ x.raced \/ x.pending.amid = {}
    /\ \A i \in DOMAIN m : m[i].type = "LoadFinished" => m[i].result \in Results

-----------------------------------------------------------------------------
(* Claims of a session that did not race.                                    *)

\* A session that ended stays ended.
EndsStay(c, e, v) ==
    \A i \in DOMAIN v : Ending(v[i]) /\ v[i].token # 0 =>
       /\ v[i].token \notin {e.fade, e.next}
       /\ e.last = v[i].token => ~Sounding(e)
       /\ SeekIn(c, v[i].token) => Base(e, v[i].token)
SeekOrder(c, e) ==
    /\ AimedFirst(c)
    /\ \A i \in DOMAIN c : c[i].op = "Seek" /\ c[i].token # 0 =>
          e.pend = None /\ e.next = 0 /\ (e.last = c[i].token => e.fade = 0)

\* Committed, with no transition: the engine is there, or a seek brings it back.
CommittedClaim(x, m, c, e) ==
    x.intent.kind = "Committed" /\ x.pending = None =>
       /\ Rest(c, e, x.intent.token) /\ NoLoad(c, e) /\ SeeksIn(c, {0, x.intent.token})
       /\ Answered(x, m, x.intent.token)

\* t fades in, over from as long as that has not been heard to end.
Fade(c, e, v, t, from) ==
    /\ NoLoad(c, e) /\ NoSeek(c)
    /\ e.last = t /\ e.next = 0 /\ e.fade \in {0, from}
    /\ e.fade # 0 => ~SwitchIn(v, t)
    /\ ~EndIn(v, from)
\* t is lined up behind from, or has taken over and the switch is not yet heard.
Lined(c, e, v, t, from) ==
    /\ NoLoad(c, e) /\ NoSeek(c)
    /\ \/ e.last = from /\ e.fade = 0 /\ e.next \in {0, t} /\ ~SwitchIn(v, t)
       \/ Base(e, t) /\ SwitchIn(v, t)

\* The load of a transition was answered: the engine is somewhere in it.
PastClaim(x, m, c, e, v) ==
    Past(x) =>
       /\ Answered(x, m, x.pending.from)
       /\ x.pending.stage = "Fading" => Fade(c, e, v, x.pending.token, x.pending.from)
       /\ x.pending.stage = "Queued" => /\ Lined(c, e, v, x.pending.token, x.pending.from)
                                        /\ x.task = None

Finished(m, t, r) == \E i \in DOMAIN m : /\ m[i].token = t /\ m[i].type = "LoadFinished"
                                         /\ m[i].result = r
Replies(x) == x.task # None /\ x.task.stage = "reply"

\* A transition whose load is not answered: where the engine is follows from
\* where the load is, the session's task, the commands, the engine or the mail.
NotSent(c, e, from) == Rest(c, e, from) /\ NoLoad(c, e) /\ SeeksIn(c, {0, from})
OnTheWay(c, e, t, from) == /\ Rest(c, e, from) /\ OnlyLoad(c, e, t) /\ SeeksIn(c, {0, from})
                           /\ SeeksFirst(c) /\ (e.pend # None => NoSeek(c))
FailedClaim(c, e, v, t, from) == Base(e, from) /\ NoLoad(c, e) /\ NoSeek(c) /\ ~SwitchIn(v, t)
StartedClaim(c, e, v, t) == /\ Base(e, t) /\ NoLoad(c, e) /\ NoSeek(c)
                            /\ ~SwitchIn(v, t) /\ ~ErrorIn(v, t)
CrossClaim(c, e, v, t, from) == Fade(c, e, v, t, from) /\ ~ErrorIn(v, t)
GapClaim(c, e, v, t, from) == /\ Lined(c, e, v, t, from) /\ Calm(c)
                              /\ ~EndIn(v, from) /\ ~ErrorIn(v, t)
                              /\ e.last = from => e.next = t
LoadingClaim(x, m, c, e, v) ==
    x.pending # None /\ ~Past(x) =>
       LET t == x.pending.token
           from == x.pending.from
       IN  /\ Answered(x, m, from)
           /\ NotYet(x, m, t) => NotSent(c, e, from)
           /\ Replies(x) => OnTheWay(c, e, t, from)
           /\ Finished(m, t, "failed") => FailedClaim(c, e, v, t, from)
           /\ Finished(m, t, "started") => StartedClaim(c, e, v, t)
           /\ Finished(m, t, "crossfaded") => CrossClaim(c, e, v, t, from)
           /\ Finished(m, t, "gapless") => GapClaim(c, e, v, t, from)

\* A load is late when the transition it was made for has ended without it.
Deferred(x, m, c, e, t) ==
    \/ x.task # None /\ x.task.token = t /\ x.task.transition # "immediate"
    \/ \E i \in DOMAIN m : /\ m[i].token = t /\ m[i].type = "LoadPrepared"
                           /\ m[i].transition # "immediate"
    \/ LateIn(c, t)
    \/ Pends(e, t) /\ e.pend.transition # "immediate"
Done(m, t) == \E r \in {"started", "crossfaded", "gapless"} : Finished(m, t, r)
LateClaim(x, m, c, e, v) ==
    IsLoading(x) /\ x.pending = None =>
       LET t == x.intent.token
       IN  /\ Deferred(x, m, c, e, t) => Dead(e) /\ OnlyLoad(c, e, t)
           /\ Done(m, t) => Base(e, t) /\ NoLoad(c, e) /\ SeeksIn(c, {0})
           /\ x.intent.deferred => /\ Finished(m, t, "crossfaded") \/ Finished(m, t, "gapless")
                                   /\ ~ErrorIn(v, t)

Claims(x, m, c, e, v) ==
    /\ EndsStay(c, e, v) /\ SeekOrder(c, e)
    /\ CommittedClaim(x, m, c, e) /\ PastClaim(x, m, c, e, v)
    /\ LoadingClaim(x, m, c, e, v) /\ LateClaim(x, m, c, e, v)
Live(x, m, c, e, v) ==
    /\ Strange(x, m, c, e, v) /\ Orderly(x, m, e)
    /\ x.raced \/ Claims(x, m, c, e, v)

-----------------------------------------------------------------------------
(* What a handler sends.                                                     *)

Plain == {"Pause", "Resume", "Cancel", "Stop"}
Says(a, b) ==
    /\ \A u : u # 0 => (SeekIn(b, u) <=> SeekIn(a, u))
    /\ \A t : LoadIn(b, t) => LoadIn(a, t)
    /\ \A t : LateIn(b, t) => LateIn(a, t)
    /\ NoLoadIn(a) => NoLoadIn(b)
    /\ NoSeek(a) => NoSeek(b)
    /\ \A U : SeeksIn(a, U) => SeeksIn(b, U)
    /\ \A t : LoadsAre(a, t) => LoadsAre(b, t)
    /\ SeeksFirst(a) => SeeksFirst(b)
    /\ AimedFirst(a) => AimedFirst(b)

LEMMA MoreElements ==
  ASSUME NEW a, NEW b, NEW ops, More(a, b, ops)
  PROVE  /\ \A i \in DOMAIN a : i \in DOMAIN b /\ b[i] = a[i]
         /\ \A i \in DOMAIN b : (i \in DOMAIN a /\ b[i] = a[i]) \/ b[i].op \in ops
<1>1. /\ Len(a) \in Nat /\ DOMAIN a = 1 .. Len(a)
      /\ Len(b) \in Nat /\ DOMAIN b = 1 .. Len(b)
  BY DEF More
<1> QED
  BY <1>1 DEF More

LEMMA MoreSays ==
  ASSUME NEW a, NEW b, NEW ops, More(a, b, ops), ops \subseteq Plain
  PROVE  Says(a, b) /\ (ops \subseteq Tame /\ Calm(a) => Calm(b))
<1>1. /\ \A i \in DOMAIN a : i \in DOMAIN b /\ b[i] = a[i]
      /\ \A i \in DOMAIN b : (i \in DOMAIN a /\ b[i] = a[i]) \/ b[i].op \in ops
  BY MoreElements
<1>2. \A i \in DOMAIN b : b[i].op \in {"Load", "Seek"} => i \in DOMAIN a /\ b[i] = a[i]
  BY <1>1 DEF Plain
<1>3. /\ \A u : SeekIn(b, u) <=> SeekIn(a, u)
      /\ \A t : LoadIn(b, t) => LoadIn(a, t)
      /\ \A t : LateIn(b, t) => LateIn(a, t)
  BY <1>1, <1>2 DEF SeekIn, LoadIn, LateIn
<1>4. /\ NoLoadIn(a) => NoLoadIn(b)
      /\ NoSeek(a) => NoSeek(b)
      /\ \A U : SeeksIn(a, U) => SeeksIn(b, U)
      /\ \A t : LoadsAre(a, t) => LoadsAre(b, t)
  BY <1>2 DEF NoLoadIn, NoSeek, SeeksIn, LoadsAre
<1>5. SeeksFirst(a) => SeeksFirst(b)
  BY <1>2 DEF SeeksFirst
<1>6. AimedFirst(a) => AimedFirst(b)
  BY <1>2 DEF AimedFirst
<1>7. ops \subseteq Tame /\ Calm(a) => Calm(b)
  BY <1>1 DEF Calm
<1> QED
  BY <1>3, <1>4, <1>5, <1>6, <1>7 DEF Says

LEMMA OutSays ==
  ASSUME NEW x, NEW y, NEW m, Fresh(x, m), NEW ops, More(x.out, y.out, ops), ops \subseteq Plain
  PROVE  Says(To(x), To(y)) /\ (ops \subseteq Tame /\ Calm(To(x)) => Calm(To(y)))
<1>1. More(To(x), To(y), ops)
  BY MoreConcat DEF Fresh, To
<1> QED
  BY <1>1, MoreSays

\* The claims that do not speak of the intent.
LEMMA SaysStrange ==
  ASSUME NEW x, NEW y, NEW m, NEW c, NEW d, NEW e, NEW v, Strange(x, m, c, e, v), Says(c, d),
         y.nextToken = x.nextToken, y.task = x.task \/ y.task = None
  PROVE  Strange(y, m, d, e, v)
<1>1. \A t : NotYet(y, m, t) => NotYet(x, m, t)
  BY DEF NotYet, Unsaid
<1> QED
  BY <1>1 DEF Strange, Says

LEMMA EndsStayIs ==
  ASSUME NEW c, NEW e, NEW v
  PROVE  EndsStay(c, e, v) <=> \A u : u # 0 /\ EndIn(v, u) =>
                                   /\ u \notin {e.fade, e.next}
                                   /\ e.last = u => ~Sounding(e)
                                   /\ SeekIn(c, u) => Base(e, u)
<1> HIDE DEF Sounding, SeekIn, Base, Ending
<1> QED
  BY DEF EndsStay, EndIn

LEMMA SeekOrderIs ==
  ASSUME NEW c, NEW e
  PROVE  SeekOrder(c, e) <=> /\ AimedFirst(c)
                             /\ \A u : u # 0 /\ SeekIn(c, u) => /\ e.pend = None /\ e.next = 0
                                                                /\ e.last = u => e.fade = 0
BY DEF SeekOrder, SeekIn

LEMMA SaysOrder ==
  ASSUME NEW c, NEW d, NEW e, NEW v, Says(c, d), EndsStay(c, e, v), SeekOrder(c, e)
  PROVE  EndsStay(d, e, v) /\ SeekOrder(d, e)
<1>1. EndsStay(d, e, v)
  BY EndsStayIs DEF Says
<1> QED
  BY <1>1, SeekOrderIs DEF Says

-----------------------------------------------------------------------------
(* What a handler does to the fields.                                        *)

SamePending(x, y) ==
    \/ y.pending = x.pending
    \/ /\ x.pending # None /\ y.pending # None
       /\ y.pending.token = x.pending.token /\ y.pending.from = x.pending.from
       /\ y.pending.stage = x.pending.stage /\ y.pending.gapless = x.pending.gapless
       /\ y.pending.key = x.pending.key
       /\ y.raced \/ y.pending.amid = x.pending.amid
Alike(x, y) == /\ y.intent = x.intent /\ y.task = x.task /\ y.nextToken = x.nextToken
               /\ SamePending(x, y) /\ (x.raced => y.raced)

\* It leaves the fields alone, and says nothing that a queued session minds.
LEMMA AlikeIsLive ==
  ASSUME NEW x, NEW y, NEW m, NEW c, NEW d, NEW e, NEW v, Live(x, m, c, e, v), Alike(x, y),
         Says(c, d), \/ y.raced \/ x.pending = None \/ Past(x)
                     \/ ~Finished(m, x.pending.token, "gapless") \/ (Calm(c) => Calm(d))
  PROVE  Live(y, m, d, e, v)
<1>1. Strange(y, m, d, e, v)
  BY SaysStrange DEF Live, Alike
<1>2. Orderly(y, m, e)
  BY DEF Live, Orderly, Alike, SamePending
<1>3. ASSUME ~y.raced PROVE Claims(y, m, d, e, v)
  <2>1. Claims(x, m, c, e, v)
    BY <1>3 DEF Live, Alike
  <2>2. EndsStay(d, e, v) /\ SeekOrder(d, e)
    BY <2>1, SaysOrder DEF Claims
  <2>3. \A u : Rest(c, e, u) => Rest(d, e, u)
    BY DEF Rest, Says
  <2>4. NoLoad(c, e) => NoLoad(d, e)
    BY DEF NoLoad, Says
  <2>5. \A t : OnlyLoad(c, e, t) => OnlyLoad(d, e, t)
    BY DEF OnlyLoad, Says
  <2>6. \A t : Answered(x, m, t) => Answered(y, m, t)
    BY DEF Answered, Alike
  <2>7. CommittedClaim(y, m, d, e)
    BY <2>1, <2>3, <2>4, <2>6 DEF Claims, CommittedClaim, Alike, SamePending, Says
  <2>8. \A t, f : Fade(c, e, v, t, f) => Fade(d, e, v, t, f)
    BY <2>4 DEF Fade, Says
  <2>9. \A t, f : Lined(c, e, v, t, f) => Lined(d, e, v, t, f)
    BY <2>4 DEF Lined, Says
  <2>10. PastClaim(y, m, d, e, v)
    BY <2>1, <2>6, <2>8, <2>9 DEF Claims, PastClaim, Past, Alike, SamePending
  <2>11. LoadingClaim(y, m, d, e, v)
    <3>1. CASE x.pending # None /\ ~Past(x)
      <4> DEFINE t == x.pending.token
                 from == x.pending.from
      <4>1. Answered(y, m, from)
        BY <2>1, <2>6, <3>1 DEF Claims, LoadingClaim
      <4>2. NotYet(y, m, t) => NotSent(d, e, from)
        BY <2>1, <2>3, <2>4, <3>1 DEF Claims, LoadingClaim, NotYet, Unsaid, NotSent, Alike, Says
      <4>3. Replies(y) => OnTheWay(d, e, t, from)
        BY <2>1, <2>3, <2>5, <3>1 DEF Claims, LoadingClaim, Replies, OnTheWay, Alike, Says
      <4>4. Finished(m, t, "failed") => FailedClaim(d, e, v, t, from)
        BY <2>1, <2>4, <3>1 DEF Claims, LoadingClaim, FailedClaim, Says
      <4>5. Finished(m, t, "started") => StartedClaim(d, e, v, t)
        BY <2>1, <2>4, <3>1 DEF Claims, LoadingClaim, StartedClaim, Says
      <4>6. Finished(m, t, "crossfaded") => CrossClaim(d, e, v, t, from)
        BY <2>1, <2>8, <3>1 DEF Claims, LoadingClaim, CrossClaim
      <4>7. Finished(m, t, "gapless") => GapClaim(d, e, v, t, from)
        BY <1>3, <2>1, <2>9, <3>1 DEF Claims, LoadingClaim, GapClaim
      <4> HIDE DEF t, from
      <4>8. y.pending.token = t /\ y.pending.from = from
        BY <3>1 DEF Alike, SamePending, t, from
      <4> QED
        BY <4>1, <4>2, <4>3, <4>4, <4>5, <4>6, <4>7, <4>8 DEF LoadingClaim
    <3>2. CASE x.pending = None \/ Past(x)
      BY <3>2 DEF LoadingClaim, Alike, SamePending, Past
    <3> QED
      BY <3>1, <3>2
  <2>12. LateClaim(y, m, d, e, v)
    <3>1. \A t : Deferred(y, m, d, e, t) => Deferred(x, m, c, e, t)
      BY DEF Deferred, Alike, Says
    <3>2. (IsLoading(y) /\ y.pending = None) => (IsLoading(x) /\ x.pending = None)
      BY DEF IsLoading, Alike, SamePending
    <3>3. y.intent = x.intent
      BY DEF Alike
    <3> QED
      BY <2>1, <2>4, <2>5, <3>1, <3>2, <3>3 DEF Claims, LateClaim, Says
  <2> QED
    BY <2>2, <2>7, <2>10, <2>11, <2>12 DEF Claims
<1> QED
  BY <1>1, <1>2, <1>3 DEF Live

\* What is left of it whatever is intended.
Loose(x, m, c, e, v) == /\ Strange(x, m, c, e, v) /\ Orderly(x, m, e)
                        /\ x.raced \/ (EndsStay(c, e, v) /\ SeekOrder(c, e))

LEMMA LiveIsLoose ==
  ASSUME NEW x, NEW m, NEW c, NEW e, NEW v, Live(x, m, c, e, v)
  PROVE  Loose(x, m, c, e, v)
BY DEF Live, Loose, Claims

LEMMA SaysLoose ==
  ASSUME NEW x, NEW y, NEW m, NEW c, NEW d, NEW e, NEW v, Loose(x, m, c, e, v), Says(c, d),
         y.nextToken = x.nextToken, y.task = x.task \/ y.task = None,
         y.pending = None \/ SamePending(x, y), x.raced => y.raced
  PROVE  Loose(y, m, d, e, v)
<1>1. Strange(y, m, d, e, v)
  BY SaysStrange DEF Loose
<1>2. Orderly(y, m, e)
  BY DEF Loose, Orderly, SamePending
<1>3. ~y.raced => EndsStay(d, e, v) /\ SeekOrder(d, e)
  BY SaysOrder DEF Loose
<1> QED
  BY <1>1, <1>2, <1>3 DEF Loose

\* It intends nothing any more.
LEMMA StoppedIsLive ==
  ASSUME NEW y, NEW m, NEW c, NEW e, NEW v, Loose(y, m, c, e, v),
         y.intent = Stopped, y.pending = None
  PROVE  Live(y, m, c, e, v)
<1>1. ~IsLoading(y) /\ ~Past(y) /\ y.intent.kind # "Committed"
  BY DEF IsLoading, Past, Stopped
<1> QED
  BY <1>1 DEF Live, Loose, Claims, CommittedClaim, PastClaim, LoadingClaim, LateClaim

\* It is committed to a session the engine is at, or is on its way back to.
LEMMA RestsLive ==
  ASSUME NEW y, NEW m, NEW c, NEW e, NEW v, Loose(y, m, c, e, v), NEW u,
         y.intent = Committed(u), y.pending = None,
         ~y.raced => /\ Rest(c, e, u) /\ NoLoad(c, e) /\ SeeksIn(c, {0, u})
                     /\ Answered(y, m, u)
  PROVE  Live(y, m, c, e, v)
<1>1. ~IsLoading(y) /\ ~Past(y) /\ y.intent.token = u
  BY DEF IsLoading, Past, Committed
<1> QED
  BY <1>1 DEF Live, Loose, Claims, CommittedClaim, PastClaim, LoadingClaim, LateClaim

-----------------------------------------------------------------------------
(* Fewer events, or less mail.                                               *)

\* w is v without k.
Popped(v, w, k) ==
    /\ \E i \in DOMAIN v : v[i] = k
    /\ \A i \in DOMAIN w : \E j \in DOMAIN v : v[j] = w[i]
    /\ \A i \in DOMAIN v : v[i] = k \/ \E j \in DOMAIN w : w[j] = v[i]

LEMMA TailIsPopped ==
  ASSUME NEW v, v \in Seq(ToSet(v)), v # <<>>
  PROVE  Popped(v, Tail(v), Head(v))
<1> DEFINE w == Tail(v)
<1>1. /\ Len(v) \in Nat /\ Len(v) > 0 /\ DOMAIN v = 1 .. Len(v) /\ DOMAIN w = 1 .. Len(v) - 1
      /\ \A i \in 1 .. Len(v) - 1 : w[i] = v[i + 1]
      /\ Head(v) = v[1]
  BY TailMail
<1> HIDE DEF w
<1>2. 1 \in DOMAIN v
  BY <1>1
<1>3. \A i \in DOMAIN w : i + 1 \in DOMAIN v /\ v[i + 1] = w[i]
  BY <1>1
<1>4. \A i \in DOMAIN v : i = 1 \/ (i - 1 \in DOMAIN w /\ w[i - 1] = v[i])
  BY <1>1
<1> QED
  BY <1>1, <1>2, <1>3, <1>4 DEF Popped, w

LEMMA PoppedEvents ==
  ASSUME NEW v, NEW w, NEW k, Popped(v, w, k)
  PROVE  /\ \A u : EndIn(w, u) => EndIn(v, u)
         /\ \A t : SwitchIn(w, t) => SwitchIn(v, t)
         /\ \A t : ErrorIn(w, t) => ErrorIn(v, t)
         /\ \A t : ToldIn(w, t) => ToldIn(v, t)
         /\ \A t : SwitchIn(v, t) => SwitchIn(w, t) \/ (k.type = "TrackSwitched" /\ k.token = t)
         /\ ToldIn(v, k.token) /\ (Ending(k) => EndIn(v, k.token))
         /\ k.type = "TrackSwitched" => SwitchIn(v, k.token)
         /\ k.type = "Error" => ErrorIn(v, k.token)
<1>1. \A u : EndIn(w, u) => EndIn(v, u)
  BY DEF Popped, EndIn, Ending
<1>2. \A t : SwitchIn(w, t) => SwitchIn(v, t)
  BY DEF Popped, SwitchIn
<1>3. \A t : ErrorIn(w, t) => ErrorIn(v, t)
  BY DEF Popped, ErrorIn
<1>4. \A t : ToldIn(w, t) => ToldIn(v, t)
  BY DEF Popped, ToldIn
<1>5. \A t : SwitchIn(v, t) => SwitchIn(w, t) \/ (k.type = "TrackSwitched" /\ k.token = t)
  BY DEF Popped, SwitchIn
<1>6. /\ ToldIn(v, k.token) /\ (Ending(k) => EndIn(v, k.token))
      /\ k.type = "TrackSwitched" => SwitchIn(v, k.token)
      /\ k.type = "Error" => ErrorIn(v, k.token)
  BY DEF Popped, ToldIn, EndIn, SwitchIn, ErrorIn
<1> QED
  BY <1>1, <1>2, <1>3, <1>4, <1>5, <1>6

LEMMA FewerIsLoose ==
  ASSUME NEW x, NEW m, NEW c, NEW e, NEW v, NEW w, NEW k, Popped(v, w, k), Loose(x, m, c, e, v)
  PROVE  Loose(x, m, c, e, w)
<1>1. /\ \A u : EndIn(w, u) => EndIn(v, u)
      /\ \A t : ToldIn(w, t) => ToldIn(v, t)
  BY PoppedEvents
<1>2. \A t : Met(e, w, t) => Met(e, v, t)
  BY <1>1 DEF Met
<1>3. Strange(x, m, c, e, w)
  BY <1>2 DEF Loose, Strange
<1>4. EndsStay(c, e, v) => EndsStay(c, e, w)
  BY <1>1, EndsStayIs
<1> QED
  BY <1>3, <1>4 DEF Loose

\* An event that goes by without the session moving, unless it is the end of
\* the transition.
LEMMA FewerIsLive ==
  ASSUME NEW x, NEW m, NEW c, NEW e, NEW v, NEW w, NEW k, Popped(v, w, k), Live(x, m, c, e, v),
         \/ x.pending = None \/ k.type # "TrackSwitched" \/ k.token # x.pending.token
  PROVE  Live(x, m, c, e, w)
<1>1. /\ \A u : EndIn(w, u) => EndIn(v, u)
      /\ \A t : SwitchIn(w, t) => SwitchIn(v, t)
      /\ \A t : ErrorIn(w, t) => ErrorIn(v, t)
  BY PoppedEvents
<1>2. x.pending # None /\ SwitchIn(v, x.pending.token) => SwitchIn(w, x.pending.token)
  BY PoppedEvents
<1>3. Loose(x, m, c, e, w)
  BY LiveIsLoose, FewerIsLoose
<1>4. ASSUME ~x.raced PROVE Claims(x, m, c, e, w)
  <2>1. Claims(x, m, c, e, v)
    BY <1>4 DEF Live
  <2>2. \A t, f : Fade(c, e, v, t, f) => Fade(c, e, w, t, f)
    BY <1>1 DEF Fade
  <2>3. ASSUME x.pending # None
        PROVE  \A f : Lined(c, e, v, x.pending.token, f) => Lined(c, e, w, x.pending.token, f)
    BY <1>1, <1>2, <2>3 DEF Lined
  <2>4. PastClaim(x, m, c, e, w)
    BY <2>1, <2>2, <2>3 DEF Claims, PastClaim, Past
  <2>5. LoadingClaim(x, m, c, e, w)
    <3>1. SUFFICES ASSUME x.pending # None, ~Past(x) PROVE LoadingClaim(x, m, c, e, w)
      BY DEF LoadingClaim
    <3> DEFINE t == x.pending.token
               from == x.pending.from
    <3>2. /\ Answered(x, m, from)
          /\ NotYet(x, m, t) => NotSent(c, e, from)
          /\ Replies(x) => OnTheWay(c, e, t, from)
      BY <2>1, <3>1 DEF Claims, LoadingClaim
    <3>3. Finished(m, t, "failed") => FailedClaim(c, e, w, t, from)
      BY <1>1, <2>1, <3>1 DEF Claims, LoadingClaim, FailedClaim
    <3>4. Finished(m, t, "started") => StartedClaim(c, e, w, t)
      BY <1>1, <2>1, <3>1 DEF Claims, LoadingClaim, StartedClaim
    <3>5. Finished(m, t, "crossfaded") => CrossClaim(c, e, w, t, from)
      BY <1>1, <2>1, <2>2, <3>1 DEF Claims, LoadingClaim, CrossClaim
    <3>6. Finished(m, t, "gapless") => GapClaim(c, e, w, t, from)
      BY <1>1, <2>1, <2>3, <3>1 DEF Claims, LoadingClaim, GapClaim
    <3> HIDE DEF t, from
    <3> QED
      BY <3>2, <3>3, <3>4, <3>5, <3>6 DEF LoadingClaim, t, from
  <2>6. LateClaim(x, m, c, e, w)
    BY <1>1, <2>1 DEF Claims, LateClaim
  <2> QED
    BY <1>3, <1>4, <2>1, <2>4, <2>5, <2>6 DEF Claims, Loose
<1> QED
  BY <1>3, <1>4 DEF Live, Loose

LEMMA PoppedMail ==
  ASSUME NEW x, NEW m, NEW n, NEW k, Popped(m, n, k)
  PROVE  /\ \A t : NotYet(x, n, t) => NotYet(x, m, t)
         /\ \A t, r : Finished(n, t, r) => Finished(m, t, r)
         /\ \A t : Answered(x, m, t) => Answered(x, n, t)
         /\ \A t, r : Finished(m, t, r) => Finished(n, t, r) \/ k.token = t
         /\ \A c, e, t : Deferred(x, n, c, e, t) => Deferred(x, m, c, e, t)
         /\ k.type \in {"LoadPrepared", "PrepareFailed"} => NotYet(x, m, k.token)
         /\ k.type = "LoadFinished" => Finished(m, k.token, k.result)
<1>1. \A t : NotYet(x, n, t) => NotYet(x, m, t)
  <2>1. \A t : Unsaid(x, n, t) => Unsaid(x, m, t)
    BY DEF Popped, Unsaid
  <2> QED
    BY <2>1 DEF Popped, NotYet
<1>2. \A t, r : Finished(n, t, r) => Finished(m, t, r)
  BY DEF Popped, Finished
<1>3. \A t : Answered(x, m, t) => Answered(x, n, t)
  BY DEF Popped, Answered
<1>4. \A t, r : Finished(m, t, r) => Finished(n, t, r) \/ k.token = t
  BY DEF Popped, Finished
<1>5. \A c, e, t : Deferred(x, n, c, e, t) => Deferred(x, m, c, e, t)
  BY DEF Popped, Deferred
<1>6. k.type \in {"LoadPrepared", "PrepareFailed"} => NotYet(x, m, k.token)
  BY DEF Popped, NotYet, Unsaid
<1>7. k.type = "LoadFinished" => Finished(m, k.token, k.result)
  BY DEF Popped, Finished
<1> QED
  BY <1>1, <1>2, <1>3, <1>4, <1>5, <1>6, <1>7

LEMMA LessIsLoose ==
  ASSUME NEW x, NEW m, NEW n, NEW c, NEW e, NEW v, NEW k, Popped(m, n, k), Loose(x, m, c, e, v)
  PROVE  Loose(x, n, c, e, v)
<1>1. \A t : NotYet(x, n, t) => NotYet(x, m, t)
  BY PoppedMail
<1>2. Strange(x, n, c, e, v)
  BY <1>1 DEF Loose, Strange
<1>3. Orderly(x, n, e)
  BY DEF Loose, Orderly, Popped
<1> QED
  BY <1>2, <1>3 DEF Loose

\* Mail about a load that nobody waits for.
LEMMA LessIsLive ==
  ASSUME NEW x, NEW m, NEW n, NEW c, NEW e, NEW v, NEW k, Popped(m, n, k), Live(x, m, c, e, v),
         k.token # x.intent.token
  PROVE  Live(x, n, c, e, v)
<1>1. /\ \A t : NotYet(x, n, t) => NotYet(x, m, t)
      /\ \A t, r : Finished(n, t, r) => Finished(m, t, r)
      /\ \A t : Answered(x, m, t) => Answered(x, n, t)
      /\ \A t, r : Finished(m, t, r) => Finished(n, t, r) \/ k.token = t
      /\ \A t : Deferred(x, n, c, e, t) => Deferred(x, m, c, e, t)
  BY PoppedMail
<1>2. Loose(x, n, c, e, v)
  BY LiveIsLoose, LessIsLoose
<1>3. ASSUME ~x.raced PROVE Claims(x, n, c, e, v)
  <2>1. Claims(x, m, c, e, v)
    BY <1>3 DEF Live
  <2>2. CommittedClaim(x, n, c, e) /\ PastClaim(x, n, c, e, v)
    BY <1>1, <2>1 DEF Claims, CommittedClaim, PastClaim
  <2>3. LoadingClaim(x, n, c, e, v)
    BY <1>1, <2>1 DEF Claims, LoadingClaim
  <2>4. LateClaim(x, n, c, e, v)
    <3>1. \A t : Done(n, t) => Done(m, t)
      BY <1>1 DEF Done
    <3> QED
      BY <1>1, <2>1, <3>1 DEF Claims, LateClaim
  <2> QED
    BY <2>1, <2>2, <2>3, <2>4 DEF Claims
<1> QED
  BY <1>2, <1>3 DEF Live, Loose

-----------------------------------------------------------------------------
(* The pieces of the handlers.  What the session says is To(x).              *)

Here(x, m, v) == Live(x, m, To(x), engine, v)
Near(x, m, v) == Loose(x, m, To(x), engine, v)

LEMMA RacedIsLive ==
  ASSUME NEW x, NEW m, NEW v, Near(x, m, v), x.raced PROVE Here(x, m, v)
BY DEF Near, Here, Loose, Live

LEMMA SaysSelf == ASSUME NEW c PROVE Says(c, c)
BY DEF Says

LEMMA QuitsPlain ==
  ASSUME NEW x, DOMAIN x = Fields, x.out \in Seq(ToSet(x.out))
  PROVE  /\ More(x.out, CancelLoadTask(x).out, Plain)
         /\ \A op \in Plain : More(x.out, Send(CancelLoadTask(x), op).out, Plain)
<1> DEFINE idle == [x EXCEPT !.task = None]
           c == CancelLoadTask(x)
<1>1. DOMAIN idle = Fields /\ idle.out = x.out
  BY DEF Fields
<1>2. "Cancel" \in Plain
  BY DEF Plain
<1>3. c = Send(idle, "Cancel")
  BY DEF CancelLoadTask
<1> HIDE DEF idle, c
<1>4. DOMAIN c = Fields /\ More(x.out, c.out, Plain)
  BY <1>1, <1>2, <1>3, SendIsMore
<1>5. c.out \in Seq(ToSet(c.out))
  BY <1>4 DEF More
<1>6. \A op \in Plain : More(c.out, Send(c, op).out, Plain)
  BY <1>4, <1>5, SendIsMore
<1>7. \A op \in Plain : More(x.out, Send(c, op).out, Plain)
  BY <1>4, <1>6, MoreAfter
<1> QED
  BY <1>4, <1>7 DEF c

LEMMA RevertDoes ==
  ASSUME NEW x, NEW m, Sane(x, m), x.pending # None
  PROVE  LET y == RevertTransition(x)
         IN  /\ DOMAIN y = Fields /\ y.pending = None /\ y.nextToken = x.nextToken
             /\ y.intent = Committed(x.pending.from) /\ y.queue = x.queue
             /\ y.phase = x.phase
             /\ x.pending.stage = "Fading" => /\ y.out = x.out /\ y.task = x.task
                                              /\ (y.raced <=> x.raced)
             /\ x.pending.stage # "Fading" => /\ y.task = None
                                              /\ (y.raced <=> x.raced \/ ~Unsent(x))
             /\ More(x.out, y.out, Plain)
<1> DEFINE base == IF x.pending.stage # "Fading" THEN CancelLoadTask(x) ELSE x
           race == base.raced \/ (x.pending.stage # "Fading" /\ ~Unsent(x))
           y == RevertTransition(x)
<1>1. DOMAIN x = Fields /\ x.out \in Seq(ToSet(x.out))
  BY DEF Sane, Shaped, Fresh
<1>2. /\ DOMAIN base = Fields /\ More(x.out, base.out, Plain)
      /\ base.nextToken = x.nextToken /\ base.phase = x.phase
      /\ x.pending.stage = "Fading" => base = x
      /\ x.pending.stage # "Fading" => base.task = None
      /\ base.raced = x.raced
  BY <1>1, CancelIsMore, QuitsPlain, MoreSelf
<1>3. base.queue = x.queue
  BY <1>1, CancelKeeps DEF Keeps
<1> HIDE DEF base
<1>4. y = [base EXCEPT !.pending = None, !.armed = 0, !.intent = Committed(x.pending.from),
                       !.raced = race]
  BY DEF RevertTransition, base
<1> HIDE DEF y, race
<1>5. /\ DOMAIN y = Fields /\ y.pending = None /\ y.nextToken = base.nextToken
      /\ y.task = base.task /\ y.out = base.out /\ y.phase = base.phase
      /\ y.queue = base.queue /\ y.raced = race
      /\ y.intent = Committed(x.pending.from)
  BY <1>2, <1>4 DEF Fields
<1>6. y.raced <=> (x.raced \/ (x.pending.stage # "Fading" /\ ~Unsent(x)))
  BY <1>2, <1>5 DEF race
<1>7. (x.pending.stage = "Fading" => (y.raced <=> x.raced))
      /\ (x.pending.stage # "Fading" => (y.raced <=> x.raced \/ ~Unsent(x)))
  BY <1>6
<1> QED
  BY <1>2, <1>3, <1>5, <1>7 DEF y

LEMMA RevertIsNear ==
  ASSUME NEW x, NEW m, Sane(x, m), NEW v, Near(x, m, v)
  PROVE  Near(RevertTransition(x), m, v)
<1> DEFINE y == RevertTransition(x)
<1>1. CASE x.pending = None
  BY <1>1 DEF RevertTransition
<1>2. CASE x.pending # None
  <2>1. /\ y.pending = None /\ y.nextToken = x.nextToken /\ (y.task = x.task \/ y.task = None)
        /\ (x.raced => y.raced) /\ More(x.out, y.out, Plain)
    BY <1>2, RevertDoes DEF Sane, Shaped
  <2> HIDE DEF y
  <2>2. Says(To(x), To(y))
    BY <2>1, OutSays DEF Sane
  <2>3. Near(y, m, v)
    BY <2>1, <2>2, SaysLoose DEF Near
  <2> QED
    BY <2>3 DEF y
<1> QED
  BY <1>1, <1>2

\* An undone transition whose load has not been sent.
LEMMA RevertIsLive ==
  ASSUME NEW x, Sane(x, mail), NEW v, Here(x, mail, v),
         x.pending # None => x.pending.stage # "Fading" \/ x.raced
  PROVE  Here(RevertTransition(x), mail, v)
<1> DEFINE y == RevertTransition(x)
           from == x.pending.from
<1>1. CASE x.pending = None
  BY <1>1 DEF RevertTransition
<1>3. CASE x.pending # None /\ x.raced
  <2>1. y.raced
    BY <1>3, RevertDoes DEF Sane, Shaped
  <2>2. Near(y, mail, v)
    BY RevertIsNear, LiveIsLoose DEF Here, Near
  <2> QED
    BY <2>1, <2>2, RacedIsLive
<1>2. CASE x.pending # None /\ ~x.raced
  <2>1. /\ y.pending = None /\ y.nextToken = x.nextToken /\ y.task = None
        /\ (y.raced <=> x.raced \/ ~Unsent(x)) /\ More(x.out, y.out, Plain)
        /\ y.intent = Committed(from)
    BY <1>2, RevertDoes
  <2>2. Near(y, mail, v)
    BY RevertIsNear, LiveIsLoose DEF Here, Near
  <2> HIDE DEF y
  <2>3. Says(To(x), To(y))
    BY <2>1, OutSays DEF Sane
  <2>4. ASSUME ~y.raced
        PROVE  /\ Rest(To(y), engine, from) /\ NoLoad(To(y), engine) /\ SeeksIn(To(y), {0, from})
               /\ Answered(y, mail, from)
    <3>1. Claims(x, mail, To(x), engine, v) /\ Unsent(x)
      BY <2>1, <2>4 DEF Here, Live
    <3>2. x.pending.stage = "Loading"
      <4>1. ASSUME x.pending.stage = "Queued" PROVE FALSE
        <5>1. x.task = None /\ Answered(x, mail, x.pending.token)
              /\ x.intent = Committed(x.pending.token)
          BY <1>2, <3>1, <4>1 DEF Claims, PastClaim, Past, Sane, Intended, Taken
        <5>2. x.intent.token = x.pending.token
          BY <5>1 DEF Committed
        <5> QED
          BY <3>1, <5>1, <5>2 DEF Unsent, Answered
      <4> QED
        BY <1>2, <4>1 DEF Sane, Shaped
    <3>3. x.intent.token = x.pending.token /\ IsLoading(x)
      BY <1>2, <3>2 DEF Sane, Intended, Taken, Loading, IsLoading
    <3>4. NotYet(x, mail, x.pending.token)
      BY <1>2, <3>1, <3>3 DEF Unsent, NotYet, Unsaid, Sane, Shaped, OnePlace
    <3>5. NotSent(To(x), engine, from) /\ Answered(x, mail, from)
      BY <1>2, <3>1, <3>2, <3>4 DEF Claims, LoadingClaim, Past
    <3> QED
      BY <2>1, <2>3, <3>5 DEF NotSent, Rest, NoLoad, Says, Answered
  <2>5. Here(y, mail, v)
    BY <2>1, <2>2, <2>4, RestsLive DEF Here, Near
  <2> QED
    BY <2>5 DEF y
<1> QED
  BY <1>1, <1>2, <1>3

\* Nothing is known of a load to come.
LEMMA NewToken ==
  ASSUME NEW x, NEW m, Sane(x, m), NEW c, c = To(x)
  PROVE  LET t == x.nextToken
         IN  /\ t \in Nat /\ 0 < t
             /\ \A i \in DOMAIN m : m[i].token # t
             /\ ~LoadIn(c, t) /\ ~LateIn(c, t) /\ ~Pends(engine, t)
<1>1. \A u : Given(x, u) => u # x.nextToken
  BY DEF Given
<1>2. \A i \in DOMAIN c : c[i].op = "Load" => c[i].token # x.nextToken
  BY <1>1 DEF Sane, Fresh, FreshIn, Known
<1>3. ~Pends(engine, x.nextToken)
  BY <1>1 DEF Sane, Fresh, FreshIn, Known, Pends
<1> QED
  BY <1>1, <1>2, <1>3 DEF Sane, OnePlace, LoadIn, LateIn

\* What the load in the background is for.
Aims(p, idx, track, t, from, transition) ==
    /\ p # None /\ p.to = idx /\ p.key = track /\ p.token = t /\ p.from = from
    /\ p.stage = "Loading" /\ (p.gapless <=> transition = "gapless") /\ p.amid = {}

LEMMA StartDoes ==
  ASSUME NEW x, NEW m, Sane(x, m), NEW idx, NEW transition, Fades(transition),
         transition # "immediate" =>
            /\ idx \in Nat /\ TrackAt(x.queue, idx) \in Library
            /\ x.intent.token \in Nat
  PROVE  LET y == StartLoad(x, idx, transition)
         IN  /\ y.nextToken = x.nextToken + 1 /\ y.raced = x.raced /\ Says(To(x), To(y))
             /\ y.task # None /\ y.task.token = x.nextToken /\ y.task.stage = "prepare"
             /\ y.task.transition = transition
             /\ y.intent.kind = "Loading" /\ y.intent.token = x.nextToken
             /\ y.intent.deferred <=> transition # "immediate"
             /\ transition = "immediate" => y.pending = None
             /\ transition # "immediate" =>
                   Aims(y.pending, idx, TrackAt(x.queue, idx), x.nextToken, x.intent.token,
                        transition)
<1> DEFINE y == StartLoad(x, idx, transition)
           quieted == IF transition = "immediate" /\ TrackAt(x.queue, idx) \in Remote
                      THEN [Send(CancelLoadTask(x), "Stop") EXCEPT !.phase = "Idle"]
                      ELSE CancelLoadTask(x)
           pending == IF transition = "immediate" THEN None
                      ELSE [to |-> idx, key |-> TrackAt(x.queue, idx), token |-> x.nextToken,
                            from |-> x.intent.token, stage |-> "Loading",
                            gapless |-> transition = "gapless", amid |-> {}]
           task == [token |-> x.nextToken, stage |-> "prepare", transition |-> transition]
           intent == Loading(x.nextToken, transition # "immediate", x.intent.token)
<1>1. DOMAIN x = Fields /\ x.out \in Seq(ToSet(x.out)) /\ "Stop" \in Others /\ "Stop" \in Plain
  BY DEF Sane, Shaped, Fresh, Others, Plain
<1>2. DOMAIN quieted = Fields /\ More(x.out, quieted.out, Plain) /\ quieted.raced = x.raced
  <2> DEFINE stopped == Send(CancelLoadTask(x), "Stop")
  <2>1. DOMAIN stopped = Fields /\ More(x.out, stopped.out, Plain) /\ stopped.raced = x.raced
    BY <1>1, QuitsIsMore, QuitsPlain
  <2> HIDE DEF stopped
  <2>2. /\ DOMAIN [stopped EXCEPT !.phase = "Idle"] = Fields
        /\ [stopped EXCEPT !.phase = "Idle"].out = stopped.out
        /\ [stopped EXCEPT !.phase = "Idle"].raced = stopped.raced
    BY <2>1 DEF Fields
  <2>3. /\ DOMAIN CancelLoadTask(x) = Fields /\ More(x.out, CancelLoadTask(x).out, Plain)
        /\ CancelLoadTask(x).raced = x.raced
    BY <1>1, CancelIsMore, QuitsPlain
  <2>4. quieted = [stopped EXCEPT !.phase = "Idle"] \/ quieted = CancelLoadTask(x)
    BY DEF stopped
  <2> QED
    BY <2>1, <2>2, <2>3, <2>4
<1> HIDE DEF quieted
<1>3. y = [quieted EXCEPT !.pending = pending, !.intent = intent,
                          !.nextToken = x.nextToken + 1, !.task = task,
                          !.trackOf[x.nextToken] = TrackAt(x.queue, idx)]
  BY DEF StartLoad, quieted
<1> HIDE DEF y, pending, task, intent
<1>4. /\ y.pending = pending /\ y.intent = intent /\ y.nextToken = x.nextToken + 1
      /\ y.task = task /\ y.out = quieted.out /\ y.raced = quieted.raced
  BY <1>2, <1>3 DEF Fields
<1>5. Says(To(x), To(y))
  BY <1>2, <1>4, OutSays DEF Sane
<1>6. x.nextToken \in Nat
  BY DEF Sane, OnePlace
<1>7. /\ task # None /\ task.token = x.nextToken
      /\ task.stage = "prepare" /\ task.transition = transition
  BY <1>6, NoneIsNothing DEF task, Fades
<1>8. /\ transition = "immediate" => pending = None
      /\ intent.kind = "Loading" /\ intent.token = x.nextToken
      /\ intent.deferred <=> transition # "immediate"
  BY DEF pending, intent, Loading
<1>9. ASSUME transition # "immediate"
      PROVE  Aims(pending, idx, TrackAt(x.queue, idx), x.nextToken, x.intent.token, transition)
  <2> DEFINE g == transition = "gapless"
             track == TrackAt(x.queue, idx)
             p == [to |-> idx, key |-> track, token |-> x.nextToken,
                   from |-> x.intent.token, stage |-> "Loading", gapless |-> g, amid |-> {}]
  <2>1. pending = p
    BY <1>9 DEF pending
  <2>2. /\ track \in ToSet(Tracks) \cup {NewTrack} /\ idx \in Nat
        /\ x.intent.token \in Nat /\ g \in BOOLEAN
    BY <1>9 DEF Library
  <2> HIDE DEF g, track
  <2>3. p # None
    BY <1>6, <2>2, NoneIsNothing
  <2> QED
    BY <2>1, <2>3 DEF Aims, g, track
<1> QED
  BY <1>2, <1>4, <1>5, <1>7, <1>8, <1>9 DEF y

LEMMA StartIsNear ==
  ASSUME NEW x, NEW m, Sane(x, m), NEW v, Near(x, m, v), NEW y,
         y.nextToken = x.nextToken + 1, Says(To(x), To(y)),
         y.task # None, y.task.token = x.nextToken
  PROVE  Strange(y, m, To(y), engine, v)
<1> DEFINE t == x.nextToken
<1>1. /\ t \in Nat /\ 0 < t
      /\ \A i \in DOMAIN m : m[i].token # t
      /\ ~LoadIn(To(x), t) /\ ~Pends(engine, t)
  BY NewToken
<1>2. \A u : NotYet(y, m, u) => u = t \/ NotYet(x, m, u)
  BY DEF NotYet, Unsaid
<1>3. ASSUME NEW u \in Nat \ {0}
      PROVE  /\ u >= y.nextToken \/ NotYet(y, m, u) \/ LoadIn(To(y), u) \/ Pends(engine, u)
                  => ~Met(engine, v, u)
             /\ NotYet(y, m, u) => ~LoadIn(To(y), u) /\ ~Pends(engine, u)
  <2>1. CASE u = t
    BY <1>1, <2>1 DEF Near, Loose, Strange, Says
  <2>2. CASE u # t
    <3>1. u >= y.nextToken => u >= x.nextToken
      BY <1>1
    <3> QED
      BY <1>1, <1>2, <2>2, <3>1 DEF Near, Loose, Strange, Says
  <2> QED
    BY <2>1, <2>2
<1> QED
  BY <1>3 DEF Strange

\* A listener's load drops everything: only what the engine is told counts.
LEMMA ImmediateStarts ==
  ASSUME NEW x, NEW m, Sane(x, m), NEW v, Near(x, m, v), NEW idx
  PROVE  Here(StartLoad(x, idx, "immediate"), m, v)
<1> DEFINE y == StartLoad(x, idx, "immediate")
           t == x.nextToken
<1>0. Fades("immediate")
  BY DEF Fades, Transitions
<1>1. /\ y.nextToken = t + 1 /\ y.raced = x.raced /\ y.pending = None
      /\ y.intent.kind = "Loading" /\ y.intent.token = t /\ ~y.intent.deferred
      /\ Says(To(x), To(y))
      /\ y.task # None /\ y.task.token = t /\ y.task.transition = "immediate"
  BY <1>0, StartDoes
<1> HIDE DEF y
<1>2. Strange(y, m, To(y), engine, v)
  BY <1>1, StartIsNear
<1>3. /\ \A i \in DOMAIN m : m[i].token # t
      /\ ~LateIn(To(x), t) /\ ~Pends(engine, t)
  BY NewToken
<1>5. Orderly(y, m, engine)
  BY <1>1 DEF Near, Loose, Orderly
<1>6. ~Deferred(y, m, To(y), engine, t)
  BY <1>1, <1>3 DEF Deferred, Says
<1>7. ~Done(m, t)
  BY <1>3 DEF Done, Finished
<1>8. ASSUME ~y.raced PROVE Claims(y, m, To(y), engine, v)
  <2>1. EndsStay(To(y), engine, v) /\ SeekOrder(To(y), engine)
    BY <1>1, <1>8, SaysOrder DEF Near, Loose
  <2>2. LateClaim(y, m, To(y), engine, v)
    BY <1>1, <1>6, <1>7 DEF LateClaim
  <2>3. /\ CommittedClaim(y, m, To(y), engine) /\ PastClaim(y, m, To(y), engine, v)
        /\ LoadingClaim(y, m, To(y), engine, v)
    BY <1>1 DEF CommittedClaim, PastClaim, Past, LoadingClaim
  <2> QED
    BY <2>1, <2>2, <2>3 DEF Claims
<1>9. Here(y, m, v)
  BY <1>2, <1>5, <1>8 DEF Here, Live
<1> QED
  BY <1>9 DEF y

\* The next track is readied while the committed session plays.
LEMMA DeferredStarts ==
  ASSUME NEW x, NEW m, Sane(x, m), NEW v, Here(x, m, v), NEW idx, NEW transition,
         transition \in {"crossfade", "gapless"}, transition = mode,
         idx \in Nat, TrackAt(x.queue, idx) \in Library,
         x.pending = None, ~IsLoading(x), x.intent.token # 0 \/ x.raced
  PROVE  Here(StartLoad(x, idx, transition), m, v)
<1> DEFINE y == StartLoad(x, idx, transition)
           t == x.nextToken
           from == x.intent.token
           p == y.pending
<1>6. /\ from \in Nat /\ from # t
      /\ ~x.raced => x.intent.kind = "Committed" /\ Given(x, from)
  <2>1. /\ x.nextToken \in Nat /\ 0 < x.nextToken
        /\ \/ x.intent = Stopped
           \/ Session(x, from) /\ x.intent = Committed(from)
    BY DEF Sane, OnePlace, Typed, IsLoading, Loading
  <2> QED
    BY <2>1 DEF Stopped, Committed, Given, Session, Taken
<1>0. Fades(transition) /\ transition # "immediate" /\ from \in Nat
  BY <1>6 DEF Fades, Transitions
<1>1. /\ y.nextToken = t + 1 /\ y.raced = x.raced
      /\ Aims(p, idx, TrackAt(x.queue, idx), t, from, transition)
      /\ y.intent.kind = "Loading" /\ Says(To(x), To(y))
      /\ y.task # None /\ y.task.token = t /\ y.task.stage = "prepare"
  BY <1>0, StartDoes
<1>2. Near(x, m, v)
  BY LiveIsLoose DEF Here, Near
<1> HIDE DEF y
<1>3. Strange(y, m, To(y), engine, v)
  BY <1>1, <1>2, StartIsNear
<1>4. /\ p # None /\ p.token = t /\ p.from = from /\ p.stage = "Loading"
      /\ (p.gapless <=> transition = "gapless") /\ p.key \in Library /\ p.amid = {}
  BY <1>1 DEF Aims
<1>5. /\ \A i \in DOMAIN m : m[i].token # t
  BY NewToken
<1>7. Orderly(y, m, engine)
  BY <1>1, <1>2, <1>4, <1>6 DEF Near, Loose, Orderly
<1>8. ASSUME ~y.raced PROVE Claims(y, m, To(y), engine, v)
  <2>1. EndsStay(To(y), engine, v) /\ SeekOrder(To(y), engine)
    BY <1>1, <1>2, <1>8, SaysOrder DEF Near, Loose
  <2>2. /\ Rest(To(x), engine, from) /\ NoLoad(To(x), engine) /\ SeeksIn(To(x), {0, from})
        /\ Answered(x, m, from)
    BY <1>1, <1>6, <1>8 DEF Here, Live, Claims, CommittedClaim
  <2>3. NotSent(To(y), engine, from)
    BY <1>1, <2>2 DEF NotSent, Rest, NoLoad, Says
  <2>4. Answered(y, m, from)
    BY <1>1, <1>6, <2>2 DEF Answered
  <2>5. ~Replies(y) /\ \A r : ~Finished(m, t, r)
    BY <1>1, <1>5 DEF Replies, Finished
  <2>6. LoadingClaim(y, m, To(y), engine, v)
    BY <1>1, <1>4, <2>3, <2>4, <2>5 DEF LoadingClaim
  <2>7. /\ CommittedClaim(y, m, To(y), engine) /\ PastClaim(y, m, To(y), engine, v)
        /\ LateClaim(y, m, To(y), engine, v)
    <3>1. ~Past(y) /\ y.intent.kind = "Loading"
      BY <1>1, <1>4 DEF Past
    <3> QED
      BY <1>4, <3>1 DEF CommittedClaim, PastClaim, LateClaim
  <2> QED
    BY <2>1, <2>6, <2>7 DEF Claims
<1>9. Here(y, m, v)
  BY <1>3, <1>7, <1>8 DEF Here, Live
<1> QED
  BY <1>9 DEF y

\* It leaves the fields alone, and drops nothing.
LEMMA ChangesLive ==
  ASSUME NEW x, NEW y, NEW m, NEW v, Sane(x, m), Here(x, m, v), Alike(x, y),
         y.out = x.out \/ More(x.out, y.out, {"Pause", "Resume"})
  PROVE  Here(y, m, v)
<1> DEFINE ops == {"Pause", "Resume"}
<1>1. ops \subseteq Plain /\ ops \subseteq Tame
  BY DEF Plain, Tame
<1> HIDE DEF ops
<1>2. More(x.out, y.out, ops)
  <2>1. x.out \in Seq(ToSet(x.out))
    BY DEF Sane, Fresh
  <2>2. More(x.out, x.out, ops)
    BY <2>1, MoreSelf
  <2> QED
    BY <2>2 DEF ops
<1>3. Says(To(x), To(y)) /\ (Calm(To(x)) => Calm(To(y)))
  BY <1>1, <1>2, OutSays DEF Sane
<1> QED
  BY <1>3, AlikeIsLive DEF Here

\* It gives up whatever it was doing.
LEMMA QuitsLive ==
  ASSUME NEW x, NEW y, NEW m, NEW v, Sane(x, m), Near(x, m, v), More(x.out, y.out, Plain),
         y.nextToken = x.nextToken, y.task = x.task \/ y.task = None, x.raced => y.raced,
         y.pending = None, y.intent = Stopped
  PROVE  Here(y, m, v)
<1>1. Says(To(x), To(y))
  BY OutSays DEF Sane
<1>2. Near(y, m, v)
  BY <1>1, SaysLoose DEF Near
<1> QED
  BY <1>2, StoppedIsLive DEF Here, Near

LEMMA RefuseIsLive ==
  ASSUME NEW x, NEW m, NEW v, Sane(x, m), Near(x, m, v)
  PROVE  Here(RefuseLoad(x), m, v)
<1> DEFINE quit == Send(CancelLoadTask(x), "Stop")
           y == RefuseLoad(x)
<1>1. /\ DOMAIN quit = Fields /\ More(x.out, quit.out, Plain) /\ quit.task = None
      /\ quit.nextToken = x.nextToken /\ quit.raced = x.raced
  BY QuitsIsMore, QuitsPlain DEF Sane, Shaped, Fresh, Others, Plain
<1>2. y = [quit EXCEPT !.pending = None, !.intent = Stopped, !.phase = "Idle"]
  BY DEF RefuseLoad
<1> HIDE DEF quit, y
<1>3. /\ y.out = quit.out /\ y.task = None /\ y.nextToken = x.nextToken
      /\ y.raced = x.raced /\ y.pending = None /\ y.intent = Stopped
  BY <1>1, <1>2 DEF Fields
<1>4. Here(y, m, v)
  BY <1>1, <1>3, QuitsLive
<1> QED
  BY <1>4 DEF y

\* The queue is another one.
LEMMA QueueIsLive ==
  ASSUME NEW x, NEW m, NEW v, Sane(x, m), NEW queue
  PROVE  /\ Here(x, m, v) => Here(WithQueue(x, queue), m, v)
         /\ Near(x, m, v) => Near(WithQueue(x, queue), m, v)
<1> DEFINE y == WithQueue(x, queue)
<1>1. /\ y.pending = x.pending /\ y.intent = x.intent /\ y.nextToken = x.nextToken
      /\ y.task = x.task /\ y.out = x.out /\ y.raced = x.raced
  BY DEF Sane, Shaped, Fields, WithQueue
<1> HIDE DEF y
<1>2. Alike(x, y) /\ To(y) = To(x) /\ SamePending(x, y)
  BY <1>1 DEF Alike, SamePending, To
<1>3. Here(x, m, v) => Here(y, m, v)
  BY <1>1, <1>2, ChangesLive
<1>4. Near(x, m, v) => Near(y, m, v)
  BY <1>1, <1>2, SaysSelf, SaysLoose DEF Near
<1> QED
  BY <1>3, <1>4 DEF y

LEMMA ImmediateIsLive ==
  ASSUME NEW x, NEW m, NEW v, Good(x, m), Near(x, m, v), NEW queue, NEW idx,
         HasTrack(queue, idx) \/ Here(x, m, v)
  PROVE  Here(StartImmediateLoad(x, queue, idx), m, v)
<1> DEFINE moved == WithQueue(x, queue)
<1>1. Good(moved, m)
  BY QueueIsGood
<1>2. moved.queue = queue
  BY DEF WithQueue, Good, Sane, Shaped, Fields
<1>3. Near(moved, m, v)
  BY QueueIsLive DEF Good
<1>4. StartImmediateLoad(x, queue, idx) =
         IF Playable(moved, idx) THEN StartLoad(moved, idx, "immediate")
         ELSE IF HasTrack(queue, idx) THEN RefuseLoad(x) ELSE x
  BY DEF StartImmediateLoad, WithQueue
<1> HIDE DEF moved
<1>5. Here(StartLoad(moved, idx, "immediate"), m, v)
  BY <1>1, <1>3, ImmediateStarts DEF Good
<1>6. Here(RefuseLoad(x), m, v)
  BY RefuseIsLive DEF Good
<1> QED
  BY <1>2, <1>4, <1>5, <1>6

LEMMA TrackIsListed ==
  ASSUME NEW T, NEW q, GoodQueue(q, T), NEW pos \in Nat, HasTrack(q, pos)
  PROVE  TrackAt(q, pos) \in T
<1> DEFINE place == IF q.shuffle THEN q.order[pos + 1] ELSE pos
<1>1. q.items \in Seq(T) /\ q.order \in Seq(Nat)
  BY DEF GoodQueue, QueueRecord
<1>2. place < Len(q.items) /\ (q.shuffle => pos < Len(q.order))
  BY DEF HasTrack
<1>3. place \in Nat
  BY <1>1, <1>2
<1>4. TrackAt(q, pos) = q.items[place + 1]
  BY DEF TrackAt, PhysicalIndexOf
<1> HIDE DEF place
<1>5. place + 1 \in 1 .. Len(q.items)
  BY <1>1, <1>2, <1>3
<1> QED
  BY <1>1, <1>4, <1>5

LEMMA ArmIsLive ==
  ASSUME NEW x, NEW m, NEW v, Sane(x, m), Here(x, m, v), GoodQueue(x.queue, Library),
         x.pending = None, ~IsLoading(x), x.intent.token # 0 \/ x.raced,
         ShouldCrossfade(x) \/ ShouldPlayGapless(x)
  PROVE  Here(ArmTransition(x), m, v)
<1> DEFINE tr == IF ShouldCrossfade(x) THEN "crossfade" ELSE "gapless"
           idx == NextPosition(x)
<1>1. CASE idx = Nowhere \/ ~Playable(x, idx)
  BY <1>1 DEF ArmTransition
<1>2. CASE ~(idx = Nowhere \/ ~Playable(x, idx))
  <2>1. idx \in Nat /\ HasTrack(x.queue, idx)
    BY <1>2, NextPositionIs
  <2>2. TrackAt(x.queue, idx) \in Library
    BY <2>1, TrackIsListed
  <2>3. tr \in {"crossfade", "gapless"} /\ tr = mode
    BY DEF ShouldCrossfade, ShouldPlayGapless
  <2>4. ArmTransition(x) = StartLoad(x, idx, tr)
    BY <1>2 DEF ArmTransition
  <2> HIDE DEF tr, idx
  <2>5. Here(StartLoad(x, idx, tr), m, v)
    BY <2>1, <2>2, <2>3, DeferredStarts
  <2> QED
    BY <2>4, <2>5
<1> QED
  BY <1>1, <1>2

LEMMA ArmNowIsLive ==
  ASSUME NEW x, NEW m, NEW v, Sane(x, m), Here(x, m, v), GoodQueue(x.queue, Library), NEW near,
         mode = "gapless" /\ x.phase = "Playing" => x.intent.token # 0 \/ x.raced
  PROVE  Here(ArmGaplessNow(x, near), m, v)
BY ArmIsLive DEF ArmGaplessNow, ShouldPlayGapless, ShouldArm

\* After an edit.
LEMMA RearmIsLive ==
  ASSUME NEW x, NEW v, Good(x, mail), Here(x, mail, v), Whole(x), NEW near
  PROVE  Here(RearmGapless(x, near), mail, v)
<1> DEFINE y == RevertTransition(x)
<1>1. CASE x.pending = None \/ ~x.pending.gapless
  BY <1>1 DEF RearmGapless
<1>2. CASE x.pending # None /\ x.pending.gapless
  <2>1. x.pending.stage # "Fading"
    BY <1>2 DEF Here, Live, Orderly
  <2>2. Here(y, mail, v)
    BY <2>1, RevertIsLive DEF Good
  <2>3. Good(y, mail) /\ y.pending = None /\ (y.intent.token # 0 \/ y.raced)
    BY <1>2, RevertIsGood DEF Taken
  <2>4. GoodQueue(y.queue, Library)
    BY RevertKeeps DEF Whole, Keeps
  <2> HIDE DEF y
  <2>5. ShouldArm(y, near) => Here(ArmTransition(y), mail, v)
    BY <2>2, <2>3, <2>4, ArmIsLive DEF ShouldArm, Good
  <2> QED
    BY <2>2, <2>5 DEF RearmGapless, y
<1> QED
  BY <1>1, <1>2

\* What is left of the queue to play.
Filled(x) == x.pending # None => x.queue.items # <<>> \/ x.raced

LEMMA PlayNextIsLive ==
  ASSUME NEW x, NEW v, Good(x, mail), Here(x, mail, v), Whole(x), Filled(x)
  PROVE  Here(PlayNext(x), mail, v)
<1> DEFINE y == RevertTransition(x)
           q == y.queue
           idx == NextPosition(y)
           advanced == [PushHistory(q) EXCEPT !.current = idx]
           quit == Send(CancelLoadTask(y), "Pause")
           z == [quit EXCEPT !.pending = None, !.intent = Stopped,
                             !.phase = IF @ = "Ended" THEN @ ELSE "Paused"]
<1>1. Good(y, mail) /\ y.pending = None /\ q = x.queue
  BY RevertIsGood, RevertKeeps DEF Whole, Keeps
<1>2. Near(y, mail, v)
  BY RevertIsNear, LiveIsLoose DEF Here, Near, Good
<1>3. q.items = <<>> => Here(y, mail, v)
  BY <1>1, RevertIsLive DEF Filled, Good
<1>4. GoodQueue(q, Library)
  BY <1>1 DEF Whole
<1>5. PlayNext(x) = IF q.items = <<>> THEN y
                    ELSE IF idx # Nowhere THEN StartImmediateLoad(y, advanced, idx) ELSE z
  BY DEF PlayNext, y
<1> HIDE DEF y
<1>6. ASSUME idx # Nowhere PROVE HasTrack(advanced, idx)
  <2>1. HasTrack(q, idx)
    BY <1>4, <1>6, NextPositionIs
  <2>2. PushHistory(q) \in QueueRecord(Library) /\ SameTracks(PushHistory(q), q)
    BY <1>4, PushHistoryIs DEF GoodQueue
  <2> HIDE DEF q, idx
  <2>3. advanced.shuffle = q.shuffle /\ advanced.items = q.items /\ advanced.order = q.order
    BY <2>2 DEF QueueRecord, SameTracks
  <2> QED
    BY <2>1, <2>3 DEF HasTrack
<1>7. idx # Nowhere => Here(StartImmediateLoad(y, advanced, idx), mail, v)
  BY <1>1, <1>2, <1>6, ImmediateIsLive
<1>8. Here(z, mail, v)
  <2>1. /\ DOMAIN quit = Fields /\ More(y.out, quit.out, Plain) /\ quit.task = None
        /\ quit.nextToken = y.nextToken /\ quit.raced = y.raced
    BY <1>1, QuitsIsMore, QuitsPlain DEF Good, Sane, Shaped, Fresh, Others, Tame, Plain
  <2> HIDE DEF quit
  <2>2. /\ z.out = quit.out /\ z.task = None /\ z.nextToken = y.nextToken
        /\ z.raced = y.raced /\ z.pending = None /\ z.intent = Stopped
    BY <2>1 DEF Fields
  <2> HIDE DEF z
  <2> QED
    BY <1>1, <1>2, <2>1, <2>2, QuitsLive DEF Good
<1> QED
  BY <1>3, <1>5, <1>7, <1>8

\* A seek is one more command.
LEMMA SeekSays ==
  ASSUME NEW c, c \in Seq(ToSet(c)), NEW k, k.op = "Seek", NEW d, d = Append(c, k)
  PROVE  /\ \A u : SeekIn(d, u) <=> SeekIn(c, u) \/ u = k.token
         /\ \A t : LoadIn(d, t) <=> LoadIn(c, t)
         /\ \A t : LateIn(d, t) <=> LateIn(c, t)
         /\ NoLoadIn(c) => NoLoadIn(d) /\ AimedFirst(d)
         /\ \A t : LoadsAre(c, t) => LoadsAre(d, t)
         /\ \A U : SeeksIn(c, U) /\ k.token \in U => SeeksIn(d, U)
         /\ k.token = 0 /\ AimedFirst(c) => AimedFirst(d)
<1>1. /\ Len(c) \in Nat /\ DOMAIN d = 1 .. Len(c) + 1 /\ DOMAIN c = 1 .. Len(c)
      /\ \A i \in 1 .. Len(c) : d[i] = c[i]
      /\ d[Len(c) + 1] = k
  BY AppendMail
<1>2. /\ \A i \in DOMAIN c : i \in DOMAIN d /\ d[i] = c[i]
      /\ \A i \in DOMAIN d : (i \in DOMAIN c /\ d[i] = c[i]) \/ d[i] = k
      /\ \E i \in DOMAIN d : d[i] = k
  <2>1. Len(c) + 1 \in DOMAIN d /\ \A i \in DOMAIN d : i \in DOMAIN c \/ i = Len(c) + 1
    BY <1>1
  <2>2. \A i \in DOMAIN c : i \in DOMAIN d
    BY <1>1
  <2> QED
    BY <1>1, <2>1, <2>2
<1> HIDE DEF ToSet
<1>3. \A u : SeekIn(d, u) <=> SeekIn(c, u) \/ u = k.token
  BY <1>2 DEF SeekIn
<1>4. /\ \A t : LoadIn(d, t) <=> LoadIn(c, t)
      /\ \A t : LateIn(d, t) <=> LateIn(c, t)
  BY <1>2 DEF LoadIn, LateIn
<1>5. /\ NoLoadIn(c) => NoLoadIn(d) /\ AimedFirst(d)
      /\ \A t : LoadsAre(c, t) => LoadsAre(d, t)
      /\ \A U : SeeksIn(c, U) /\ k.token \in U => SeeksIn(d, U)
  BY <1>2 DEF NoLoadIn, AimedFirst, LoadsAre, SeeksIn
<1>6. k.token = 0 /\ AimedFirst(c) => AimedFirst(d)
  BY <1>2 DEF AimedFirst
<1> QED
  BY <1>3, <1>4, <1>5, <1>6

LEMMA SeekSends ==
  ASSUME NEW x, Good(x, mail)
  PROVE  LET y == RevertTransition(x)
             z == Seek(x)
             k == [op |-> "Seek", token |-> IF x.pending = None THEN 0 ELSE x.pending.from]
         IN  /\ To(y) \in Seq(ToSet(To(y))) /\ To(z) = Append(To(y), k)
             /\ z.pending = y.pending /\ z.intent = y.intent /\ z.nextToken = y.nextToken
             /\ z.task = y.task /\ z.raced = y.raced
<1> DEFINE y == RevertTransition(x)
           k == [op |-> "Seek", token |-> IF x.pending = None THEN 0 ELSE x.pending.from]
<1>1. Good(y, mail)
  BY RevertIsGood
<1> HIDE DEF y
<1>2. Seek(x) = [[y EXCEPT !.out = Append(@, k)] EXCEPT !.armed = 0]
  BY DEF Seek, SendSeek, y
<1> HIDE DEF k
<1>3. /\ Seek(x).pending = y.pending /\ Seek(x).intent = y.intent
      /\ Seek(x).nextToken = y.nextToken /\ Seek(x).task = y.task
      /\ Seek(x).raced = y.raced /\ Seek(x).out = Append(y.out, k)
  BY <1>1, <1>2 DEF Good, Sane, Shaped, Fields
<1>4. sent \in Seq(ToSet(sent)) /\ y.out \in Seq(ToSet(y.out))
  BY <1>1 DEF Good, Sane, Fresh
<1>5. To(y) \in Seq(ToSet(To(y))) /\ To(Seek(x)) = Append(To(y), k)
  BY <1>3, <1>4, ToAppend
<1> QED
  BY <1>3, <1>5 DEF y, k

\* The seek of a session that has no transition under way.
LEMMA PlainSeekIsLive ==
  ASSUME NEW x, NEW v, Good(x, mail), Here(x, mail, v), x.pending = None
  PROVE  Here(Seek(x), mail, v)
<1> DEFINE z == Seek(x)
           c == To(x)
           d == To(z)
           k == [op |-> "Seek", token |-> 0]
<1>1. /\ c \in Seq(ToSet(c)) /\ d = Append(c, k)
      /\ z.pending = None /\ z.intent = x.intent /\ z.nextToken = x.nextToken
      /\ z.task = x.task /\ z.raced = x.raced
  BY SeekSends DEF RevertTransition
<1>2. k.op = "Seek" /\ k.token = 0
  OBVIOUS
<1> HIDE DEF z, c, d, k
<1>3. /\ \A u : SeekIn(d, u) <=> SeekIn(c, u) \/ u = 0
      /\ \A t : LoadIn(d, t) <=> LoadIn(c, t)
      /\ \A t : LateIn(d, t) <=> LateIn(c, t)
      /\ NoLoadIn(c) => NoLoadIn(d)
      /\ \A t : LoadsAre(c, t) => LoadsAre(d, t)
      /\ \A U : SeeksIn(c, U) /\ 0 \in U => SeeksIn(d, U)
      /\ AimedFirst(c) => AimedFirst(d)
  BY <1>1, <1>2, SeekSays
<1>4. Live(x, mail, c, engine, v)
  BY DEF Here, c
<1>5. Strange(z, mail, d, engine, v)
  BY <1>1, <1>3, <1>4 DEF Live, Strange, NotYet, Unsaid
<1>6. Orderly(z, mail, engine)
  BY <1>1, <1>4 DEF Live, Orderly
<1>7. ASSUME ~z.raced PROVE Claims(z, mail, d, engine, v)
  <2>1. Claims(x, mail, c, engine, v)
    BY <1>1, <1>4, <1>7 DEF Live
  <2>2. EndsStay(d, engine, v) /\ SeekOrder(d, engine)
    BY <1>3, <2>1, EndsStayIs, SeekOrderIs DEF Claims
  <2>3. CommittedClaim(z, mail, d, engine)
    BY <1>1, <1>3, <2>1 DEF Claims, CommittedClaim, Rest, NoLoad, Answered
  <2>4. PastClaim(z, mail, d, engine, v) /\ LoadingClaim(z, mail, d, engine, v)
    BY <1>1 DEF PastClaim, Past, LoadingClaim
  <2>5. LateClaim(z, mail, d, engine, v)
    <3>1. \A t : Deferred(z, mail, d, engine, t) => Deferred(x, mail, c, engine, t)
      BY <1>1, <1>3 DEF Deferred
    <3> QED
      BY <1>1, <1>3, <2>1, <3>1 DEF Claims, LateClaim, IsLoading, OnlyLoad, NoLoad
  <2> QED
    BY <2>2, <2>3, <2>4, <2>5 DEF Claims
<1> QED
  BY <1>5, <1>6, <1>7 DEF Here, Live, d, z

\* Where a transition leaves its outgoing session, for a seek to go back to it.
Leaves(x, c, v, from) ==
    /\ NoLoad(c, engine) /\ SeeksIn(c, {0, from}) /\ Answered(x, mail, from)
    /\ engine.next = 0 /\ (engine.last = from => engine.fade = 0)
    /\ EndIn(v, from) => Base(engine, from)

LEMMA TransitionLeaves ==
  ASSUME NEW x, NEW v, Good(x, mail), Here(x, mail, v), x.pending # None,
         ~RevertTransition(x).raced
  PROVE  Leaves(RevertTransition(x), To(RevertTransition(x)), v, x.pending.from)
<1> DEFINE y == RevertTransition(x)
           from == x.pending.from
<1>1. /\ y.pending = None /\ y.intent = Committed(from)
      /\ x.pending.stage = "Fading" => y.out = x.out /\ y.task = x.task /\ (y.raced <=> x.raced)
  BY RevertDoes DEF Good
<1>5. ~x.raced
  BY RevertDoes DEF Good, Sane, Shaped
<1>2. from # 0
  BY <1>5 DEF Good, Sane, Typed, Given, Session, Taken
<1>3. CASE x.pending.stage = "Fading"
  <2>1. Claims(x, mail, To(x), engine, v) /\ Past(x) /\ Orderly(x, mail, engine)
    BY <1>1, <1>3 DEF Here, Live, Past
  <2> HIDE DEF y
  <2>2. To(y) = To(x) /\ y.task = x.task
    BY <1>1, <1>3 DEF To
  <2>3. Fade(To(x), engine, v, x.pending.token, from) /\ Answered(x, mail, from)
    BY <1>3, <2>1 DEF Claims, PastClaim
  <2>4. from # x.pending.token
    BY <2>1 DEF Orderly
  <2> HIDE DEF from
  <2> QED
    BY <2>2, <2>3, <2>4 DEF Leaves, Fade, Answered, NoSeek, SeeksIn, y, from
<1>4. CASE x.pending.stage # "Fading"
  <2>1. Here(y, mail, v)
    BY <1>4, RevertIsLive DEF Good
  <2> HIDE DEF y
  <2>2. Claims(y, mail, To(y), engine, v)
    BY <2>1 DEF Here, Live, y
  <2>3. /\ Rest(To(y), engine, from) /\ NoLoad(To(y), engine) /\ SeeksIn(To(y), {0, from})
        /\ Answered(y, mail, from)
    BY <1>1, <2>2 DEF Claims, CommittedClaim, Committed
  <2> HIDE DEF from
  <2>4. EndIn(v, from) => Base(engine, from)
    BY <1>2, <2>2, <2>3, EndsStayIs DEF Claims, Rest
  <2>5. engine.next = 0 /\ (engine.last = from => engine.fade = 0)
    BY <1>2, <2>2, <2>3, SeekOrderIs DEF Claims, Rest, Base
  <2> QED
    BY <2>3, <2>4, <2>5 DEF Leaves, y, from
<1> QED
  BY <1>3, <1>4

LEMMA SeekIsLive ==
  ASSUME NEW x, NEW v, Good(x, mail), Here(x, mail, v)
  PROVE  Here(Seek(x), mail, v)
<1>1. CASE x.pending = None
  BY <1>1, PlainSeekIsLive
<1>2. CASE x.pending # None
  <2> DEFINE y == RevertTransition(x)
             z == Seek(x)
             c == To(y)
             d == To(z)
             from == x.pending.from
             k == [op |-> "Seek", token |-> from]
  <2>1. /\ c \in Seq(ToSet(c)) /\ d = Append(c, k)
        /\ z.pending = y.pending /\ z.intent = y.intent /\ z.nextToken = y.nextToken
        /\ z.task = y.task /\ z.raced = y.raced
    BY <1>2, SeekSends
  <2>2. k.op = "Seek" /\ k.token = from
    OBVIOUS
  <2>3. y.pending = None /\ y.intent = Committed(from)
    BY <1>2, RevertDoes DEF Good
  <2>4. Loose(y, mail, c, engine, v)
    BY RevertIsNear, LiveIsLoose DEF Here, Near, Good
  <2>5. ~y.raced => Leaves(y, c, v, from)
    BY <1>2, TransitionLeaves
  <2>6. ~y.raced => from # 0
    <3>1. ~y.raced => ~x.raced
      BY <1>2, RevertDoes DEF Good, Sane, Shaped
    <3> QED
      BY <1>2, <3>1 DEF Good, Sane, Typed, Given, Session, Taken
  <2> HIDE DEF y, z, c, d, k, from
  <2>7. /\ \A u : SeekIn(d, u) <=> SeekIn(c, u) \/ u = from
        /\ \A t : LoadIn(d, t) <=> LoadIn(c, t)
        /\ NoLoadIn(c) => NoLoadIn(d) /\ AimedFirst(d)
        /\ \A U : SeeksIn(c, U) /\ from \in U => SeeksIn(d, U)
    BY <2>1, <2>2, SeekSays
  <2>8. Strange(z, mail, d, engine, v)
    BY <2>1, <2>4, <2>7 DEF Loose, Strange, NotYet, Unsaid
  <2>9. Orderly(z, mail, engine)
    BY <2>1, <2>4 DEF Loose, Orderly
  <2>10. ASSUME ~z.raced PROVE EndsStay(d, engine, v) /\ SeekOrder(d, engine)
    <3>1. Leaves(y, c, v, from) /\ EndsStay(c, engine, v) /\ SeekOrder(c, engine)
      BY <2>1, <2>4, <2>5, <2>10 DEF Loose
    <3>2. EndsStay(d, engine, v)
      BY <2>7, <3>1, EndsStayIs DEF Leaves
    <3>3. SeekOrder(d, engine)
      BY <2>7, <3>1, SeekOrderIs DEF Leaves, NoLoad
    <3> QED
      BY <3>2, <3>3
  <2>11. Loose(z, mail, d, engine, v)
    BY <2>8, <2>9, <2>10 DEF Loose
  <2>12. ASSUME ~z.raced
         PROVE  /\ Rest(d, engine, from) /\ NoLoad(d, engine) /\ SeeksIn(d, {0, from})
                /\ Answered(z, mail, from)
    <3>1. Leaves(y, c, v, from)
      BY <2>1, <2>5, <2>12
    <3> QED
      BY <2>1, <2>6, <2>7, <2>12, <3>1 DEF Leaves, Rest, NoLoad, Answered
  <2>13. Live(z, mail, d, engine, v)
    BY <2>1, <2>3, <2>11, <2>12, RestsLive
  <2> QED
    BY <2>13 DEF Here, z, d
<1> QED
  BY <1>1, <1>2

LEMMA PreviousIsLive ==
  ASSUME NEW x, NEW v, Good(x, mail), Here(x, mail, v), Whole(x), Filled(x), NEW rewind
  PROVE  Here(PlayPrevious(x, rewind), mail, v)
<1> DEFINE y == RevertTransition(x)
           q == y.queue
           back == PreviousTarget(q)
           moved == [q EXCEPT !.current = back, !.history = IF @ = <<>> THEN @ ELSE Front(@)]
<1>1. Good(y, mail) /\ q = x.queue
  BY RevertIsGood, RevertKeeps DEF Whole, Keeps
<1>2. Near(y, mail, v)
  BY RevertIsNear, LiveIsLoose DEF Here, Near, Good
<1>3. ASSUME x.pending # None, ~x.raced PROVE HasTrack(q, q.current)
  <2>1. GoodQueue(q, Library) /\ q.items # <<>>
    BY <1>1, <1>3 DEF Whole, Filled
  <2> HIDE DEF q
  <2>2. q.current \in Nat /\ q.current < Len(q.items)
    BY <2>1 DEF GoodQueue, QueueRecord, Pointing
  <2> QED
    BY <2>1, <2>2, SoundQueue DEF GoodQueue
<1>4. x.pending = None \/ x.pending.gapless \/ x.raced => Here(y, mail, v)
  BY RevertIsLive DEF Here, Live, Orderly, Good
<1>5. PlayPrevious(x, rewind) =
         IF x.pending # None /\ ~x.pending.gapless THEN StartImmediateLoad(y, q, q.current)
         ELSE IF rewind THEN Seek(y)
         ELSE IF back # Nowhere THEN StartImmediateLoad(y, moved, back) ELSE y
  BY DEF PlayPrevious
<1> HIDE DEF y, back, moved
<1>6. ASSUME x.pending # None PROVE Here(StartImmediateLoad(y, q, q.current), mail, v)
  <2>1. CASE HasTrack(q, q.current)
    BY <1>1, <1>2, <2>1, ImmediateIsLive
  <2>2. CASE ~HasTrack(q, q.current)
    <3>1. Here(y, mail, v)
      BY <1>3, <1>4, <1>6, <2>2
    <3>2. ~Playable([y EXCEPT !.queue = q], q.current)
      <4>1. [y EXCEPT !.queue = q].queue = q
        BY <1>1 DEF Good, Sane, Shaped, Fields
      <4> QED
        BY <2>2, <4>1 DEF Playable
    <3> QED
      BY <2>2, <3>1, <3>2 DEF StartImmediateLoad
  <2> QED
    BY <2>1, <2>2
<1>7. Here(y, mail, v) => /\ Here(Seek(y), mail, v)
                          /\ Here(StartImmediateLoad(y, moved, back), mail, v)
  BY <1>1, <1>2, SeekIsLive, ImmediateIsLive
<1> QED
  BY <1>4, <1>5, <1>6, <1>7

\* A phase, and a command that drops nothing.
LEMMA TellsLive ==
  ASSUME NEW x, NEW m, NEW v, Sane(x, m), Here(x, m, v), NEW op \in {"Pause", "Resume"}, NEW phase
  PROVE  Here([Send(x, op) EXCEPT !.phase = phase], m, v)
<1> DEFINE y == Send(x, op)
           z == [y EXCEPT !.phase = phase]
<1>1. /\ DOMAIN y = Fields /\ More(x.out, y.out, {"Pause", "Resume"})
      /\ y.pending = x.pending /\ y.intent = x.intent /\ y.nextToken = x.nextToken
      /\ y.task = x.task /\ y.raced = x.raced
  BY SendIsMore DEF Sane, Shaped, Fresh
<1> HIDE DEF y
<1>2. /\ z.out = y.out /\ z.pending = x.pending /\ z.intent = x.intent
      /\ z.nextToken = x.nextToken /\ z.task = x.task /\ z.raced = x.raced
  BY <1>1 DEF Fields
<1> HIDE DEF z
<1>3. Alike(x, z)
  BY <1>2 DEF Alike, SamePending
<1>4. Here(z, m, v)
  BY <1>1, <1>2, <1>3, ChangesLive
<1> QED
  BY <1>4 DEF y, z

LEMMA PauseIsLive ==
  ASSUME NEW x, NEW v, Good(x, mail), Here(x, mail, v)
  PROVE  Here(Pause(x), mail, v)
<1> DEFINE queued == x.pending # None /\ x.pending.stage = "Queued"
           cancelled == CancelLoadTask(x)
           quit == [cancelled EXCEPT !.intent = Stopped]
           y == IF ~IsLoading(x) /\ ~queued THEN x
                ELSE IF x.pending # None THEN RevertTransition(x) ELSE quit
           phase == IF y.phase = "Ended" THEN y.phase ELSE "Paused"
<1>1. Here(y, mail, v) /\ Good(y, mail)
  <2>1. CASE x.pending = None
    <3>1. /\ DOMAIN cancelled = Fields /\ More(x.out, cancelled.out, Plain)
          /\ cancelled.pending = x.pending /\ cancelled.nextToken = x.nextToken
          /\ cancelled.task = None /\ cancelled.raced = x.raced /\ cancelled.phase = x.phase
          /\ cancelled.armed = x.armed /\ More(x.out, cancelled.out, Others)
          /\ cancelled.forsaken = x.forsaken
      BY CancelIsMore, QuitsPlain DEF Good, Sane, Shaped, Fresh
    <3> HIDE DEF cancelled
    <3>2. /\ DOMAIN quit = Fields /\ quit.pending = None /\ quit.nextToken = x.nextToken
          /\ quit.task = None /\ quit.out = cancelled.out /\ quit.raced = x.raced
          /\ quit.intent = Stopped /\ quit.phase = x.phase /\ quit.armed = x.armed
          /\ quit.forsaken = x.forsaken
      BY <2>1, <3>1 DEF Fields
    <3> HIDE DEF quit
    <3>3. Near(x, mail, v)
      BY LiveIsLoose DEF Here, Near
    <3>4. Here(quit, mail, v)
      BY <3>1, <3>2, <3>3, QuitsLive DEF Good
    <3>5. Good(quit, mail)
      BY <3>1, <3>2, EndsGood DEF Good, Sane, Typed
    <3> QED
      BY <2>1, <3>4, <3>5
  <2>2. CASE x.pending # None
    <3>1. ASSUME IsLoading(x) \/ queued PROVE x.pending.stage # "Fading" \/ x.raced
      <4>1. x.intent.kind = "Loading" \/ x.pending.stage = "Queued"
        BY <3>1 DEF IsLoading
      <4>2. x.pending.stage = "Fading" =>
               \/ x.intent = Committed(x.pending.token) \/ x.intent = Stopped
               \/ x.raced
        BY <2>2 DEF Good, Sane, Intended, Taken
      <4> QED
        BY <4>1, <4>2 DEF Committed, Stopped
    <3>2. x.pending.stage # "Fading" \/ x.raced => Here(RevertTransition(x), mail, v)
      BY RevertIsLive DEF Good
    <3> QED
      BY <2>2, <3>1, <3>2, RevertIsGood
  <2> QED
    BY <2>1, <2>2
<1>2. Pause(x) = [Send(y, "Pause") EXCEPT !.phase = IF @ = "Ended" THEN @ ELSE "Paused"]
  BY DEF Pause
<1> HIDE DEF y
<1>3. Send(y, "Pause").phase = y.phase
  BY <1>1, SendIsMore DEF Good, Sane, Shaped, Fresh
<1>4. Pause(x) = [Send(y, "Pause") EXCEPT !.phase = phase]
  BY <1>2, <1>3
<1> HIDE DEF phase
<1> QED
  BY <1>1, <1>4, TellsLive DEF Good

\* What takes the intent has raced.
LEMMA TakeUpIsLive ==
  ASSUME NEW x, NEW m, NEW v, Sane(x, m), Here(x, m, v), NEW t
  PROVE  Here(TakeUp(x, t), m, v)
<1> DEFINE y == TakeUp(x, t)
           p == [x.pending EXCEPT !.amid = @ \cup {"Play"}]
           pending == IF x.pending = None THEN None ELSE p
           forsaken == IF x.pending = None THEN x.forsaken
                       ELSE x.forsaken \cup {x.pending.token}
<1>1. CASE t = 0 \/ Committed(t) = x.intent
  BY <1>1 DEF TakeUp
<1>2. CASE ~(t = 0 \/ Committed(t) = x.intent)
  <2>1. y = [x EXCEPT !.intent = Committed(t), !.raced = TRUE, !.forsaken = forsaken,
                      !.pending = pending]
    BY <1>2 DEF TakeUp
  <2>2. x.pending # None =>
           /\ p.token = x.pending.token /\ p.from = x.pending.from
           /\ p.stage = x.pending.stage /\ p.gapless = x.pending.gapless
           /\ p.key = x.pending.key
    BY DEF Sane, Shaped, PendingFields
  <2> HIDE DEF p, forsaken, y
  <2>3. /\ y.pending = pending /\ y.raced /\ y.nextToken = x.nextToken
        /\ y.task = x.task /\ y.out = x.out
    BY <2>1 DEF Sane, Shaped, Fields
  <2>4. y.pending = None \/ SamePending(x, y)
    BY <2>2, <2>3 DEF SamePending
  <2>5. To(y) = To(x)
    BY <2>3 DEF To
  <2>6. Near(x, m, v)
    BY LiveIsLoose DEF Here, Near
  <2>7. Near(y, m, v)
    BY <2>3, <2>4, <2>5, <2>6, SaysSelf, SaysLoose DEF Near
  <2> QED
    BY <2>3, <2>7, RacedIsLive DEF y
<1> QED
  BY <1>1, <1>2

LEMMA ResumeIsLive ==
  ASSUME NEW x, NEW m, NEW v, Good(x, m), Here(x, m, v), x.pending = None \/ "Play" \in Hasty,
         Before(x, SessionToken(engine))
  PROVE  Here(Resume(x), m, v)
<1> DEFINE t == SessionToken(engine)
           told == Send(x, "Resume")
           taken == TakeUp(told, t)
           resumed == [taken EXCEPT !.phase = "Playing"]
<1>1. /\ DOMAIN told = Fields /\ More(x.out, told.out, {"Pause", "Resume"})
      /\ told.phase = x.phase /\ told.pending = x.pending /\ told.nextToken = x.nextToken
  BY SendIsMore DEF Good, Sane, Shaped, Fresh
<1>2. Resume(x) \in {StartLoad(x, x.queue.current, "immediate"), RefuseLoad(x), x, resumed}
  BY DEF Resume
<1>3. told = [told EXCEPT !.phase = x.phase]
  <2>1. told = [told EXCEPT !.out = @]
    BY DEF Send
  <2> HIDE DEF told
  <2> QED
    BY <1>1, <2>1 DEF Fields
<1>4. Good(told, m) /\ Here(told, m, v)
  <2>1. Good([told EXCEPT !.phase = x.phase], m)
    BY TellsGood DEF Good, Sane, Typed, Tame
  <2>2. Here([told EXCEPT !.phase = x.phase], m, v)
    BY TellsLive DEF Good
  <2> HIDE DEF told
  <2> QED
    BY <1>3, <2>1, <2>2
<1>5. Good(taken, m) /\ Here(taken, m, v)
  <2>1. Before(told, t)
    BY <1>1 DEF Before
  <2> HIDE DEF told, t
  <2> QED
    BY <1>1, <1>4, <2>1, TakeUpIsGood, TakeUpIsLive DEF Good
<1> HIDE DEF taken
<1>6. Near(x, m, v)
  BY LiveIsLoose DEF Here, Near
<1>7. Here(resumed, m, v)
  <2>1. /\ resumed.out = taken.out /\ resumed.pending = taken.pending
        /\ resumed.intent = taken.intent /\ resumed.nextToken = taken.nextToken
        /\ resumed.task = taken.task /\ resumed.raced = taken.raced
    BY <1>5 DEF Good, Sane, Shaped, Fields
  <2> HIDE DEF resumed
  <2>2. Alike(taken, resumed)
    BY <2>1 DEF Alike, SamePending
  <2> QED
    BY <1>5, <2>1, <2>2, ChangesLive DEF Good
<1>8. Here(StartLoad(x, x.queue.current, "immediate"), m, v)
  BY <1>6, ImmediateStarts DEF Good
<1>9. Here(RefuseLoad(x), m, v)
  BY <1>6, RefuseIsLive DEF Good
<1> QED
  BY <1>2, <1>7, <1>8, <1>9

LEMMA StopIsLive ==
  ASSUME NEW x, NEW m, NEW v, Sane(x, m), Near(x, m, v)
  PROVE  Here(Stop(x), m, v)
<1> DEFINE quit == Send(CancelLoadTask(x), "Stop")
           y == Stop(x)
<1>1. /\ DOMAIN quit = Fields /\ More(x.out, quit.out, Plain) /\ quit.task = None
      /\ quit.nextToken = x.nextToken /\ quit.raced = x.raced
  BY QuitsIsMore, QuitsPlain DEF Sane, Shaped, Fresh, Others, Plain
<1>2. y = [quit EXCEPT !.pending = None, !.armed = 0, !.intent = Stopped, !.phase = "Idle"]
  BY DEF Stop
<1> HIDE DEF quit, y
<1>3. /\ y.out = quit.out /\ y.task = None /\ y.nextToken = x.nextToken
      /\ y.raced = x.raced /\ y.pending = None /\ y.intent = Stopped
  BY <1>1, <1>2 DEF Fields
<1>4. Here(y, m, v)
  BY <1>1, <1>3, QuitsLive
<1> QED
  BY <1>4 DEF y

-----------------------------------------------------------------------------
(* Edits.                                                                    *)

LEMMA MovesLive ==
  ASSUME NEW x, NEW m, NEW v, Sane(x, m), Here(x, m, v), x.pending # None,
         x.pending.gapless \in BOOLEAN, NEW to \in Nat
  PROVE  Here([x EXCEPT !.pending.to = to], m, v)
<1> DEFINE y == [x EXCEPT !.pending.to = to]
           p == [x.pending EXCEPT !.to = to]
<1>1. /\ y.intent = x.intent /\ y.nextToken = x.nextToken
      /\ y.task = x.task /\ y.out = x.out /\ y.raced = x.raced
      /\ y.pending = p
  BY DEF Sane, Shaped, Fields
<1>2. DOMAIN x.pending = PendingFields
  BY DEF Sane, Shaped
<1>3. /\ DOMAIN p = PendingFields /\ p.to = to /\ p.stage = x.pending.stage
      /\ p.token = x.pending.token /\ p.from = x.pending.from
      /\ p.gapless = x.pending.gapless /\ p.key = x.pending.key
  BY <1>2 DEF PendingFields
<1>4. p.amid = x.pending.amid
  BY <1>2 DEF PendingFields
<1>5. ASSUME ~x.raced PROVE p # None
  <2>1. /\ x.pending.key \in ToSet(Tracks) \cup {NewTrack} /\ x.pending.token \in Nat
        /\ x.pending.from \in Nat /\ x.pending.stage \in {"Loading", "Fading", "Queued"}
        /\ x.pending.amid = {}
    BY <1>5 DEF Here, Live, Orderly, Library, Sane, Shaped, Typed, Given, Session
  <2>2. p = [to |-> to, key |-> x.pending.key, token |-> x.pending.token,
             from |-> x.pending.from, stage |-> x.pending.stage,
             gapless |-> x.pending.gapless, amid |-> x.pending.amid]
    BY <1>2 DEF PendingFields
  <2> QED
    BY <2>1, <2>2, NoneIsNothing
<1> HIDE DEF y, p
<1>6. p = None \/ SamePending(x, y)
  BY <1>1, <1>3, <1>4 DEF SamePending
<1>7. CASE ~x.raced
  <2>1. Alike(x, y)
    BY <1>1, <1>5, <1>6, <1>7 DEF Alike
  <2>2. Here(y, m, v)
    BY <1>1, <2>1, ChangesLive
  <2> QED
    BY <2>2 DEF y
<1>8. CASE x.raced
  <2>1. Near(x, m, v) /\ To(y) = To(x)
    BY <1>1, LiveIsLoose DEF Here, Near, To
  <2>2. Near(y, m, v)
    BY <1>1, <1>6, <2>1, SaysSelf, SaysLoose DEF Near
  <2>3. Here(y, m, v)
    BY <1>1, <1>8, <2>2, RacedIsLive
  <2> QED
    BY <2>3 DEF y
<1> QED
  BY <1>7, <1>8

\* With a transition armed, an insertion races.
LEMMA InsertionIsLive ==
  ASSUME NEW x, NEW m, NEW v, Good(x, m), Here(x, m, v), NEW queue
  PROVE  Here(WithInsertion(x, queue), m, v)
<1> DEFINE w == WithQueue(x, queue)
           p == [x.pending EXCEPT !.amid = @ \cup {"Insert"}]
           y == [w EXCEPT !.pending.amid = @ \cup {"Insert"}, !.raced = TRUE]
<1>1. Good(w, m) /\ Here(w, m, v) /\ w.pending = x.pending
  BY QueueIsGood, QueueIsLive DEF Good
<1>2. WithInsertion(x, queue) = IF x.pending = None THEN w ELSE y
  BY DEF WithInsertion
<1> HIDE DEF w
<1>3. CASE x.pending # None
  <2>1. /\ y.pending = p /\ y.raced /\ y.nextToken = w.nextToken
        /\ y.task = w.task /\ y.out = w.out
    BY <1>1 DEF Good, Sane, Shaped, Fields
  <2>2. /\ p.token = x.pending.token /\ p.from = x.pending.from
        /\ p.stage = x.pending.stage /\ p.gapless = x.pending.gapless
        /\ p.key = x.pending.key
    BY <1>3 DEF Good, Sane, Shaped, PendingFields
  <2> HIDE DEF p, y
  <2>3. y.pending = None \/ SamePending(w, y)
    BY <1>1, <1>3, <2>1, <2>2 DEF SamePending
  <2>4. Near(w, m, v) /\ To(y) = To(w)
    BY <1>1, <2>1, LiveIsLoose DEF Here, Near, To
  <2>5. Near(y, m, v)
    BY <2>1, <2>3, <2>4, SaysSelf, SaysLoose DEF Near
  <2> QED
    BY <1>2, <1>3, <2>1, <2>5, RacedIsLive
<1> QED
  BY <1>1, <1>2, <1>3

LEMMA EditedIsLive ==
  ASSUME NEW x, NEW v, Good(x, mail), Here(x, mail, v), Whole(x), NEW kind \in Edits,
         NEW y \in Edited(x, kind)
  PROVE  Here(y, mail, v)
<1> DEFINE q == x.queue
<1>0. /\ GoodQueue(q, Library)
      /\ x.pending # None => x.pending.to \in Nat /\ x.pending.gapless \in BOOLEAN
  BY DEF Whole
<1>1. \A queue : Here(WithQueue(x, queue), mail, v)
  BY QueueIsLive DEF Good
<1>2. CASE kind \in {"Insert", "PlayNext", "Append", "Loop"}
  <2>1. CASE kind = "Loop"
    <3>1. Edited(x, kind) = {WithQueue(x, [x.queue EXCEPT !.loop = loop]) : loop \in LoopModes}
      BY <2>1 DEF Edited
    <3>2. \E queue : y = WithQueue(x, queue)
      BY <3>1
    <3> QED
      BY <1>1, <3>2
  <2>2. CASE kind \in {"PlayNext", "Append"}
    BY <1>1, <2>2 DEF Edited
  <2>3. CASE kind = "Insert"
    <3>1. \E queue : y = WithInsertion(x, queue)
      BY <2>3 DEF Edited
    <3> QED
      BY <3>1, InsertionIsLive
  <2> QED
    BY <1>2, <2>1, <2>2, <2>3
<1>3. CASE kind \in {"ClearUpcoming", "ReplaceUpcoming", "ShuffleUpcoming"}
  <2> DEFINE u == UpcomingFrom(x)
             r == RevertTransition(x)
  <2>1. u.x = x \/ (u.x = r /\ x.pending # None /\ x.pending.stage = "Loading")
    <3> DEFINE c == x.queue.current
               fading == x.pending # None /\ ~x.pending.gapless
    <3>1. u = CASE fading /\ x.pending.to > c -> [x |-> x, from |-> x.pending.to + 1]
                [] fading /\ x.pending.to <= c /\ x.pending.stage = "Loading" ->
                      [x |-> r, from |-> c + 1]
                [] OTHER -> [x |-> x, from |-> c + 1]
      BY DEF UpcomingFrom
    <3>2. c \in Nat /\ (fading => x.pending.to \in Nat)
      BY <1>0 DEF GoodQueue, QueueRecord
    <3> HIDE DEF u, r, c
    <3>3. CASE fading /\ x.pending.to > c
      BY <3>1, <3>2, <3>3
    <3>4. CASE fading /\ x.pending.to <= c /\ x.pending.stage = "Loading"
      BY <3>1, <3>2, <3>4
    <3>5. CASE /\ ~(fading /\ x.pending.to > c)
               /\ ~(fading /\ x.pending.to <= c /\ x.pending.stage = "Loading")
      BY <3>1, <3>5
    <3> QED
      BY <3>3, <3>4, <3>5
  <2>2. Here(u.x, mail, v) /\ Sane(u.x, mail)
    BY <2>1, RevertIsLive, RevertIsGood DEF Good
  <2>3. \A queue : Here(WithQueue(u.x, queue), mail, v)
    BY <2>2, QueueIsLive
  <2> HIDE DEF u, r
  <2>4. \E queue : y = WithQueue(UpcomingFrom(x).x, queue)
    BY <1>3 DEF Edited
  <2> QED
    BY <2>3, <2>4 DEF u
<1>4. \A queue : /\ Good(WithQueue(x, queue), mail) /\ WithQueue(x, queue).pending = x.pending
  BY QueueIsGood
<1>5. ASSUME x.pending # None, NEW queue, NEW to \in Nat
      PROVE  Here([WithQueue(x, queue) EXCEPT !.pending.to = to], mail, v)
  <2> DEFINE w == WithQueue(x, queue)
  <2>1. Sane(w, mail) /\ w.pending = x.pending /\ Here(w, mail, v)
    BY <1>1, <1>4 DEF Good
  <2> HIDE DEF w
  <2>2. Here([w EXCEPT !.pending.to = to], mail, v)
    BY <1>0, <1>5, <2>1, MovesLive
  <2> QED
    BY <2>2 DEF w
<1>6. CASE kind = "Move"
  <2>1. PICK i \in IndexSet(q), j \in IndexSet(q) :
           y = Remapped(WithQueue(x, MoveItem(q, i, j)), i, j)
    BY <1>6 DEF Edited
  <2> DEFINE r == MoveItem(q, i, j)
             w == WithQueue(x, r)
             to == RemapQueueIndex(x.pending.to, i, j)
  <2>2. w.pending = x.pending /\ DOMAIN w = Fields /\ Here(w, mail, v)
    BY <1>1, <1>4 DEF Good, Sane, Shaped
  <2>3. CASE x.pending = None
    BY <2>1, <2>2, <2>3 DEF Remapped
  <2>4. CASE x.pending # None
    <3>1. to \in Nat
      BY <1>0, <2>4, MoveKeeps
    <3>2. DOMAIN x.pending = PendingFields
      BY <2>4 DEF Whole
    <3> HIDE DEF r
    <3>3. y = [w EXCEPT !.pending.to = RemapQueueIndex(@, i, j)]
      BY <2>1, <2>2, <2>4 DEF Remapped, r
    <3> HIDE DEF w
    <3>4. y = [w EXCEPT !.pending.to = to]
      BY <2>2, <3>2, <3>3 DEF Fields, PendingFields
    <3> HIDE DEF to
    <3> QED
      BY <1>5, <2>4, <3>1, <3>4 DEF w
  <2> QED
    BY <2>3, <2>4
<1>7. CASE kind = "Remove"
  <2>1. PICK i \in IndexSet(q) : y = Closed(WithQueue(x, RemoveEntry(q, i)), i)
    BY <1>7 DEF Edited
  <2> DEFINE r == RemoveEntry(q, i)
             w == WithQueue(x, r)
             to == x.pending.to - 1
  <2>2. w.pending = x.pending /\ DOMAIN w = Fields /\ Here(w, mail, v)
    BY <1>1, <1>4 DEF Good, Sane, Shaped
  <2> HIDE DEF r
  <2>3. CASE x.pending = None \/ ~(i < x.pending.to)
    BY <2>1, <2>2, <2>3 DEF Closed, r
  <2>4. CASE x.pending # None /\ i < x.pending.to
    <3>1. i \in Nat
      BY <1>0, SoundQueue DEF IndexSet, GoodQueue
    <3>2. to \in Nat /\ DOMAIN x.pending = PendingFields
      BY <1>0, <2>4, <3>1 DEF Whole
    <3>3. y = [w EXCEPT !.pending.to = @ - 1]
      BY <2>1, <2>2, <2>4 DEF Closed, r
    <3> HIDE DEF w
    <3>4. y = [w EXCEPT !.pending.to = to]
      BY <2>2, <3>2, <3>3 DEF Fields, PendingFields
    <3> HIDE DEF to
    <3> QED
      BY <1>5, <2>4, <3>2, <3>4 DEF w
  <2> QED
    BY <2>3, <2>4
<1>8. CASE kind = "Shuffle"
  <2>1. PICK r \in ToggleShuffle(q) : y = Reshuffled(x, r)
    BY <1>8 DEF Edited
  <2>2. CASE x.pending = None \/ ~HasTrack(q, x.pending.to)
    BY <1>1, <2>1, <2>2 DEF Reshuffled
  <2>3. CASE ~(x.pending = None \/ ~HasTrack(q, x.pending.to))
    <3> DEFINE to == PositionOf(r, PhysicalIndexOf(q, x.pending.to))
    <3>1. to \in Nat
      BY <1>0, <2>3, ShuffleKeeps
    <3>2. y = [WithQueue(x, r) EXCEPT !.pending.to = to]
      BY <2>1, <2>3 DEF Reshuffled
    <3> HIDE DEF to
    <3> QED
      BY <1>5, <2>3, <3>1, <3>2
  <2> QED
    BY <2>2, <2>3
<1> QED
  BY <1>2, <1>3, <1>6, <1>7, <1>8 DEF Edits

LEMMA JumpsPhysicalIsLive ==
  ASSUME NEW x, NEW m, NEW v, Good(x, m), Near(x, m, v), NEW queue
  PROVE  Here(JumpsPhysical(x, queue), m, v)
<1> DEFINE moved == WithQueue(x, queue)
<1>1. Good(moved, m) /\ Near(moved, m, v)
  BY QueueIsGood, QueueIsLive DEF Good
<1> HIDE DEF moved
<1>2. Here(StartLoad(moved, queue.current, "immediate"), m, v)
  BY <1>1, ImmediateStarts DEF Good
<1>3. Here(RefuseLoad(moved), m, v)
  BY <1>1, RefuseIsLive DEF Good
<1> QED
  BY <1>2, <1>3 DEF JumpsPhysical, moved

LEMMA AskedIsLive ==
  ASSUME NEW x, NEW v, Good(x, mail), Here(x, mail, v), Firm(x), Filled(x),
         NEW c \in Requests \cup Edits, NEW near,
         Before(x, SessionToken(engine)),
         c = "Play" => x.pending = None \/ "Play" \in Hasty, NEW y \in Asked(x, c, near)
  PROVE  Here(y, mail, v)
<1>0. Near(x, mail, v) /\ Whole(x)
  BY LiveIsLoose DEF Here, Near, Firm
<1>1. CASE c \in Edits
  <2>1. y \in {RearmGapless(z, near) : z \in Edited(x, c)}
    BY <1>1 DEF Edits, Asked
  <2>2. PICK z \in Edited(x, c) : y = RearmGapless(z, near)
    BY <2>1
  <2>3. Good(z, mail) /\ Here(z, mail, v)
    BY <1>0, <1>1, <2>2, EditedIsGood, EditedIsLive
  <2>4. Whole(z)
    BY <1>1, <2>2, EditedIsFirm DEF Edit
  <2> QED
    BY <2>2, <2>3, <2>4, RearmIsLive
<1>2. \A queue, idx : Here(StartImmediateLoad(x, queue, idx), mail, v)
  BY <1>0, ImmediateIsLive
<1>3. CASE c = "Jump"
  <2>1. \E q \in UNION {JumpToPosition(x.queue, i) : i \in IndexSet(x.queue)} :
           y = StartImmediateLoad(x, q, q.current)
    BY <1>3 DEF Asked, Edits
  <2> QED
    BY <1>2, <2>1
<1>4. CASE c = "Play"
  BY <1>4, ResumeIsLive DEF Asked, Edits
<1>5. CASE c = "Previous"
  BY <1>0, <1>5, PreviousIsLive DEF Asked, Edits
<1>6. CASE c = "JumpPhysical"
  <2>1. \E queue : y = JumpsPhysical(x, queue)
    BY <1>6 DEF Asked, Edits
  <2> QED
    BY <1>0, <2>1, JumpsPhysicalIsLive
<1>7. CASE c = "Replace"
  <2>1. \/ \E queue : y = Stop(WithQueue(x, queue))
        \/ \E queue : y = StartImmediateLoad(x, queue, queue.current)
    BY <1>7 DEF Asked, Edits, Replaced
  <2>2. \A queue : Sane(WithQueue(x, queue), mail) /\ Near(WithQueue(x, queue), mail, v)
    BY <1>0, QueueIsGood, QueueIsLive DEF Good
  <2> QED
    BY <1>2, <2>1, <2>2, StopIsLive
<1>8. CASE c = "Next"
  BY <1>0, <1>8, PlayNextIsLive DEF Asked, Edits
<1>9. CASE c \in {"Pause", "Stop", "Seek"}
  BY <1>0, <1>9, PauseIsLive, StopIsLive, SeekIsLive DEF Asked, Edits, Good
<1> QED
  BY <1>1, <1>3, <1>4, <1>5, <1>6, <1>7, <1>8, <1>9 DEF Requests

-----------------------------------------------------------------------------
(* The mail.  Of full, its first message k is opened, and m is the rest.     *)

Unpacked(x, full, m, k, v) == /\ Popped(full, m, k) /\ Opened(x, m, k)
                           /\ Live(x, full, To(x), engine, v)

\* A load is one more command.
LEMMA LoadSays ==
  ASSUME NEW c, c \in Seq(ToSet(c)), NEW k, k.op = "Load", NEW d, d = Append(c, k)
  PROVE  /\ \A u : SeekIn(d, u) <=> SeekIn(c, u)
         /\ \A t : LoadIn(d, t) => LoadIn(c, t) \/ t = k.token
         /\ \A t : LateIn(d, t) => LateIn(c, t) \/ (t = k.token /\ k.transition # "immediate")
         /\ LoadsAre(c, k.token) => LoadsAre(d, k.token)
         /\ NoLoadIn(c) => LoadsAre(d, k.token) /\ SeeksFirst(d)
         /\ \A U : SeeksIn(c, U) => SeeksIn(d, U)
         /\ NoSeek(c) => NoSeek(d)
         /\ AimedFirst(c) => AimedFirst(d)
<1>1. /\ Len(c) \in Nat /\ DOMAIN d = 1 .. Len(c) + 1 /\ DOMAIN c = 1 .. Len(c)
      /\ \A i \in 1 .. Len(c) : d[i] = c[i]
      /\ d[Len(c) + 1] = k
  BY AppendMail
<1>2. /\ \A i \in DOMAIN c : i \in DOMAIN d /\ d[i] = c[i]
      /\ \A i \in DOMAIN d : (i \in DOMAIN c /\ d[i] = c[i]) \/ (i = Len(c) + 1 /\ d[i] = k)
      /\ \A i \in DOMAIN c : i < Len(c) + 1
  <2>1. \A i \in DOMAIN d : i \in DOMAIN c \/ i = Len(c) + 1
    BY <1>1
  <2>2. \A i \in DOMAIN c : i \in DOMAIN d /\ i < Len(c) + 1
    BY <1>1
  <2> QED
    BY <1>1, <2>1, <2>2
<1> HIDE DEF ToSet
<1>3. \A u : SeekIn(d, u) <=> SeekIn(c, u)
  BY <1>2 DEF SeekIn
<1>4. /\ \A t : LoadIn(d, t) => LoadIn(c, t) \/ t = k.token
      /\ \A t : LateIn(d, t) => LateIn(c, t) \/ (t = k.token /\ k.transition # "immediate")
  BY <1>2 DEF LoadIn, LateIn
<1>5. /\ LoadsAre(c, k.token) => LoadsAre(d, k.token)
      /\ NoLoadIn(c) => LoadsAre(d, k.token)
      /\ \A U : SeeksIn(c, U) => SeeksIn(d, U)
      /\ NoSeek(c) => NoSeek(d)
  BY <1>2 DEF NoLoadIn, LoadsAre, SeeksIn, NoSeek
<1>6. NoLoadIn(c) => SeeksFirst(d)
  BY <1>2 DEF NoLoadIn, SeeksFirst
<1>7. AimedFirst(c) => AimedFirst(d)
  BY <1>2 DEF AimedFirst
<1> QED
  BY <1>3, <1>4, <1>5, <1>6, <1>7

\* What is opened is about a load that has not been answered.
LEMMA MailIsLoading ==
  ASSUME NEW x, NEW full, NEW m, NEW k, NEW v, Unpacked(x, full, m, k, v), x.intent.token = k.token
  PROVE  /\ x.raced \/ IsLoading(x)
         /\ x.pending # None /\ ~x.raced => /\ ~Past(x) /\ x.pending.token = k.token
                                            /\ IsLoading(x) /\ x.intent.deferred
                                            /\ x.intent.from = x.pending.from
<1>1. \E i \in DOMAIN full : full[i].token = k.token
  BY DEF Unpacked, Popped
<1>2. k.token # 0
  BY DEF Unpacked, Opened, Given
<1>3. x.intent # Stopped
  BY <1>2 DEF Stopped
<1>4. ASSUME x.pending # None, ~x.raced
      PROVE  /\ ~Past(x) /\ x.pending.token = k.token
             /\ IsLoading(x) /\ x.intent.deferred /\ x.intent.from = x.pending.from
  <2>1. x.intent = Loading(x.pending.token, TRUE, x.pending.from)
        \/ x.intent = Committed(x.pending.token)
    BY <1>3, <1>4 DEF Unpacked, Opened, Sane, Intended, Taken
  <2>2. x.pending.token = k.token
    BY <2>1 DEF Loading, Committed
  <2>3. ~Past(x)
    BY <2>2 DEF Unpacked, Opened
  <2>4. x.intent = Loading(x.pending.token, TRUE, x.pending.from)
    BY <1>3, <1>4, <2>3 DEF Unpacked, Opened, Sane, Intended, Taken, Past
  <2> QED
    BY <2>2, <2>3, <2>4 DEF Loading, IsLoading
<1>5. ASSUME ~x.raced, ~IsLoading(x) PROVE FALSE
  <2>1. x.pending = None
    BY <1>4, <1>5
  <2>2. x.intent.kind = "Committed"
    BY <1>3, <1>5 DEF Unpacked, Opened, Sane, Typed, IsLoading, Committed, Loading
  <2>3. Answered(x, full, k.token)
    BY <1>5, <2>1, <2>2 DEF Unpacked, Live, Claims, CommittedClaim
  <2> QED
    BY <1>1, <2>3 DEF Answered
<1> QED
  BY <1>4, <1>5

LEMMA FinishedIsHead ==
  ASSUME NEW x, NEW full, NEW m, NEW k, NEW v, Unpacked(x, full, m, k, v)
  PROVE  /\ \A r : Finished(full, k.token, r) => k.type = "LoadFinished" /\ k.result = r
         /\ \A r : ~Finished(m, k.token, r)
         /\ ~NotYet(x, m, k.token)
         /\ x.task # None => x.task.token # k.token
<1>1. /\ \A i \in DOMAIN m : m[i].token # k.token
      /\ x.task # None => x.task.token # k.token
  BY DEF Unpacked, Opened, Answered
<1>2. \A r : Finished(full, k.token, r) => k.type = "LoadFinished" /\ k.result = r
  BY <1>1 DEF Unpacked, Popped, Finished
<1> QED
  BY <1>1, <1>2 DEF Finished, NotYet, Unsaid

LEMMA PreparedDoes ==
  ASSUME NEW x, NEW m, NEW k, Opened(x, m, k), k.type = "LoadPrepared", x.intent.token = k.token
  PROVE  LET y == HandlePreparedLoad(x, k)
             load == [op |-> "Load", token |-> k.token, transition |-> k.transition]
         IN  /\ y.task # None /\ y.task.token = k.token /\ y.task.stage = "reply"
             /\ y.task.transition = k.transition
             /\ y.pending = x.pending /\ y.intent = x.intent /\ y.nextToken = x.nextToken
             /\ y.raced = x.raced
             /\ To(x) \in Seq(ToSet(To(x))) /\ To(y) = Append(To(x), load)
<1> DEFINE task == [token |-> k.token, stage |-> "reply", transition |-> k.transition]
           load == [op |-> "Load", token |-> k.token, transition |-> k.transition]
           y == [[x EXCEPT !.task = task] EXCEPT !.out = Append(@, load)]
<1>1. HandlePreparedLoad(x, k) = y
  BY DEF HandlePreparedLoad, SendLoad
<1>2. /\ task # None /\ task.token = k.token /\ task.stage = "reply"
      /\ task.transition = k.transition
  BY NoneIsNothing DEF Opened, Given, Fades
<1> HIDE DEF task, load
<1>3. /\ y.pending = x.pending /\ y.intent = x.intent
      /\ y.nextToken = x.nextToken /\ y.task = task
      /\ y.out = Append(x.out, load) /\ y.raced = x.raced
  BY DEF Opened, Sane, Shaped, Fields
<1> HIDE DEF y
<1>4. sent \in Seq(ToSet(sent)) /\ x.out \in Seq(ToSet(x.out))
  BY DEF Opened, Sane, Fresh
<1>5. To(x) \in Seq(ToSet(To(x))) /\ To(y) = Append(To(x), load)
  BY <1>3, <1>4, ToAppend
<1> QED
  BY <1>1, <1>2, <1>3, <1>5 DEF load

\* The load is sent.
LEMMA PreparedIsLive ==
  ASSUME NEW x, NEW full, NEW m, NEW k, NEW v, Unpacked(x, full, m, k, v), x.intent.token = k.token,
         k.type = "LoadPrepared"
  PROVE  Here(HandlePreparedLoad(x, k), m, v)
<1> DEFINE y == HandlePreparedLoad(x, k)
           t == k.token
           c == To(x)
           d == To(y)
           load == [op |-> "Load", token |-> t, transition |-> k.transition]
<1>1. /\ y.task # None /\ y.task.token = t /\ y.task.stage = "reply"
      /\ y.task.transition = k.transition
      /\ y.pending = x.pending /\ y.intent = x.intent /\ y.nextToken = x.nextToken
      /\ y.raced = x.raced
      /\ c \in Seq(ToSet(c)) /\ d = Append(c, load)
  BY PreparedDoes DEF Unpacked
<1>2. load.op = "Load" /\ load.token = t /\ load.transition = k.transition
  OBVIOUS
<1> HIDE DEF y, c, d, load
<1>3. /\ \A u : SeekIn(d, u) <=> SeekIn(c, u)
      /\ \A u : LoadIn(d, u) => LoadIn(c, u) \/ u = t
      /\ \A u : LateIn(d, u) => LateIn(c, u) \/ (u = t /\ k.transition # "immediate")
      /\ LoadsAre(c, t) => LoadsAre(d, t)
      /\ NoLoadIn(c) => LoadsAre(d, t) /\ SeeksFirst(d)
      /\ \A U : SeeksIn(c, U) => SeeksIn(d, U)
      /\ NoSeek(c) => NoSeek(d)
      /\ AimedFirst(c) => AimedFirst(d)
  <2>1. /\ \A u : SeekIn(d, u) <=> SeekIn(c, u)
        /\ \A u : LoadIn(d, u) => LoadIn(c, u) \/ u = load.token
        /\ \A u : LateIn(d, u) => LateIn(c, u)
                                   \/ (u = load.token /\ load.transition # "immediate")
        /\ LoadsAre(c, load.token) => LoadsAre(d, load.token)
        /\ NoLoadIn(c) => LoadsAre(d, load.token) /\ SeeksFirst(d)
        /\ \A U : SeeksIn(c, U) => SeeksIn(d, U)
        /\ NoSeek(c) => NoSeek(d)
        /\ AimedFirst(c) => AimedFirst(d)
    <3> HIDE DEF ToSet, t
    <3> QED
      BY <1>1, <1>2, LoadSays
  <2> QED
    BY <1>2, <2>1
<1>4. /\ \A r : Finished(full, t, r) => k.type = "LoadFinished" /\ k.result = r
      /\ \A r : ~Finished(m, t, r)
      /\ ~NotYet(x, m, t)
  BY FinishedIsHead
<1>5. /\ \A u : NotYet(x, m, u) => NotYet(x, full, u)
      /\ \A u : Answered(x, full, u) => Answered(x, m, u)
      /\ NotYet(x, full, t)
      /\ \E i \in DOMAIN full : full[i] = k
      /\ \A i \in DOMAIN m : \E j \in DOMAIN full : full[j] = m[i]
  BY PoppedMail DEF Unpacked, Popped
<1>6. Live(x, full, c, engine, v)
  BY DEF Unpacked, c
<1>7. \A u : NotYet(y, m, u) => NotYet(x, m, u)
  BY <1>1 DEF NotYet, Unsaid
<1> HIDE DEF t
<1>8. Strange(y, m, d, engine, v)
  BY <1>1, <1>3, <1>4, <1>5, <1>6, <1>7 DEF Live, Strange
<1>9. Orderly(y, m, engine)
  BY <1>1, <1>5, <1>6 DEF Live, Orderly
<1>10. ASSUME ~y.raced PROVE Claims(y, m, d, engine, v)
  <2>1. Claims(x, full, c, engine, v)
    BY <1>1, <1>6, <1>10 DEF Live
  <2>2. /\ IsLoading(x) /\ ~Past(x) /\ x.intent.token = t
        /\ x.pending # None => x.pending.token = t
    BY <1>1, <1>10, MailIsLoading DEF t, Past
  <2>3. EndsStay(d, engine, v) /\ SeekOrder(d, engine)
    BY <1>3, <2>1, EndsStayIs, SeekOrderIs DEF Claims
  <2>4. CommittedClaim(y, m, d, engine) /\ PastClaim(y, m, d, engine, v)
    BY <1>1, <2>2 DEF CommittedClaim, PastClaim, Past, IsLoading
  <2>5. LoadingClaim(y, m, d, engine, v)
    <3>1. SUFFICES ASSUME x.pending # None PROVE LoadingClaim(y, m, d, engine, v)
      BY <1>1 DEF LoadingClaim
    <3> DEFINE from == x.pending.from
    <3>2. Answered(x, full, from) /\ NotSent(c, engine, from)
      BY <1>5, <2>1, <2>2, <3>1 DEF Claims, LoadingClaim
    <3>3. from # t
      BY <1>6, <2>2, <3>1 DEF Live, Orderly
    <3> HIDE DEF from
    <3>4. Answered(y, m, from)
      BY <1>1, <1>5, <3>2, <3>3 DEF Answered
    <3>5. OnTheWay(d, engine, t, from)
      BY <1>3, <3>2 DEF NotSent, OnTheWay, Rest, NoLoad, OnlyLoad
    <3> QED
      BY <1>1, <1>4, <1>7, <2>2, <3>4, <3>5 DEF LoadingClaim, from
  <2>6. LateClaim(y, m, d, engine, v)
    <3>1. SUFFICES ASSUME x.pending = None PROVE LateClaim(y, m, d, engine, v)
      BY <1>1 DEF LateClaim
    <3>2. Deferred(y, m, d, engine, t) => Deferred(x, full, c, engine, t)
      <4>1. k.transition # "immediate" => Deferred(x, full, c, engine, t)
        BY <1>5 DEF Deferred, t
      <4>2. /\ \A i \in DOMAIN m : m[i].token # t
        BY DEF Unpacked, Opened, Answered, t
      <4>3. LateIn(c, t) \/ (Pends(engine, t) /\ engine.pend.transition # "immediate")
               => Deferred(x, full, c, engine, t)
        BY DEF Deferred
      <4> QED
        BY <1>1, <1>3, <4>1, <4>2, <4>3 DEF Deferred
    <3>3. Deferred(x, full, c, engine, t) => Dead(engine) /\ OnlyLoad(c, engine, t)
      BY <2>1, <2>2, <3>1 DEF Claims, LateClaim
    <3>4. ~x.intent.deferred
      BY <1>4, <2>1, <2>2, <3>1 DEF Claims, LateClaim
    <3>5. ~Done(m, t)
      BY <1>4 DEF Done
    <3> QED
      BY <1>1, <1>3, <2>2, <3>2, <3>3, <3>4, <3>5 DEF LateClaim, OnlyLoad
  <2> QED
    BY <2>3, <2>4, <2>5, <2>6 DEF Claims
<1> QED
  BY <1>8, <1>9, <1>10 DEF Here, Live, y, d

LEMMA FailDoes ==
  ASSUME NEW x, NEW m, Sane(x, m), NEW t, x.intent.token = t
  PROVE  LET y == FailLoad(x, t)
             late == IsLoading(x) /\ x.intent.deferred
         IN  /\ y.nextToken = x.nextToken /\ y.task = x.task /\ y.raced = x.raced
             /\ late => /\ y.pending = None /\ y.intent = Committed(x.intent.from)
                        /\ y.out = x.out
             /\ ~late => /\ y.pending = x.pending /\ y.intent = Stopped
                         /\ More(x.out, y.out, {"Pause"})
<1> DEFINE armed == IF x.pending # None /\ x.pending.gapless THEN x.intent.from ELSE 0
           y == [x EXCEPT !.armed = armed, !.pending = None, !.intent = Committed(x.intent.from)]
           base == IF x.phase = "Ended" THEN Send(x, "Pause") ELSE x
           z == [base EXCEPT !.intent = Stopped]
<1>1. FailLoad(x, t) = IF IsLoading(x) /\ x.intent.deferred THEN y ELSE z
  BY DEF FailLoad
<1>2. /\ y.pending = None /\ y.nextToken = x.nextToken
      /\ y.task = x.task /\ y.out = x.out /\ y.raced = x.raced
      /\ y.intent = Committed(x.intent.from)
  <2> HIDE DEF armed
  <2> QED
    BY DEF Sane, Shaped, Fields
<1>3. /\ DOMAIN base = Fields /\ More(x.out, base.out, {"Pause"}) /\ base.pending = x.pending
      /\ base.nextToken = x.nextToken /\ base.task = x.task /\ base.raced = x.raced
  BY SendIsMore, MoreSelf DEF Sane, Shaped, Fresh
<1> HIDE DEF base, y
<1>4. /\ z.pending = x.pending /\ z.nextToken = x.nextToken
      /\ z.task = x.task /\ z.intent = Stopped /\ z.out = base.out /\ z.raced = x.raced
  BY <1>3 DEF Fields
<1> HIDE DEF z
<1> QED
  BY <1>1, <1>2, <1>3, <1>4

\* The session falls back on the session it was to leave, or stops.
LEMMA FailIsNear ==
  ASSUME NEW x, NEW m, Sane(x, m), NEW v, Near(x, m, v), NEW t
  PROVE  Near(FailLoad(x, t), m, v)
<1> DEFINE y == FailLoad(x, t)
<1>1. CASE x.intent.token # t
  BY <1>1 DEF FailLoad
<1>2. CASE x.intent.token = t
  <2>1. /\ y.nextToken = x.nextToken /\ y.task = x.task /\ y.raced = x.raced
        /\ y.pending = None \/ y.pending = x.pending
        /\ y.out = x.out \/ More(x.out, y.out, {"Pause"})
    BY <1>2, FailDoes
  <2> HIDE DEF y
  <2>2. {"Pause"} \subseteq Plain
    BY DEF Plain
  <2>3. Says(To(x), To(y))
    <3>1. CASE y.out = x.out
      BY <3>1, SaysSelf DEF To
    <3>2. CASE More(x.out, y.out, {"Pause"})
      BY <2>2, <3>2, OutSays DEF Sane
    <3> QED
      BY <2>1, <3>1, <3>2
  <2>4. Near(y, m, v)
    BY <2>1, <2>3, SaysLoose DEF Near, SamePending
  <2> QED
    BY <2>4 DEF y
<1> QED
  BY <1>1, <1>2

LEMMA FailBackIsLive ==
  ASSUME NEW x, NEW m, Sane(x, m), NEW v, Near(x, m, v), NEW t, x.intent.token = t,
         ~Past(x) \/ x.raced,
         ~x.raced /\ IsLoading(x) /\ x.intent.deferred =>
            /\ Rest(To(x), engine, x.intent.from) /\ NoLoad(To(x), engine)
            /\ SeeksIn(To(x), {0, x.intent.from}) /\ Answered(x, m, x.intent.from)
  PROVE  Here(FailLoad(x, t), m, v)
<1> DEFINE y == FailLoad(x, t)
           from == x.intent.from
           late == IsLoading(x) /\ x.intent.deferred
<1>1. /\ y.nextToken = x.nextToken /\ y.task = x.task /\ y.raced = x.raced
      /\ late => /\ y.pending = None /\ y.intent = Committed(from) /\ y.out = x.out
      /\ ~late => y.pending = x.pending /\ y.intent = Stopped
  BY FailDoes
<1>2. Near(y, m, v)
  BY FailIsNear
<1> HIDE DEF y
<1>3. CASE late
  <2>1. To(y) = To(x)
    BY <1>1, <1>3 DEF To
  <2>2. ~y.raced => /\ Rest(To(y), engine, from) /\ NoLoad(To(y), engine)
                    /\ SeeksIn(To(y), {0, from}) /\ Answered(y, m, from)
    BY <1>1, <1>3, <2>1 DEF Answered
  <2>3. Here(y, m, v)
    BY <1>1, <1>2, <1>3, <2>2, RestsLive DEF Here, Near
  <2> QED
    BY <2>3 DEF y
<1>5. CASE x.raced
  <2>1. Here(y, m, v)
    BY <1>1, <1>2, <1>5, RacedIsLive
  <2> QED
    BY <2>1 DEF y
<1>4. CASE ~late /\ ~x.raced
  <2>1. x.pending = None \/ Loading(x.pending.token, TRUE, x.pending.from) = x.intent
        \/ x.intent = Stopped
    BY <1>4 DEF Sane, Intended, Taken, Past
  <2>2. x.pending = None
    BY <1>4, <2>1 DEF Sane, Intended, Taken, Past, Loading, IsLoading, Stopped
  <2>3. Here(y, m, v)
    BY <1>1, <1>2, <1>4, <2>2, StoppedIsLive DEF Here, Near
  <2> QED
    BY <2>3 DEF y
<1> QED
  BY <1>3, <1>4, <1>5

\* What a load that has failed leaves.
LEMMA FailedRests ==
  ASSUME NEW x, NEW full, NEW m, NEW k, NEW v, Unpacked(x, full, m, k, v), x.intent.token = k.token,
         k.type = "PrepareFailed" \/ (k.type = "LoadFinished" /\ k.result = "failed"),
         ~x.raced, IsLoading(x), x.intent.deferred
  PROVE  /\ Rest(To(x), engine, x.intent.from) /\ NoLoad(To(x), engine)
         /\ SeeksIn(To(x), {0, x.intent.from}) /\ Answered(x, m, x.intent.from)
<1> DEFINE t == k.token
           from == x.intent.from
<1>1. Claims(x, full, To(x), engine, v)
  BY DEF Unpacked, Live
<1>2. x.pending # None
  <2>1. /\ Finished(full, k.token, "crossfaded") =>
           k.type = "LoadFinished" /\ k.result = "crossfaded"
        /\ Finished(full, k.token, "gapless") => k.type = "LoadFinished" /\ k.result = "gapless"
    BY FinishedIsHead
  <2>2. ~Finished(full, t, "crossfaded") /\ ~Finished(full, t, "gapless")
    BY <2>1
  <2> QED
    BY <1>1, <2>2 DEF Claims, LateClaim
<1>3. ~Past(x) /\ x.pending.token = t /\ from = x.pending.from
  BY <1>2, MailIsLoading
<1>4. /\ k.type = "PrepareFailed" => NotYet(x, full, t)
      /\ k.type = "LoadFinished" => Finished(full, t, k.result)
      /\ Answered(x, full, from) => Answered(x, m, from)
  BY PoppedMail DEF Unpacked
<1> HIDE DEF t, from
<1>5. Answered(x, full, from)
      /\ (NotYet(x, full, t) => NotSent(To(x), engine, from))
      /\ (Finished(full, t, "failed") => FailedClaim(To(x), engine, v, t, from))
  BY <1>1, <1>2, <1>3 DEF Claims, LoadingClaim
<1>6. \/ NotSent(To(x), engine, from) \/ FailedClaim(To(x), engine, v, t, from)
  BY <1>4, <1>5
<1>7. /\ Rest(To(x), engine, from) /\ NoLoad(To(x), engine) /\ SeeksIn(To(x), {0, from})
  <2>1. FailedClaim(To(x), engine, v, t, from) => Rest(To(x), engine, from)
    BY DEF FailedClaim, Rest
  <2>2. FailedClaim(To(x), engine, v, t, from) => /\ NoLoad(To(x), engine)
                                                  /\ SeeksIn(To(x), {0, from})
    BY DEF FailedClaim, NoSeek, SeeksIn
  <2> QED
    BY <1>6, <2>1, <2>2 DEF NotSent
<1> QED
  BY <1>4, <1>5, <1>7 DEF from

LEMMA TakenIsNear ==
  ASSUME NEW x, NEW full, NEW m, NEW k, NEW v, Unpacked(x, full, m, k, v)
  PROVE  Near(x, m, v)
BY LiveIsLoose, LessIsLoose DEF Unpacked, Near

LEMMA PrepareFailedIsLive ==
  ASSUME NEW x, NEW full, NEW m, NEW k, NEW v, Unpacked(x, full, m, k, v), x.intent.token = k.token,
         k.type = "PrepareFailed"
  PROVE  Here(FailLoad(x, k.token), m, v)
<1>1. Sane(x, m) /\ Near(x, m, v)
  BY TakenIsNear DEF Unpacked, Opened
<1>2. ~Past(x) \/ x.raced
  BY MailIsLoading DEF Past
<1>3. ~x.raced /\ IsLoading(x) /\ x.intent.deferred =>
         /\ Rest(To(x), engine, x.intent.from) /\ NoLoad(To(x), engine)
         /\ SeeksIn(To(x), {0, x.intent.from}) /\ Answered(x, m, x.intent.from)
  BY FailedRests
<1> QED
  BY <1>1, <1>2, <1>3, FailBackIsLive

-----------------------------------------------------------------------------
(* A load has finished.                                                      *)

Restaged(x, y, stage) == y.pending = [x.pending EXCEPT !.stage = stage]

LEMMA LandedDoes ==
  ASSUME NEW x, NEW m, NEW k, Opened(x, m, k), k.type = "LoadFinished", x.intent.token = k.token
  PROVE  LET y == Landed(x, k)
             armed == x.pending # None /\ x.pending.token = k.token
         IN  /\ y.task = None /\ y.nextToken = x.nextToken /\ y.raced = x.raced
             /\ y.out = x.out /\ y.intent = Committed(k.token)
             /\ ~armed => y.pending = x.pending
             /\ armed /\ k.result \notin {"crossfaded", "gapless"} => y.pending = None
             /\ armed /\ k.result = "crossfaded" => Restaged(x, y, "Fading")
             /\ armed /\ k.result = "gapless" => Restaged(x, y, "Queued")
<1> DEFINE y == [x EXCEPT !.intent = Committed(k.token), !.task = None]
           armed == x.pending # None /\ x.pending.token = k.token
           staged(stage) == [y EXCEPT !.pending.stage = stage]
<1>1. /\ DOMAIN y = Fields /\ y.pending = x.pending /\ y.intent = Committed(k.token)
      /\ y.nextToken = x.nextToken /\ y.task = None /\ y.out = x.out /\ y.raced = x.raced
  BY DEF Opened, Sane, Shaped, Fields
<1>2. Landed(x, k) = IF ~armed THEN y
                     ELSE IF k.result = "crossfaded" THEN staged("Fading")
                     ELSE IF k.result = "gapless" THEN staged("Queued")
                     ELSE CommitTransition(y)
  BY DEF Landed
<1> HIDE DEF y
<1>3. \A stage : /\ Restaged(x, staged(stage), stage)
                 /\ staged(stage).intent = y.intent /\ staged(stage).nextToken = y.nextToken
                 /\ staged(stage).task = None /\ staged(stage).out = y.out
                 /\ staged(stage).raced = y.raced
  BY <1>1 DEF Fields, Restaged
<1>4. LET z == CommitTransition(y)
      IN  /\ z.pending = None /\ z.intent = y.intent /\ z.nextToken = y.nextToken
          /\ z.task = None /\ z.out = y.out /\ z.raced = y.raced
  BY <1>1, CommitEnds
<1> HIDE DEF armed, staged
<1>5. CASE ~armed
  BY <1>1, <1>2, <1>5 DEF armed
<1>6. CASE armed /\ k.result = "crossfaded"
  BY <1>1, <1>2, <1>3, <1>6 DEF armed
<1>7. CASE armed /\ k.result = "gapless"
  BY <1>1, <1>2, <1>3, <1>7 DEF armed
<1>8. CASE armed /\ k.result \notin {"crossfaded", "gapless"}
  BY <1>1, <1>2, <1>4, <1>8 DEF armed
<1> QED
  BY <1>5, <1>6, <1>7, <1>8

\* A transition in another stage is the same transition.
LEMMA StagedPending ==
  ASSUME NEW x, NEW m, Sane(x, m), Orderly(x, m, engine), x.pending # None,
         x.pending.gapless \in BOOLEAN, x.pending.to \in Nat, NEW stage \in {"Fading", "Queued"},
         ~x.raced
  PROVE  LET p == [x.pending EXCEPT !.stage = stage]
         IN  /\ p # None /\ p.stage = stage /\ p.token = x.pending.token
             /\ p.from = x.pending.from /\ p.key = x.pending.key /\ p.gapless = x.pending.gapless
             /\ p.amid = x.pending.amid
<1> DEFINE p == [x.pending EXCEPT !.stage = stage]
<1>1. DOMAIN x.pending = PendingFields
  BY DEF Sane, Shaped
<1>2. /\ DOMAIN p = PendingFields /\ p.to = x.pending.to /\ p.stage = stage
      /\ p.token = x.pending.token /\ p.from = x.pending.from
      /\ p.gapless = x.pending.gapless /\ p.key = x.pending.key
      /\ p.amid = x.pending.amid
  BY <1>1 DEF PendingFields
<1>3. p # None
  <2>1. /\ x.pending.key \in ToSet(Tracks) \cup {NewTrack} /\ x.pending.token \in Nat
        /\ x.pending.from \in Nat /\ x.pending.amid = {}
    BY DEF Orderly, Library, Sane, Typed, Session, Taken, Given
  <2>2. p = [to |-> x.pending.to, key |-> x.pending.key, token |-> x.pending.token,
             from |-> x.pending.from, stage |-> stage, gapless |-> x.pending.gapless,
             amid |-> x.pending.amid]
    BY <1>1 DEF PendingFields
  <2> QED
    BY <2>1, <2>2, NoneIsNothing
<1> QED
  BY <1>2, <1>3

\* Where two moves have crossed it matters only who may be heard of.
LEMMA LandedRaced ==
  ASSUME NEW x, NEW m, NEW k, NEW v, Opened(x, m, k), Near(x, m, v), k.type = "LoadFinished",
         x.intent.token = k.token, x.raced
  PROVE  Here(Landed(x, k), m, v)
<1> DEFINE y == Landed(x, k)
           armed == x.pending # None /\ x.pending.token = k.token
<1>1. /\ y.task = None /\ y.nextToken = x.nextToken /\ y.raced = x.raced
      /\ y.out = x.out
      /\ ~armed => y.pending = x.pending
      /\ armed /\ k.result \notin {"crossfaded", "gapless"} => y.pending = None
      /\ armed /\ k.result = "crossfaded" => Restaged(x, y, "Fading")
      /\ armed /\ k.result = "gapless" => Restaged(x, y, "Queued")
  BY LandedDoes
<1> HIDE DEF y
<1>2. To(y) = To(x)
  BY <1>1 DEF To
<1>3. Strange(y, m, To(y), engine, v)
  BY <1>1, <1>2, SaysSelf, SaysStrange DEF Near, Loose
<1>4. Orderly(x, m, engine) /\ (x.pending # None => DOMAIN x.pending = PendingFields)
  BY DEF Near, Loose, Opened, Sane, Shaped
<1>5. ASSUME NEW stage \in {"Fading", "Queued"}, Restaged(x, y, stage), armed,
             k.result = "crossfaded" \/ stage = "Queued"
      PROVE  Orderly(y, m, engine)
  <2>1. /\ y.pending.from = x.pending.from /\ y.pending.token = x.pending.token
        /\ y.pending.key = x.pending.key /\ y.pending.gapless = x.pending.gapless
        /\ y.pending.stage = stage
    BY <1>4, <1>5 DEF Restaged, PendingFields
  <2>2. x.pending.gapless => stage # "Fading"
    BY <1>4, <1>5 DEF Opened, Orderly
  <2> QED
    BY <1>1, <1>4, <1>5, <2>1, <2>2 DEF Orderly
<1>6. y.pending \in {x.pending, None} => Orderly(y, m, engine)
  BY <1>1, <1>4 DEF Orderly
<1>7. Orderly(y, m, engine)
  BY <1>1, <1>5, <1>6
<1>8. Here(y, m, v)
  BY <1>1, <1>3, <1>7 DEF Here, Live
<1> QED
  BY <1>8 DEF y

\* The load has become the session: it has nothing left of a transition.
LEMMA LandedRests ==
  ASSUME NEW x, NEW full, NEW m, NEW k, NEW v, Unpacked(x, full, m, k, v), x.intent.token = k.token,
         k.type = "LoadFinished", k.result \in {"started", "crossfaded", "gapless"},
         x.pending = None \/ k.result = "started", ~x.raced
  PROVE  Here(Landed(x, k), m, v)
<1> DEFINE y == Landed(x, k)
           t == k.token
           c == To(x)
<1>1. x.pending # None => x.pending.token = t /\ ~Past(x)
  BY MailIsLoading
<1>2. Opened(x, m, k)
  BY DEF Unpacked
<1>3. /\ y.task = None /\ y.nextToken = x.nextToken /\ y.raced = x.raced
      /\ y.out = x.out /\ y.intent = Committed(t) /\ y.pending = None
  <2>1. /\ y.task = None /\ y.nextToken = x.nextToken /\ y.raced = x.raced
        /\ y.out = x.out /\ y.intent = Committed(k.token)
        /\ ~(x.pending # None /\ x.pending.token = k.token) => y.pending = x.pending
        /\ x.pending # None /\ x.pending.token = k.token
           /\ k.result \notin {"crossfaded", "gapless"} => y.pending = None
    BY <1>2, LandedDoes
  <2> HIDE DEF y
  <2>2. CASE x.pending = None
    BY <2>1, <2>2
  <2>3. CASE x.pending # None
    BY <1>1, <2>1, <2>3
  <2> QED
    BY <2>2, <2>3
<1>4. Near(x, m, v)
  BY TakenIsNear
<1> HIDE DEF y
<1>5. To(y) = c
  BY <1>3 DEF To
<1>6. Says(c, c)
  BY SaysSelf
<1>7. Near(y, m, v)
  BY <1>3, <1>4, <1>5, <1>6, SaysLoose DEF Near
<1>8. Answered(y, m, t)
  BY <1>2, <1>3 DEF Opened, Answered
<1>9. Finished(full, t, k.result)
  BY PoppedMail DEF Unpacked
<1>10. ASSUME ~y.raced
       PROVE  Rest(c, engine, t) /\ NoLoad(c, engine) /\ SeeksIn(c, {0, t})
  <2>1. Claims(x, full, c, engine, v) /\ IsLoading(x)
    BY <1>3, <1>10, MailIsLoading DEF Unpacked, Live
  <2>2. CASE x.pending = None
    <3>1. Done(full, t)
      BY <1>9 DEF Done
    <3>2. Base(engine, t) /\ NoLoad(c, engine) /\ SeeksIn(c, {0})
      BY <2>1, <2>2, <3>1 DEF Claims, LateClaim
    <3> QED
      BY <3>2 DEF Rest, SeeksIn
  <2>3. CASE x.pending # None
    <3>1. StartedClaim(c, engine, v, t)
      BY <1>1, <1>9, <2>1, <2>3 DEF Claims, LoadingClaim
    <3> QED
      BY <3>1 DEF StartedClaim, Rest, NoSeek, SeeksIn
  <2> QED
    BY <2>2, <2>3
<1> HIDE DEF t, c
<1>11. Here(y, m, v)
  BY <1>3, <1>5, <1>7, <1>8, <1>10, RestsLive DEF Here, Near
<1> QED
  BY <1>11 DEF y

\* The transition has moved on: the engine fades, or has queued the load.
LEMMA LandedWaits ==
  ASSUME NEW x, NEW full, NEW m, NEW k, NEW v, Unpacked(x, full, m, k, v), x.intent.token = k.token,
         k.type = "LoadFinished", k.result \in {"crossfaded", "gapless"},
         x.pending # None, Whole(x), ~x.raced
  PROVE  Here(Landed(x, k), m, v)
<1> DEFINE y == Landed(x, k)
           t == k.token
           from == x.pending.from
           c == To(x)
           stage == IF k.result = "crossfaded" THEN "Fading" ELSE "Queued"
           p == y.pending
<1>1. x.pending.token = t /\ ~Past(x) /\ Opened(x, m, k)
  BY MailIsLoading DEF Unpacked
<1>2. /\ y.task = None /\ y.nextToken = x.nextToken /\ y.raced = x.raced
      /\ y.out = x.out /\ y.intent = Committed(t)
      /\ p = [x.pending EXCEPT !.stage = stage]
  <2>1. /\ y.task = None /\ y.nextToken = x.nextToken /\ y.raced = x.raced
        /\ y.out = x.out /\ y.intent = Committed(k.token)
        /\ x.pending # None /\ x.pending.token = k.token /\ k.result = "crossfaded" =>
              Restaged(x, y, "Fading")
        /\ x.pending # None /\ x.pending.token = k.token /\ k.result = "gapless" =>
              Restaged(x, y, "Queued")
    BY <1>1, LandedDoes
  <2> HIDE DEF y
  <2> QED
    BY <1>1, <2>1 DEF Restaged
<1>3. Sane(x, m) /\ Near(x, m, v)
  BY <1>1, TakenIsNear DEF Opened
<1>4. Orderly(x, m, engine) /\ stage \in {"Fading", "Queued"}
  BY <1>3 DEF Near, Loose
<1> HIDE DEF y, stage
<1>5. /\ p # None /\ p.stage = stage /\ p.token = t /\ p.from = from
      /\ p.key = x.pending.key /\ p.gapless = x.pending.gapless
      /\ p.amid = x.pending.amid
  BY <1>1, <1>2, <1>3, <1>4, StagedPending DEF Whole
<1>6. To(y) = c
  BY <1>2 DEF To
<1>7. Strange(y, m, c, engine, v)
  BY <1>2, <1>3, SaysSelf, SaysStrange DEF Near, Loose
<1>8. x.pending.gapless => stage # "Fading"
  BY <1>1, <1>4 DEF Opened, Orderly, stage
<1>9. Orderly(y, m, engine)
  BY <1>1, <1>4, <1>5, <1>8 DEF Orderly
<1>10. /\ Finished(full, t, k.result)
       /\ Answered(x, full, from) => Answered(x, m, from)
  BY PoppedMail DEF Unpacked
<1>11. ASSUME ~y.raced PROVE Claims(y, m, c, engine, v)
  <2>1. Claims(x, full, c, engine, v)
    BY <1>2, <1>11 DEF Unpacked, Live
  <2>2. /\ Answered(x, full, from)
        /\ Finished(full, t, "crossfaded") => CrossClaim(c, engine, v, t, from)
        /\ Finished(full, t, "gapless") => GapClaim(c, engine, v, t, from)
    BY <1>1, <2>1 DEF Claims, LoadingClaim
  <2>3. Answered(y, m, from)
    BY <1>2, <1>10, <2>2 DEF Answered
  <2>4. /\ stage = "Fading" => Fade(c, engine, v, t, from)
        /\ stage = "Queued" => Lined(c, engine, v, t, from)
    BY <1>10, <2>2 DEF stage, CrossClaim, GapClaim
  <2>5. PastClaim(y, m, c, engine, v)
    BY <1>2, <1>5, <2>3, <2>4 DEF PastClaim
  <2>6. Past(y) /\ ~IsLoading(y)
    BY <1>2, <1>4, <1>5 DEF Past, IsLoading, Committed
  <2>7. /\ CommittedClaim(y, m, c, engine) /\ LoadingClaim(y, m, c, engine, v)
        /\ LateClaim(y, m, c, engine, v)
    BY <1>5, <2>6 DEF CommittedClaim, LoadingClaim, LateClaim
  <2> QED
    BY <2>1, <2>5, <2>7 DEF Claims
<1>12. Here(y, m, v)
  BY <1>6, <1>7, <1>9, <1>11 DEF Here, Live
<1> QED
  BY <1>12 DEF y

LEMMA FinishedIsLive ==
  ASSUME NEW x, NEW full, NEW m, NEW k, NEW v, Unpacked(x, full, m, k, v), x.intent.token = k.token,
         k.type = "LoadFinished", Firm(x), NEW near
  PROVE  Here(HandleLoadFinished(x, k, near), m, v)
<1> DEFINE idle == [x EXCEPT !.task = None]
           done == Landed(x, k)
<1>1. Opened(x, m, k) /\ Sane(x, m) /\ Near(x, m, v) /\ Given(x, k.token)
  BY TakenIsNear DEF Unpacked, Opened
<1>2. /\ DOMAIN idle = Fields /\ idle.pending = x.pending /\ idle.intent = x.intent
      /\ idle.nextToken = x.nextToken /\ idle.task = None /\ idle.out = x.out
      /\ idle.phase = x.phase /\ idle.armed = x.armed /\ idle.raced = x.raced
      /\ idle.forsaken = x.forsaken
  BY <1>1 DEF Sane, Shaped, Fields
<1>3. HandleLoadFinished(x, k, near) = IF k.result = "dropped" THEN idle
                                       ELSE IF k.result = "failed" THEN FailLoad(idle, k.token)
                                       ELSE ArmGaplessNow(done, near)
  BY DEF HandleLoadFinished, Landed
<1>4. k.result \in Results
  BY DEF Unpacked, Live, Orderly, Popped
<1> HIDE DEF idle
<1>5. To(idle) = To(x) /\ Near(idle, m, v)
  <2>1. To(idle) = To(x)
    BY <1>2 DEF To
  <2> QED
    BY <1>1, <1>2, <2>1, SaysSelf, SaysLoose DEF Near, SamePending
<1>6. Sane(idle, m)
  <2>1. More(x.out, x.out, Others) /\ x.phase \in Phases /\ Before(x, x.armed)
    BY <1>1, MoreSelf DEF Sane, Fresh, Typed
  <2> QED
    BY <1>1, <1>2, <2>1, KeepsSane DEF Marks
<1>7. CASE k.result = "dropped"
  <2>1. x.raced
    BY <1>1, <1>7, MailIsLoading DEF Opened, Sane, Shaped
  <2> QED
    BY <1>2, <1>3, <1>5, <1>7, <2>1, RacedIsLive
<1>8. CASE k.result = "failed"
  <2>1. ~Past(x) \/ x.raced
    BY MailIsLoading DEF Past
  <2>2. (~Past(idle) \/ idle.raced) /\ (IsLoading(idle) <=> IsLoading(x))
    BY <1>2, <2>1 DEF Past, IsLoading
  <2>3. ~x.raced /\ IsLoading(x) /\ x.intent.deferred =>
           /\ Rest(To(x), engine, x.intent.from) /\ NoLoad(To(x), engine)
           /\ SeeksIn(To(x), {0, x.intent.from}) /\ Answered(x, m, x.intent.from)
    BY <1>8, FailedRests
  <2>4. Answered(x, m, x.intent.from) => Answered(idle, m, idle.intent.from)
    BY <1>2 DEF Answered
  <2>5. ~idle.raced /\ IsLoading(idle) /\ idle.intent.deferred =>
           /\ Rest(To(idle), engine, idle.intent.from) /\ NoLoad(To(idle), engine)
           /\ SeeksIn(To(idle), {0, idle.intent.from}) /\ Answered(idle, m, idle.intent.from)
    BY <1>2, <1>5, <2>2, <2>3, <2>4
  <2>6. idle.intent.token = k.token
    BY <1>2
  <2>7. Here(FailLoad(idle, k.token), m, v)
    BY <1>5, <1>6, <2>2, <2>5, <2>6, FailBackIsLive
  <2> QED
    BY <1>3, <1>8, <2>7
<1>9. CASE k.result \notin {"dropped", "failed"}
  <2>1. k.result \in {"started", "crossfaded", "gapless"}
    BY <1>4, <1>9 DEF Results
  <2>2. Here(done, m, v)
    <3>1. CASE ~x.raced /\ (x.pending = None \/ k.result = "started")
      BY <2>1, <3>1, LandedRests
    <3>2. CASE ~x.raced /\ ~(x.pending = None \/ k.result = "started")
      BY <2>1, <3>2, LandedWaits DEF Firm
    <3>3. CASE x.raced
      BY <1>1, <3>3, LandedRaced
    <3> QED
      BY <3>1, <3>2, <3>3
  <2>3. Good(done, m) /\ done.intent = Committed(k.token)
    BY <1>1, LandedIsGood
  <2>4. GoodQueue(done.queue, Library)
    BY LandedIsFirm DEF Firm, Whole
  <2> HIDE DEF done
  <2>5. done.intent.token # 0
    BY <1>1, <2>3 DEF Committed, Given
  <2>6. Here(ArmGaplessNow(done, near), m, v)
    BY <2>2, <2>3, <2>4, <2>5, ArmNowIsLive DEF Good
  <2> QED
    BY <1>3, <1>9, <2>6
<1> QED
  BY <1>7, <1>8, <1>9

LEMMA MailIsLive ==
  ASSUME NEW x, NEW full, NEW m, NEW k, NEW v, Unpacked(x, full, m, k, v), Firm(x), NEW near
  PROVE  Here(HandleMail(x, k, near), m, v)
<1>1. k.type \in {"LoadPrepared", "PrepareFailed", "LoadFinished"}
  BY DEF Unpacked, Opened
<1>2. CASE x.intent.token # k.token
  <2>1. HandleMail(x, k, near) = x
    BY <1>1, <1>2 DEF HandleMail, HandlePreparedLoad, FailLoad, HandleLoadFinished
  <2>2. Here(x, m, v)
    BY <1>2, LessIsLive DEF Unpacked, Here
  <2> QED
    BY <2>1, <2>2
<1>3. CASE x.intent.token = k.token
  BY <1>1, <1>3, PreparedIsLive, PrepareFailedIsLive, FinishedIsLive DEF HandleMail
<1> QED
  BY <1>2, <1>3

-----------------------------------------------------------------------------
(* Events.  Of v, the first event k is handled, and w is the rest.           *)

Hears(x, v, w, k) == /\ Popped(v, w, k) /\ Good(x, mail) /\ Live(x, mail, To(x), engine, v)

\* Where the load that is waited for can be.
LEMMA WhereLoad ==
  ASSUME NEW x, NEW m, Good(x, m), Orderly(x, m, engine), IsLoading(x), ~x.raced,
         NEW t, t = x.intent.token
  PROVE  \/ NotYet(x, m, t)
         \/ Replies(x) /\ (LoadIn(To(x), t) \/ Pends(engine, t))
         \/ \E r \in Results \ {"dropped"} : Finished(m, t, r)
<1>1. Coming(x, m, t) \/ SentFor(x, To(x), t)
  BY DEF Good, Sane, Shaped, Somewhere
<1>2. CASE SentFor(x, To(x), t)
  BY <1>2 DEF SentFor, Replies, Standing, Held, LoadIn, Pends
<1>3. CASE Coming(x, m, t)
  <2>1. CASE x.task # None /\ x.task.token = t /\ x.task.stage = "prepare"
    BY <2>1 DEF NotYet, Unsaid
  <2>2. CASE \E i \in DOMAIN m : /\ m[i].token = t
                                 /\ m[i].type = "LoadFinished" => m[i].result # "dropped"
    <3>1. PICK i \in DOMAIN m : /\ m[i].token = t
                                /\ m[i].type = "LoadFinished" => m[i].result # "dropped"
      BY <2>2
    <3>2. m[i].type \in {"LoadPrepared", "PrepareFailed", "LoadFinished"}
      BY DEF Good, Sane, OnePlace
    <3>3. CASE m[i].type = "LoadFinished"
      <4>1. m[i].result \in Results \ {"dropped"}
        BY <3>1, <3>3 DEF Orderly
      <4>2. Finished(m, t, m[i].result)
        BY <3>1, <3>3 DEF Finished
      <4> QED
        BY <4>1, <4>2
    <3>4. CASE m[i].type # "LoadFinished"
      BY <3>1, <3>2, <3>4 DEF NotYet, Unsaid
    <3> QED
      BY <3>3, <3>4
  <2> QED
    BY <1>3, <2>1, <2>2 DEF Coming
<1> QED
  BY <1>1, <1>2, <1>3

\* A load that has finished is nowhere else.
LEMMA FinishedAlone ==
  ASSUME NEW x, NEW m, OnePlace(x, m), NEW t, NEW r, Finished(m, t, r)
  PROVE  /\ ~NotYet(x, m, t) /\ (x.task # None => x.task.token # t)
         /\ \A q : Finished(m, t, q) => q = r
         /\ \A i \in DOMAIN m : m[i].token = t => m[i].type = "LoadFinished"
<1>1. PICK i \in DOMAIN m : m[i].token = t /\ m[i].type = "LoadFinished" /\ m[i].result = r
  BY DEF Finished
<1>2. \A j \in DOMAIN m : m[j].token = t => j = i
  BY <1>1 DEF OnePlace
<1>3. x.task # None => x.task.token # t
  BY <1>1 DEF OnePlace
<1> QED
  BY <1>1, <1>2, <1>3 DEF NotYet, Unsaid, Finished

\* The phase is another one.
LEMMA PhasedIsLive ==
  ASSUME NEW x, NEW v, Good(x, mail), Here(x, mail, v), NEW phase
  PROVE  Here([x EXCEPT !.phase = phase], mail, v)
<1> DEFINE y == [x EXCEPT !.phase = phase]
<1>1. /\ y.pending = x.pending /\ y.intent = x.intent /\ y.nextToken = x.nextToken
      /\ y.task = x.task /\ y.out = x.out /\ y.raced = x.raced
  BY DEF Good, Sane, Shaped, Fields
<1> HIDE DEF y
<1>2. Alike(x, y)
  BY <1>1 DEF Alike, SamePending
<1>3. Here(y, mail, v)
  BY <1>1, <1>2, ChangesLive DEF Good
<1> QED
  BY <1>3 DEF y

\* What is stopped is not what the session waits for.
LEMMA StaleIsLive ==
  ASSUME NEW x, NEW v, Good(x, mail), Here(x, mail, v)
  PROVE  Here(StopStale(x), mail, v)
<1> DEFINE told == Send(x, "Stop")
           hits == IsLoading(x) /\ ~Unsent(x)
           race == told.raced \/ hits
           y == StopStale(x)
<1>1. /\ DOMAIN told = Fields /\ More(x.out, told.out, Plain)
      /\ told.pending = x.pending /\ told.intent = x.intent /\ told.nextToken = x.nextToken
      /\ told.task = x.task /\ told.raced = x.raced
  BY SendIsMore DEF Good, Sane, Shaped, Fresh, Plain
<1>2. y = IF hits THEN [told EXCEPT !.raced = TRUE, !.forsaken = @ \cup {x.intent.token}]
          ELSE told
  BY DEF StopStale
<1>3. (x.raced => race) /\ (race \/ ~IsLoading(x) \/ Unsent(x))
  BY <1>1
<1> HIDE DEF told, y
<1>4. /\ y.out = told.out /\ (y.raced <=> race)
      /\ y.pending = x.pending /\ y.intent = x.intent /\ y.nextToken = x.nextToken
      /\ y.task = x.task
  <2>1. CASE hits
    <3> DEFINE z == [told EXCEPT !.raced = TRUE, !.forsaken = @ \cup {x.intent.token}]
    <3>1. /\ z.out = told.out /\ z.raced /\ z.pending = told.pending
          /\ z.intent = told.intent /\ z.nextToken = told.nextToken /\ z.task = told.task
      BY <1>1 DEF Fields
    <3>2. y = z
      BY <1>2, <2>1
    <3> HIDE DEF z
    <3> QED
      BY <1>1, <2>1, <3>1, <3>2
  <2>2. CASE ~hits
    BY <1>1, <1>2, <2>2
  <2> QED
    BY <2>1, <2>2
<1> HIDE DEF race
<1> HIDE DEF y
<1>5. Alike(x, y)
  BY <1>3, <1>4 DEF Alike, SamePending
<1>6. Says(To(x), To(y))
  BY <1>1, <1>4, OutSays DEF Good, Sane
<1>7. ASSUME ~y.raced, x.pending # None, ~Past(x)
      PROVE  ~Finished(mail, x.pending.token, "gapless")
  <2>1. x.intent = Loading(x.pending.token, TRUE, x.pending.from)
    BY <1>3, <1>4, <1>7 DEF Good, Sane, Intended, Taken, Past
  <2>2. IsLoading(x) /\ x.intent.token = x.pending.token
    BY <2>1 DEF IsLoading, Loading
  <2>3. Unsent(x)
    BY <1>3, <1>4, <1>7, <2>2
  <2>5. x.forsaken = {}
    BY <1>3, <1>4, <1>7 DEF Good, Sane, Shaped
  <2>4. NotYet(x, mail, x.pending.token)
    BY <2>2, <2>3, <2>5 DEF Unsent, NotYet, Unsaid, Good, Sane, OnePlace
  <2> QED
    BY <2>4, FinishedAlone DEF Good, Sane
<1>8. Here(y, mail, v)
  BY <1>5, <1>6, <1>7, AlikeIsLive DEF Here
<1> QED
  BY <1>8 DEF y

LEMMA PhaseIsLive ==
  ASSUME NEW x, NEW v, NEW k, Good(x, mail), Here(x, mail, v), Firm(x), Sensible(k),
         k.type = "PhaseChanged", k.phase \in {"Playing", "Paused"}, NEW near
  PROVE  Here(HandlePhase(x, k, near), mail, v)
<1> DEFINE y == [x EXCEPT !.phase = k.phase]
<1>1. Good(y, mail) /\ y.intent = x.intent /\ y.phase = k.phase
  BY PhaseIsGood DEF Phases
<1>2. Here(y, mail, v)
  BY PhasedIsLive
<1>3. GoodQueue(y.queue, Library)
  BY PhaseKeeps DEF Firm, Whole, Keeps
<1>4. Here(StopStale(x), mail, v)
  BY StaleIsLive
<1> HIDE DEF y
<1>5. k.token = x.intent.token => Here(ArmGaplessNow(y, near), mail, v)
  BY <1>1, <1>2, <1>3, ArmNowIsLive DEF Sensible, Good
<1> QED
  BY <1>4, <1>5 DEF HandlePhase, y

-----------------------------------------------------------------------------
(* A session ends.                                                           *)

\* The outgoing session has ended with the load still on its way: the engine
\* is silent, and waits for it too.
LEMMA EndsDead ==
  ASSUME NEW x, NEW v, Good(x, mail), Live(x, mail, To(x), engine, v), ~x.raced,
         x.pending # None, ~Past(x), EndIn(v, x.pending.from),
         NEW t, t = x.pending.token
  PROVE  /\ Deferred(x, mail, To(x), engine, t) => Dead(engine) /\ OnlyLoad(To(x), engine, t)
         /\ Done(mail, t) => Base(engine, t) /\ NoLoad(To(x), engine) /\ SeeksIn(To(x), {0})
<1> DEFINE from == x.pending.from
           c == To(x)
<1>1. x.intent = Loading(t, TRUE, from)
  BY DEF Good, Sane, Intended, Taken, Past
<1>2. IsLoading(x) /\ x.intent.token = t
  BY <1>1 DEF IsLoading, Loading
<1>3. Claims(x, mail, c, engine, v) /\ Orderly(x, mail, engine)
  BY DEF Live
<1>4. from # 0
  BY DEF Good, Sane, Typed, Session, Taken, Given
<1> HIDE DEF c, from
<1>5. Rest(c, engine, from) => Dead(engine)
  <2>1. SeekIn(c, from) => Base(engine, from)
    BY <1>3, <1>4, EndsStayIs DEF Claims, from
  <2>2. engine.last = from => ~Sounding(engine)
    BY <1>3, <1>4, EndsStayIs DEF Claims, from
  <2> QED
    BY <2>1, <2>2 DEF Rest, Base, Dead
<1>6. /\ NotYet(x, mail, t) => NotSent(c, engine, from)
      /\ Replies(x) => OnTheWay(c, engine, t, from)
      /\ Finished(mail, t, "failed") => FailedClaim(c, engine, v, t, from)
      /\ Finished(mail, t, "started") => StartedClaim(c, engine, v, t)
      /\ Finished(mail, t, "crossfaded") => CrossClaim(c, engine, v, t, from)
      /\ Finished(mail, t, "gapless") => GapClaim(c, engine, v, t, from)
  BY <1>3 DEF Claims, LoadingClaim, from
<1>7. /\ ~Finished(mail, t, "crossfaded") /\ ~Finished(mail, t, "gapless")
  BY <1>6 DEF CrossClaim, Fade, GapClaim, from
<1>8. NotYet(x, mail, t) => Dead(engine) /\ OnlyLoad(c, engine, t)
  BY <1>5, <1>6 DEF NotSent, NoLoad, OnlyLoad, NoLoadIn, LoadsAre
<1>9. Replies(x) => Dead(engine) /\ OnlyLoad(c, engine, t)
  BY <1>5, <1>6 DEF OnTheWay
<1>10. ASSUME Finished(mail, t, "failed") \/ Finished(mail, t, "started")
       PROVE  ~Deferred(x, mail, c, engine, t)
  <2>1. NoLoad(c, engine)
    BY <1>6, <1>10 DEF FailedClaim, StartedClaim
  <2>2. /\ x.task # None => x.task.token # t
        /\ \A i \in DOMAIN mail : mail[i].token = t => mail[i].type = "LoadFinished"
    BY <1>10, FinishedAlone DEF Good, Sane
  <2> QED
    BY <2>1, <2>2 DEF Deferred, NoLoad, NoLoadIn, LateIn, Pends
<1>11. Deferred(x, mail, c, engine, t) => Dead(engine) /\ OnlyLoad(c, engine, t)
  BY <1>2, <1>3, <1>7, <1>8, <1>9, <1>10, WhereLoad DEF Results
<1>12. Done(mail, t) => Base(engine, t) /\ NoLoad(c, engine) /\ SeeksIn(c, {0})
  BY <1>6, <1>7 DEF Done, StartedClaim, NoSeek, SeeksIn
<1> QED
  BY <1>11, <1>12 DEF c

LEMMA LateIsLive ==
  ASSUME NEW x, NEW v, NEW w, NEW k, Hears(x, v, w, k), Ending(k), x.pending # None, ~Past(x),
         x.pending.from = k.token
  PROVE  Here([CommitModel(x) EXCEPT !.intent = Loading(x.pending.token, FALSE, k.token),
                                     !.phase = "Ended"], mail, w)
<1> DEFINE y == CommitModel(x)
           z == [y EXCEPT !.intent = Loading(x.pending.token, FALSE, k.token), !.phase = "Ended"]
           t == x.pending.token
           c == To(x)
<1>1. /\ DOMAIN y = Fields /\ y.pending = None /\ y.nextToken = x.nextToken /\ y.task = x.task
      /\ y.out = x.out /\ y.raced = x.raced
  BY CommitEnds DEF Hears, Good, Sane, Shaped
<1> HIDE DEF y
<1>2. /\ z.pending = None /\ z.nextToken = x.nextToken /\ z.task = x.task /\ z.out = x.out
      /\ z.raced = x.raced /\ z.intent = Loading(t, FALSE, k.token)
  BY <1>1 DEF Fields
<1> HIDE DEF z
<1>3. To(z) = c
  BY <1>2 DEF To
<1>4. Loose(x, mail, c, engine, w)
  BY LiveIsLoose, FewerIsLoose DEF Hears
<1>5. Loose(z, mail, c, engine, w)
  BY <1>2, <1>4, SaysSelf, SaysLoose
<1>6. ASSUME ~z.raced PROVE LateClaim(z, mail, c, engine, w)
  <2>1. EndIn(v, x.pending.from)
    BY PoppedEvents DEF Hears
  <2>2. /\ Deferred(x, mail, c, engine, t) => Dead(engine) /\ OnlyLoad(c, engine, t)
        /\ Done(mail, t) => Base(engine, t) /\ NoLoad(c, engine) /\ SeeksIn(c, {0})
    BY <1>2, <1>6, <2>1, EndsDead DEF Hears
  <2>3. Deferred(z, mail, c, engine, t) => Deferred(x, mail, c, engine, t)
    BY <1>2 DEF Deferred
  <2>4. z.intent.token = t /\ ~z.intent.deferred
    BY <1>2 DEF Loading
  <2> QED
    BY <2>2, <2>3, <2>4 DEF LateClaim
<1>7. /\ CommittedClaim(z, mail, c, engine) /\ PastClaim(z, mail, c, engine, w)
      /\ LoadingClaim(z, mail, c, engine, w)
  BY <1>2 DEF CommittedClaim, PastClaim, Past, LoadingClaim, Loading
<1>8. Here(z, mail, w)
  BY <1>3, <1>5, <1>6, <1>7 DEF Here, Live, Loose, Claims
<1> QED
  BY <1>8 DEF y, z

LEMMA EndedIsLive ==
  ASSUME NEW x, NEW v, NEW w, NEW k, Hears(x, v, w, k), Ending(k), Firm(x), Filled(x)
  PROVE  Here(HandleEnded(x, k.token), mail, w)
<1> DEFINE t == k.token
           late == [CommitModel(x) EXCEPT !.intent = Loading(x.pending.token, FALSE, t),
                                          !.phase = "Ended"]
           base == IF t # x.intent.token THEN RevertTransition(x) ELSE x
           y == [base EXCEPT !.phase = "Ended"]
           moves == t = x.intent.token \/ WaitingFrom(x, t)
           lost == IsOutgoing(x, t) /\ x.pending.stage = "Loading"
<1>1. HandleEnded(x, t) = IF ~moves THEN x ELSE IF lost THEN late ELSE PlayNext(y)
  BY DEF HandleEnded
<1>2. k.type # "TrackSwitched"
  BY DEF Ending
<1>3. Here(x, mail, w)
  BY <1>2, FewerIsLive DEF Hears, Here
<1>4. CASE lost
  <2>1. x.pending # None /\ ~Past(x) /\ x.pending.from = t
    BY <1>4 DEF IsOutgoing, Past
  <2>2. Here(late, mail, w)
    BY <2>1, LateIsLive
  <2> QED
    BY <1>1, <1>3, <1>4, <2>2
<1>5. CASE moves /\ ~lost
  <2>1. Here(base, mail, w) /\ Good(base, mail)
    <3>1. CASE t = x.intent.token
      BY <1>3, <3>1 DEF Hears
    <3>2. CASE t # x.intent.token
      <4>1. x.pending # None /\ x.pending.stage # "Fading"
        BY <1>5, <3>2 DEF WaitingFrom, IsOutgoing
      <4>2. Here(RevertTransition(x), mail, w)
        BY <1>3, <4>1, RevertIsLive DEF Hears, Good
      <4> QED
        BY <3>2, <4>2, RevertIsGood DEF Hears
    <3> QED
      BY <3>1, <3>2
  <2>2. Firm(base) /\ Filled(base) /\ DOMAIN base = Fields
    <3>1. DOMAIN x = Fields
      BY DEF Firm, Whole
    <3>2. Keeps(x, RevertTransition(x)) /\ RevertTransition(x).pending = None
      BY <3>1, RevertKeeps
    <3> QED
      BY <3>1, <3>2, KeepsFirm DEF Filled, Keeps
  <2> HIDE DEF base
  <2>3. Good(y, mail) /\ Here(y, mail, w)
    BY <2>1, PhaseIsGood, PhasedIsLive DEF Phases
  <2>4. Firm(y) /\ Filled(y)
    <3>1. y.pending = base.pending /\ y.queue = base.queue /\ y.raced = base.raced
      BY <2>2 DEF Fields
    <3> QED
      BY <2>2, <3>1, PhaseKeeps, KeepsFirm DEF Filled
  <2> HIDE DEF y
  <2>5. Here(PlayNext(y), mail, w)
    BY <2>3, <2>4, PlayNextIsLive DEF Firm
  <2> QED
    BY <1>1, <1>5, <2>5
<1>6. CASE ~moves
  BY <1>1, <1>3, <1>6
<1> QED
  BY <1>4, <1>5, <1>6

-----------------------------------------------------------------------------
(* The engine has switched.                                                  *)

\* Where the engine is when the end of the transition is heard.
LEMMA SwitchedWhere ==
  ASSUME NEW x, NEW v, Good(x, mail), Live(x, mail, To(x), engine, v), ~x.raced,
         x.pending # None, NEW t, t = x.pending.token, SwitchIn(v, t)
  PROVE  /\ x.intent = Stopped \/ (Base(engine, t) /\ NoLoad(To(x), engine) /\ NoSeek(To(x)))
         /\ ~Past(x) => /\ Finished(mail, t, "crossfaded") \/ Finished(mail, t, "gapless")
                        /\ ~ErrorIn(v, t)
<1> DEFINE from == x.pending.from
           c == To(x)
<1>1. Claims(x, mail, c, engine, v) /\ Orderly(x, mail, engine) /\ Strange(x, mail, c, engine, v)
  BY DEF Live
<1>2. Given(x, t)
  BY DEF Good, Sane, Typed
<1>3. Fade(c, engine, v, t, from) => Base(engine, t) /\ NoLoad(c, engine) /\ NoSeek(c)
  BY DEF Fade, Base
<1>4. Lined(c, engine, v, t, from) => Base(engine, t) /\ NoLoad(c, engine) /\ NoSeek(c)
  BY DEF Lined
<1> HIDE DEF c
<1>5. CASE Past(x)
  <2>1. x.pending.stage \in {"Fading", "Queued"}
    BY <1>5 DEF Good, Sane, Shaped, Past
  <2>2. Fade(c, engine, v, t, from) \/ Lined(c, engine, v, t, from)
    BY <1>1, <1>5, <2>1 DEF Claims, PastClaim
  <2> QED
    BY <1>3, <1>4, <1>5, <2>2 DEF c
<1>6. CASE ~Past(x)
  <2>1. x.intent = Loading(t, TRUE, from)
    BY <1>6 DEF Good, Sane, Intended, Taken, Past
  <2>2. IsLoading(x) /\ x.intent.token = t
    BY <2>1 DEF IsLoading, Loading
  <2>3. Met(engine, v, t) /\ t \in Nat \ {0}
    BY <1>2 DEF Met, SwitchIn, ToldIn, Given
  <2>4. ~NotYet(x, mail, t) /\ ~LoadIn(c, t) /\ ~Pends(engine, t)
    BY <1>1, <2>3 DEF Strange
  <2>5. \E r \in Results \ {"dropped"} : Finished(mail, t, r)
    BY <1>1, <2>2, <2>4, WhereLoad DEF c
  <2>6. /\ Finished(mail, t, "failed") => FailedClaim(c, engine, v, t, from)
        /\ Finished(mail, t, "started") => StartedClaim(c, engine, v, t)
        /\ Finished(mail, t, "crossfaded") => CrossClaim(c, engine, v, t, from)
        /\ Finished(mail, t, "gapless") => GapClaim(c, engine, v, t, from)
    BY <1>1, <1>6 DEF Claims, LoadingClaim
  <2>7. ~Finished(mail, t, "failed") /\ ~Finished(mail, t, "started")
    BY <2>6 DEF FailedClaim, StartedClaim
  <2>8. Finished(mail, t, "crossfaded") \/ Finished(mail, t, "gapless")
    BY <2>5, <2>7 DEF Results
  <2>9. ~ErrorIn(v, t) /\ (Fade(c, engine, v, t, from) \/ Lined(c, engine, v, t, from))
    BY <2>6, <2>8 DEF CrossClaim, GapClaim
  <2> QED
    BY <1>3, <1>4, <2>8, <2>9 DEF c
<1> QED
  BY <1>5, <1>6

LEMMA CommitIsLive ==
  ASSUME NEW x, NEW v, NEW w, NEW k, Hears(x, v, w, k), k.type = "TrackSwitched",
         x.pending # None, x.pending.token = k.token
  PROVE  Here(CommitTransition(x), mail, w)
<1> DEFINE y == CommitTransition(x)
           t == k.token
           c == To(x)
<1>1. /\ y.pending = None /\ y.nextToken = x.nextToken
      /\ y.task = x.task /\ y.out = x.out /\ y.intent = x.intent /\ y.raced = x.raced
  BY CommitEnds DEF Hears, Good, Sane, Shaped
<1> SUFFICES Here(y, mail, w)
  OBVIOUS
<1> HIDE DEF y
<1>2. To(y) = c
  BY <1>1 DEF To
<1>3. Loose(x, mail, c, engine, w)
  BY LiveIsLoose, FewerIsLoose DEF Hears
<1>4. Loose(y, mail, c, engine, w)
  BY <1>1, <1>3, SaysSelf, SaysLoose
<1>5. /\ Live(y, mail, c, engine, w) <=> Here(y, mail, w)
      /\ Loose(y, mail, c, engine, w) <=> Near(y, mail, w)
  BY <1>2 DEF Here, Near
<1>8. CASE y.raced
  BY <1>4, <1>5, <1>8, RacedIsLive
<1>6. CASE ~y.raced
  <2>1. SwitchIn(v, t)
    BY PoppedEvents DEF Hears
  <2>2. /\ x.intent = Stopped \/ (Base(engine, t) /\ NoLoad(c, engine) /\ NoSeek(c))
        /\ ~Past(x) => /\ Finished(mail, t, "crossfaded") \/ Finished(mail, t, "gapless")
                       /\ ~ErrorIn(v, t)
    BY <1>1, <1>6, <2>1, SwitchedWhere DEF Hears
  <2>3. CASE x.intent = Stopped
    <3>1. Live(y, mail, c, engine, w)
      BY <1>1, <1>4, <2>3, StoppedIsLive
    <3> QED
      BY <1>5, <3>1
  <2>4. CASE Past(x) /\ x.intent # Stopped
    <3>1. x.intent = Committed(t) /\ Answered(x, mail, t)
      BY <1>1, <1>6, <2>4 DEF Hears, Good, Sane, Intended, Taken, Past
    <3>2. Answered(y, mail, t)
      BY <1>1, <3>1 DEF Answered
    <3>3. Rest(c, engine, t) /\ NoLoad(c, engine) /\ SeeksIn(c, {0, t})
      BY <2>2, <2>4 DEF Rest, NoSeek, SeeksIn
    <3>4. Live(y, mail, c, engine, w)
      BY <1>1, <1>4, <3>1, <3>2, <3>3, RestsLive
    <3> QED
      BY <1>5, <3>4
  <2>5. CASE ~Past(x) /\ x.intent # Stopped
    <3>1. x.intent = Loading(t, TRUE, x.pending.from)
      BY <1>1, <1>6, <2>5 DEF Hears, Good, Sane, Intended, Taken, Past
    <3>2. y.intent.token = t /\ y.intent.kind = "Loading"
      BY <1>1, <3>1 DEF Loading
    <3>3. /\ x.task # None => x.task.token # t
          /\ \A i \in DOMAIN mail : mail[i].token = t => mail[i].type = "LoadFinished"
      BY <2>2, <2>5, FinishedAlone DEF Hears, Good, Sane
    <3>4. ~Deferred(y, mail, c, engine, t)
      BY <1>1, <2>2, <2>5, <3>3 DEF Deferred, NoLoad, NoLoadIn, LateIn, Pends
    <3>5. ~ErrorIn(w, t)
      BY <2>2, <2>5, PoppedEvents DEF Hears
    <3>6. SeeksIn(c, {0})
      BY <2>2, <2>5 DEF NoSeek, SeeksIn
    <3>7. LateClaim(y, mail, c, engine, w)
      BY <2>2, <2>5, <3>2, <3>4, <3>5, <3>6 DEF LateClaim
    <3>8. /\ CommittedClaim(y, mail, c, engine) /\ PastClaim(y, mail, c, engine, w)
          /\ LoadingClaim(y, mail, c, engine, w)
      BY <1>1, <3>2 DEF CommittedClaim, PastClaim, Past, LoadingClaim
    <3>9. Live(y, mail, c, engine, w)
      BY <1>4, <1>6, <3>7, <3>8 DEF Live, Loose, Claims
    <3> QED
      BY <1>5, <3>9
  <2> QED
    BY <2>3, <2>4, <2>5
<1> QED
  BY <1>6, <1>8

LEMMA SwitchedIsLive ==
  ASSUME NEW x, NEW v, NEW w, NEW k, Hears(x, v, w, k), k.type = "TrackSwitched", Firm(x),
         NEW near
  PROVE  Here(HandleSwitched(x, k.token, near), mail, w)
<1> DEFINE y == CommitTransition(x)
           z == [y EXCEPT !.phase = "Playing"]
<1>1. CASE x.pending = None \/ x.pending.token # k.token
  <2>1. Here(x, mail, w)
    BY <1>1, FewerIsLive DEF Hears, Here
  <2> QED
    BY <1>1, <2>1 DEF HandleSwitched
<1>2. CASE ~(x.pending = None \/ x.pending.token # k.token)
  <2>1. /\ Good(y, mail) /\ Here(y, mail, w) /\ y.intent = x.intent
        /\ DOMAIN y = Fields /\ y.raced = x.raced
    BY <1>2, CommitIsGood, CommitIsLive, CommitEnds DEF Hears, Good, Sane, Shaped
  <2>2. GoodQueue(y.queue, Library)
    BY <1>2, CommitIsWhole DEF Firm, Whole
  <2> HIDE DEF y
  <2>3. Good(z, mail) /\ z.intent = x.intent /\ z.raced = x.raced
    BY <2>1, PhaseIsGood DEF Phases
  <2>4. Here(z, mail, w)
    BY <2>1, PhasedIsLive
  <2>5. GoodQueue(z.queue, Library)
    BY <2>1, <2>2 DEF Fields
  <2> HIDE DEF z
  <2>6. Given(x, x.pending.token)
    BY <1>2 DEF Hears, Good, Sane, Typed
  <2>7. mode = "gapless" => x.intent.token # 0 \/ x.raced
    BY <1>2, <2>6 DEF Hears, Good, Sane, Shaped, Intended, Typed, Taken, Loading, Committed, Given
  <2>8. Here(ArmGaplessNow(z, near), mail, w)
    BY <2>3, <2>4, <2>5, <2>7, ArmNowIsLive DEF Good
  <2> QED
    BY <1>2, <2>8 DEF HandleSwitched, y, z
<1> QED
  BY <1>1, <1>2

-----------------------------------------------------------------------------
(* A session fails, or a load.                                               *)

\* An error heard before the answer is that of a load that has failed.
LEMMA ErrorRests ==
  ASSUME NEW x, NEW v, Good(x, mail), Live(x, mail, To(x), engine, v), ~x.raced, ~Past(x),
         IsLoading(x), x.intent.deferred, ErrorIn(v, x.intent.token)
  PROVE  /\ Rest(To(x), engine, x.intent.from) /\ NoLoad(To(x), engine)
         /\ SeeksIn(To(x), {0, x.intent.from}) /\ Answered(x, mail, x.intent.from)
<1> DEFINE t == x.intent.token
           from == x.intent.from
           c == To(x)
<1>1. Claims(x, mail, c, engine, v) /\ Orderly(x, mail, engine) /\ Strange(x, mail, c, engine, v)
  BY DEF Live
<1>2. x.pending # None
  BY <1>1 DEF Claims, LateClaim
<1>3. x.intent = Loading(x.pending.token, TRUE, x.pending.from)
  BY <1>2 DEF Good, Sane, Intended, Taken, Past
<1>4. x.pending.token = t /\ x.pending.from = from
  BY <1>3 DEF Loading
<1>5. Given(x, t)
  BY <1>2, <1>4 DEF Good, Sane, Typed
<1> HIDE DEF t, from, c
<1>6. Met(engine, v, t) /\ t \in Nat \ {0}
  BY <1>5 DEF Met, ErrorIn, ToldIn, Given, t
<1>7. ~NotYet(x, mail, t) /\ ~LoadIn(c, t) /\ ~Pends(engine, t)
  BY <1>1, <1>6 DEF Strange
<1>8. \E r \in Results \ {"dropped"} : Finished(mail, t, r)
  BY <1>1, <1>7, WhereLoad DEF c, t
<1>9. /\ Finished(mail, t, "failed") => FailedClaim(c, engine, v, t, from)
      /\ Finished(mail, t, "started") => StartedClaim(c, engine, v, t)
      /\ Finished(mail, t, "crossfaded") => CrossClaim(c, engine, v, t, from)
      /\ Finished(mail, t, "gapless") => GapClaim(c, engine, v, t, from)
      /\ Answered(x, mail, from)
  BY <1>1, <1>2, <1>4 DEF Claims, LoadingClaim
<1>10. /\ ~Finished(mail, t, "started") /\ ~Finished(mail, t, "crossfaded")
       /\ ~Finished(mail, t, "gapless")
  BY <1>9 DEF StartedClaim, CrossClaim, GapClaim, t
<1>11. FailedClaim(c, engine, v, t, from)
  BY <1>8, <1>9, <1>10 DEF Results
<1> QED
  BY <1>9, <1>11 DEF FailedClaim, Rest, NoSeek, SeeksIn, c, from

\* The incoming session of a fade is gone: the outgoing one is not, yet.
LEMMA FadeFailIsLive ==
  ASSUME NEW x, NEW m, Sane(x, m), NEW v, Here(x, m, v), Past(x), x.pending.stage = "Fading",
         ~x.raced
  PROVE  Here(FailLoad(x, x.intent.token), m, v)
<1> DEFINE y == FailLoad(x, x.intent.token)
<1>1. ~IsLoading(x)
  BY DEF Sane, Intended, Taken, Past, IsLoading, Stopped, Committed
<1>2. /\ y.nextToken = x.nextToken /\ y.task = x.task /\ y.raced = x.raced
      /\ y.pending = x.pending /\ y.intent = Stopped
      /\ More(x.out, y.out, {"Pause"})
  BY <1>1, FailDoes
<1>3. Near(y, m, v)
  BY FailIsNear, LiveIsLoose DEF Here, Near
<1> HIDE DEF y
<1>4. {"Pause"} \subseteq Plain
  BY DEF Plain
<1>5. Says(To(x), To(y))
  BY <1>2, <1>4, OutSays DEF Sane
<1>6. ASSUME ~y.raced PROVE Claims(y, m, To(y), engine, v)
  <2>1. /\ Answered(x, m, x.pending.from)
        /\ Fade(To(x), engine, v, x.pending.token, x.pending.from)
    BY <1>2, <1>6 DEF Here, Live, Claims, PastClaim
  <2>2. Fade(To(y), engine, v, x.pending.token, x.pending.from)
    BY <1>5, <2>1 DEF Fade, NoLoad, Says
  <2>3. Answered(y, m, x.pending.from)
    BY <1>2, <2>1 DEF Answered
  <2>4. PastClaim(y, m, To(y), engine, v)
    BY <1>2, <2>2, <2>3 DEF PastClaim
  <2>5. /\ CommittedClaim(y, m, To(y), engine) /\ LoadingClaim(y, m, To(y), engine, v)
        /\ LateClaim(y, m, To(y), engine, v)
    BY <1>2 DEF CommittedClaim, LoadingClaim, LateClaim, Past, IsLoading, Stopped
  <2> QED
    BY <1>3, <1>6, <2>4, <2>5 DEF Claims, Near, Loose
<1>7. Here(y, m, v)
  BY <1>3, <1>6 DEF Here, Live, Near, Loose
<1> QED
  BY <1>7 DEF y

LEMMA FailIsLive ==
  ASSUME NEW x, NEW v, NEW w, NEW k, Hears(x, v, w, k), k.type = "Error",
         ~(x.pending # None /\ x.pending.stage = "Queued" /\ x.pending.token = k.token)
  PROVE  Here(FailLoad(x, k.token), mail, w)
<1> DEFINE t == k.token
<1>1. Here(x, mail, w)
  BY FewerIsLive DEF Hears, Here
<1>2. CASE x.intent.token # t
  BY <1>1, <1>2 DEF FailLoad
<1>3. CASE x.intent.token = t /\ x.raced
  <2>1. Near(FailLoad(x, t), mail, w)
    BY <1>1, FailIsNear, LiveIsLoose DEF Hears, Good, Here, Near
  <2>2. FailLoad(x, t).raced = x.raced
    BY <1>3, FailDoes DEF Hears, Good
  <2> QED
    BY <1>3, <2>1, <2>2, RacedIsLive
<1>4. CASE x.intent.token = t /\ ~x.raced /\ Past(x)
  <2>1. x.pending.stage = "Fading"
    <3>1. x.pending.stage = "Queued" => x.intent = Committed(x.pending.token)
      BY <1>4 DEF Hears, Good, Sane, Intended, Taken, Past
    <3>2. x.pending.stage # "Queued"
      BY <1>4, <3>1 DEF Past, Committed
    <3> QED
      BY <1>4, <3>2 DEF Hears, Good, Sane, Shaped, Past
  <2> QED
    BY <1>1, <1>4, <2>1, FadeFailIsLive DEF Hears, Good
<1>5. CASE x.intent.token = t /\ ~x.raced /\ ~Past(x)
  <2>1. Near(x, mail, w)
    BY <1>1, LiveIsLoose DEF Here, Near
  <2>2. ErrorIn(v, t)
    BY PoppedEvents DEF Hears
  <2>3. IsLoading(x) /\ x.intent.deferred =>
            /\ Rest(To(x), engine, x.intent.from) /\ NoLoad(To(x), engine)
            /\ SeeksIn(To(x), {0, x.intent.from}) /\ Answered(x, mail, x.intent.from)
    BY <1>5, <2>2, ErrorRests DEF Hears
  <2> QED
    BY <1>5, <2>1, <2>3, FailBackIsLive DEF Hears, Good
<1> QED
  BY <1>2, <1>3, <1>4, <1>5

LEMMA ErrorIsLive ==
  ASSUME NEW x, NEW v, NEW w, NEW k, Hears(x, v, w, k), k.type = "Error"
  PROVE  Here(HandleError(x, k.token), mail, w)
<1> DEFINE r == RevertTransition(x)
           y == [r EXCEPT !.armed = x.pending.from]
<1>1. CASE x.pending # None /\ x.pending.stage = "Queued" /\ x.pending.token = k.token
  <2>1. Here(x, mail, w)
    BY FewerIsLive DEF Hears, Here
  <2>2. Here(r, mail, w) /\ Good(r, mail)
    BY <1>1, <2>1, RevertIsLive, RevertIsGood DEF Hears, Good
  <2> HIDE DEF r
  <2>3. /\ y.pending = r.pending /\ y.intent = r.intent /\ y.nextToken = r.nextToken
        /\ y.task = r.task /\ y.out = r.out /\ y.raced = r.raced
    BY <2>2 DEF Good, Sane, Shaped, Fields
  <2> HIDE DEF y
  <2>4. Alike(r, y)
    BY <2>3 DEF Alike, SamePending
  <2>5. Here(y, mail, w)
    BY <2>2, <2>3, <2>4, ChangesLive DEF Good
  <2> QED
    BY <1>1, <2>5 DEF HandleError, y, r
<1>2. CASE ~(x.pending # None /\ x.pending.stage = "Queued" /\ x.pending.token = k.token)
  BY <1>2, FailIsLive DEF HandleError
<1> QED
  BY <1>1, <1>2

\* Every event.
LEMMA EventIsLive ==
  ASSUME NEW x, NEW v, NEW w, NEW k, Hears(x, v, w, k), Firm(x), Filled(x), Sensible(k), NEW near
  PROVE  Here(HandleEvent(x, k, near), mail, w)
<1> DEFINE t == k.token
<1>1. Good(x, mail)
  BY DEF Hears
<1>2. CASE k.type = "TrackSwitched"
  BY <1>2, SwitchedIsLive DEF HandleEvent
<1>3. CASE k.type # "TrackSwitched"
  <2>1. Here(x, mail, w)
    BY <1>3, FewerIsLive DEF Hears, Here
  <2>2. k.type = "PhaseChanged" /\ k.phase \in {"Playing", "Paused"} =>
           Here(HandlePhase(x, k, near), mail, w)
    BY <1>1, <2>1, PhaseIsLive
  <2>3. Here([x EXCEPT !.phase = "Idle"], mail, w) /\ Here(StopStale(x), mail, w)
    BY <1>1, <2>1, PhasedIsLive, StaleIsLive
  <2>4. Ending(k) => Here(HandleEnded(x, t), mail, w)
    BY EndedIsLive
  <2>5. k.type = "Error" => Here(HandleError(x, t), mail, w)
    BY ErrorIsLive
  <2>6. k.type = "Position" => Here(HandlePosition(x, t), mail, w)
    <3>1. GoodQueue(x.queue, Library)
      BY DEF Firm, Whole
    <3> QED
      BY <1>1, <2>1, <3>1, ArmIsLive DEF HandlePosition, ShouldArm, Sensible, Good
  <2> QED
    BY <1>3, <2>1, <2>2, <2>3, <2>4, <2>5, <2>6 DEF HandleEvent, Ending
<1> QED
  BY <1>2, <1>3

-----------------------------------------------------------------------------
(* What the engine emits: events of tokens in T, switches of S, errors of R, *)
(* ends of N.                                                                *)

Emitted(a, T, S, R, N) ==
    /\ a \in Seq(ToSet(a))
    /\ \A i \in DOMAIN a : /\ a[i].token \in T
                           /\ a[i].type = "TrackSwitched" => a[i].token \in S
                           /\ a[i].type = "Error" => a[i].token \in R
                           /\ Ending(a[i]) => a[i].token \in N
Emits(v, u, T, S, R, N) ==
    /\ \A t : ToldIn(u, t) => ToldIn(v, t) \/ t \in T
    /\ \A t : SwitchIn(u, t) => SwitchIn(v, t) \/ t \in S
    /\ \A t : SwitchIn(v, t) => SwitchIn(u, t)
    /\ \A t : ErrorIn(u, t) => ErrorIn(v, t) \/ t \in R
    /\ \A t : EndIn(u, t) => EndIn(v, t) \/ t \in N

LEMMA NoneEmitted ==
  ASSUME NEW T, NEW S, NEW R, NEW N PROVE Emitted(<<>>, T, S, R, N)
BY DEF Emitted, ToSet

LEMMA OneEmitted ==
  ASSUME NEW T, NEW S, NEW R, NEW N, NEW e, e.token \in T,
         e.type = "TrackSwitched" => e.token \in S, e.type = "Error" => e.token \in R,
         Ending(e) => e.token \in N
  PROVE  Emitted(<<e>>, T, S, R, N)
<1>1. <<e>> \in Seq({e}) /\ DOMAIN <<e>> = 1 .. 1 /\ <<e>>[1] = e
  OBVIOUS
<1>2. \A i \in DOMAIN <<e>> : <<e>>[i] = e
  BY <1>1
<1>3. <<e>> \in Seq(ToSet(<<e>>))
  BY <1>1, OwnElements
<1> QED
  BY <1>2, <1>3 DEF Emitted

\* What is in a sequence of two parts.
Joins(a, b, c) ==
    /\ c \in Seq(ToSet(c))
    /\ \A i \in DOMAIN c : \/ \E j \in DOMAIN a : a[j] = c[i]
                           \/ \E j \in DOMAIN b : b[j] = c[i]
    /\ \A j \in DOMAIN a : \E i \in DOMAIN c : c[i] = a[j]
    /\ \A j \in DOMAIN b : \E i \in DOMAIN c : c[i] = b[j]

LEMMA InConcat ==
  ASSUME NEW a, NEW b, a \in Seq(ToSet(a)), b \in Seq(ToSet(b))
  PROVE  Joins(a, b, a \o b)
<1> DEFINE c == a \o b
<1>1. /\ c \in Seq(ToSet(c)) /\ Len(a) \in Nat /\ Len(b) \in Nat
      /\ DOMAIN c = 1 .. Len(a) + Len(b)
      /\ \A i \in 1 .. Len(a) : c[i] = a[i]
      /\ \A i \in Len(a) + 1 .. Len(a) + Len(b) : c[i] = b[i - Len(a)]
  BY Concat
<1>2. DOMAIN a = 1 .. Len(a) /\ DOMAIN b = 1 .. Len(b)
  OBVIOUS
<1> HIDE DEF c, ToSet
<1>3. \A i \in DOMAIN c : (i \in DOMAIN a /\ c[i] = a[i])
                          \/ (i - Len(a) \in DOMAIN b /\ c[i] = b[i - Len(a)])
  <2> TAKE i \in DOMAIN c
  <2>1. CASE i <= Len(a)
    BY <1>1, <1>2, <2>1
  <2>2. CASE ~(i <= Len(a))
    <3>1. i - Len(a) \in 1 .. Len(b) /\ i \in Len(a) + 1 .. Len(a) + Len(b)
      BY <1>1, <1>2, <2>2
    <3> QED
      BY <1>1, <1>2, <3>1
  <2> QED
    BY <2>1, <2>2
<1>4. \A j \in DOMAIN a : j \in DOMAIN c /\ c[j] = a[j]
  BY <1>1, <1>2
<1>5. \A j \in DOMAIN b : j + Len(a) \in DOMAIN c /\ c[j + Len(a)] = b[j]
  <2> TAKE j \in DOMAIN b
  <2>1. j + Len(a) \in Len(a) + 1 .. Len(a) + Len(b) /\ (j + Len(a)) - Len(a) = j
    BY <1>1, <1>2
  <2>2. j + Len(a) \in DOMAIN c
    BY <1>1, <2>1
  <2> QED
    BY <1>1, <2>1, <2>2
<1> QED
  BY <1>1, <1>3, <1>4, <1>5 DEF c, Joins

LEMMA BothEmitted ==
  ASSUME NEW T, NEW S, NEW R, NEW N, NEW a, NEW b,
         Emitted(a, T, S, R, N), Emitted(b, T, S, R, N)
  PROVE  Emitted(a \o b, T, S, R, N)
<1> DEFINE c == a \o b
<1>1. Joins(a, b, c)
  BY InConcat DEF Emitted
<1> HIDE DEF c
<1>2. Emitted(c, T, S, R, N)
  BY <1>1 DEF Emitted, Joins
<1> QED
  BY <1>2 DEF c

LEMMA EmittedIn ==
  ASSUME NEW T, NEW S, NEW R, NEW N, NEW v, v \in Seq(ToSet(v)), NEW a, Emitted(a, T, S, R, N)
  PROVE  /\ Emits(v, v \o a, T, S, R, N)
         /\ \A t : SwitchIn(a, t) => SwitchIn(v \o a, t)
<1> DEFINE u == v \o a
<1>1. Joins(v, a, u)
  BY InConcat DEF Emitted
<1> HIDE DEF u
<1>2. \A t : ToldIn(u, t) => ToldIn(v, t) \/ t \in T
  BY <1>1 DEF Joins, ToldIn, Emitted
<1>3. \A t : SwitchIn(u, t) => SwitchIn(v, t) \/ t \in S
  <2>1. \A i \in DOMAIN a : a[i].type = "TrackSwitched" => a[i].token \in S
    BY DEF Emitted
  <2> QED
    BY <1>1, <2>1 DEF Joins, SwitchIn
<1>4. \A t : (SwitchIn(v, t) => SwitchIn(u, t)) /\ (SwitchIn(a, t) => SwitchIn(u, t))
  BY <1>1 DEF Joins, SwitchIn
<1>5. \A t : ErrorIn(u, t) => ErrorIn(v, t) \/ t \in R
  BY <1>1 DEF Joins, ErrorIn, Emitted
<1>6. \A t : EndIn(u, t) => EndIn(v, t) \/ t \in N
  BY <1>1 DEF Joins, EndIn, Emitted
<1>7. Emits(v, u, T, S, R, N) /\ \A t : SwitchIn(a, t) => SwitchIn(u, t)
  BY <1>2, <1>3, <1>4, <1>5, <1>6 DEF Emits
<1> QED
  BY <1>7 DEF u

LEMMA PhaseEmitted ==
  ASSUME NEW T, NEW S, NEW R, NEW N, NEW e, NEW f,
         EnginePhase(e) # EnginePhase(f) => f.last \in T,
         EnginePhase(e) # EnginePhase(f) /\ EnginePhase(f) = "Ended" => f.last \in N
  PROVE  Emitted(PhaseEvents(e, f), T, S, R, N)
<1> DEFINE k == [type |-> "PhaseChanged", token |-> f.last, phase |-> EnginePhase(f)]
<1>1. k.type = "PhaseChanged" /\ k.token = f.last /\ k.phase = EnginePhase(f)
  OBVIOUS
<1> HIDE DEF k
<1>2. Ending(k) <=> EnginePhase(f) = "Ended"
  BY <1>1 DEF Ending
<1>3. EnginePhase(e) # EnginePhase(f) => Emitted(<<k>>, T, S, R, N)
  BY <1>1, <1>2, OneEmitted
<1> QED
  BY <1>3, NoneEmitted DEF PhaseEvents, k

LEMMA EventEmitted ==
  ASSUME NEW T, NEW S, NEW R, NEW N, NEW type \in {"Loaded", "Error", "Ended", "TrackSwitched"},
         NEW t \in T, type = "TrackSwitched" => t \in S, type = "Error" => t \in R,
         type = "Ended" => t \in N
  PROVE  Emitted(<<Event(type, t)>>, T, S, R, N)
<1>1. Event(type, t).type = type /\ Event(type, t).token = t
  BY DEF Event
<1>2. Ending(Event(type, t)) => type = "Ended"
  BY <1>1 DEF Ending
<1> QED
  BY <1>1, <1>2, OneEmitted

\* What a step emits.
LEMMA StepEmitted ==
  ASSUME NEW T, NEW S, NEW R, NEW N, NEW e, NEW f, NEW before, NEW after, NEW reply,
         Emitted(before, T, S, R, N), Emitted(after, T, S, R, N),
         EnginePhase(e) # EnginePhase(f) => f.last \in T,
         EnginePhase(e) # EnginePhase(f) /\ EnginePhase(f) = "Ended" => f.last \in N
  PROVE  /\ Emitted(Step(e, f, before, after, reply).events, T, S, R, N)
         /\ Step(e, f, before, after, reply).eng = f
         /\ Step(e, f, before, after, reply).reply = reply
<1>1. Emitted(PhaseEvents(e, f), T, S, R, N)
  BY PhaseEmitted
<1>2. Emitted(before \o PhaseEvents(e, f), T, S, R, N)
  BY <1>1, BothEmitted
<1>3. Emitted(before \o PhaseEvents(e, f) \o after, T, S, R, N)
  BY <1>2, BothEmitted
<1> QED
  BY <1>3 DEF Step

-----------------------------------------------------------------------------
(* The commands that are left.                                               *)

\* d is c without its first command k.
Pops(c, d, k) ==
    /\ 1 \in DOMAIN c /\ c[1] = k
    /\ \A i \in DOMAIN c : i \in Nat
    /\ \A i \in DOMAIN d : i \in Nat /\ 0 < i /\ i + 1 \in DOMAIN c /\ d[i] = c[i + 1]
    /\ \A i \in DOMAIN c : i = 1 \/ (i - 1 \in DOMAIN d /\ d[i - 1] = c[i])

LEMMA TailPops ==
  ASSUME NEW c, c \in Seq(ToSet(c)), c # <<>>
  PROVE  Pops(c, Tail(c), Head(c))
<1> DEFINE d == Tail(c)
<1>1. /\ Len(c) \in Nat /\ Len(c) > 0 /\ DOMAIN c = 1 .. Len(c) /\ DOMAIN d = 1 .. Len(c) - 1
      /\ \A i \in 1 .. Len(c) - 1 : d[i] = c[i + 1]
      /\ Head(c) = c[1]
  BY TailMail
<1> HIDE DEF d
<1>2. \A i \in DOMAIN d : i \in Nat /\ 0 < i /\ i + 1 \in DOMAIN c /\ d[i] = c[i + 1]
  BY <1>1
<1>3. \A i \in DOMAIN c : i = 1 \/ (i - 1 \in DOMAIN d /\ d[i - 1] = c[i])
  BY <1>1
<1>4. 1 \in DOMAIN c /\ \A i \in DOMAIN c : i \in Nat
  BY <1>1
<1> QED
  BY <1>1, <1>2, <1>3, <1>4 DEF Pops, d

LEMMA PopsLess ==
  ASSUME NEW c, NEW d, NEW k, Pops(c, d, k)
  PROVE  /\ \A u : SeekIn(d, u) => SeekIn(c, u)
         /\ \A u : SeekIn(c, u) => SeekIn(d, u) \/ (k.op = "Seek" /\ k.token = u)
         /\ \A t : (LoadIn(d, t) => LoadIn(c, t)) /\ (LateIn(d, t) => LateIn(c, t))
         /\ NoLoadIn(c) => NoLoadIn(d) /\ k.op # "Load"
         /\ NoSeek(c) => NoSeek(d) /\ k.op # "Seek"
         /\ \A U : SeeksIn(c, U) => SeeksIn(d, U) /\ (k.op = "Seek" => k.token \in U)
         /\ \A t : LoadsAre(c, t) => LoadsAre(d, t) /\ (k.op = "Load" => k.token = t)
         /\ Calm(c) => Calm(d) /\ k.op \in Tame
         /\ k.op = "Load" => /\ LoadIn(c, k.token)
                             /\ k.transition # "immediate" => LateIn(c, k.token)
         /\ k.op = "Seek" => SeekIn(c, k.token)
<1>1. \A i \in DOMAIN d : \E j \in DOMAIN c : c[j] = d[i]
  BY DEF Pops
<1>2. \A j \in DOMAIN c : c[j] = k \/ \E i \in DOMAIN d : d[i] = c[j]
  BY DEF Pops
<1>3. \E j \in DOMAIN c : c[j] = k
  BY DEF Pops
<1>4. /\ \A u : SeekIn(d, u) => SeekIn(c, u)
      /\ \A u : SeekIn(c, u) => SeekIn(d, u) \/ (k.op = "Seek" /\ k.token = u)
      /\ k.op = "Seek" => SeekIn(c, k.token)
  BY <1>1, <1>2, <1>3 DEF SeekIn
<1>5. /\ \A t : (LoadIn(d, t) => LoadIn(c, t)) /\ (LateIn(d, t) => LateIn(c, t))
      /\ k.op = "Load" => /\ LoadIn(c, k.token)
                          /\ k.transition # "immediate" => LateIn(c, k.token)
  BY <1>1, <1>3 DEF LoadIn, LateIn
<1>6. /\ NoLoadIn(c) => NoLoadIn(d) /\ k.op # "Load"
      /\ NoSeek(c) => NoSeek(d) /\ k.op # "Seek"
  BY <1>1, <1>3 DEF NoLoadIn, NoSeek
<1>7. /\ \A U : SeeksIn(c, U) => SeeksIn(d, U) /\ (k.op = "Seek" => k.token \in U)
      /\ \A t : LoadsAre(c, t) => LoadsAre(d, t) /\ (k.op = "Load" => k.token = t)
  BY <1>1, <1>3 DEF SeeksIn, LoadsAre
<1>8. Calm(c) => Calm(d) /\ k.op \in Tame
  BY <1>1, <1>3 DEF Calm
<1> QED
  BY <1>4, <1>5, <1>6, <1>7, <1>8

LEMMA PopsOrder ==
  ASSUME NEW c, NEW d, NEW k, Pops(c, d, k)
  PROVE  /\ SeeksFirst(c) => SeeksFirst(d) /\ (k.op = "Load" => NoSeek(d))
         /\ AimedFirst(c) => /\ AimedFirst(d)
                             /\ k.op = "Load" => \A u : u # 0 => ~SeekIn(c, u)
<1>1. \A i \in DOMAIN d : /\ i \in Nat /\ 0 < i
                          /\ i + 1 \in DOMAIN c /\ d[i] = c[i + 1] /\ 1 \in DOMAIN c
                          /\ c[1] = k /\ ~(i + 1 < 1)
  <2> TAKE i \in DOMAIN d
  <2>1. i \in Nat /\ 0 < i /\ i + 1 \in DOMAIN c /\ d[i] = c[i + 1]
    BY DEF Pops
  <2> QED
    BY <2>1 DEF Pops
<1>2. \A i, j \in DOMAIN d : i + 1 < j + 1 => i < j
  <2> TAKE i, j \in DOMAIN d
  <2>1. i \in Nat /\ j \in Nat
    BY <1>1
  <2> QED
    BY <2>1
<1>3. \A j \in DOMAIN c : ~(j < 1)
  <2> TAKE j \in DOMAIN c
  <2>1. CASE j = 1
    BY <2>1
  <2>2. CASE j # 1
    <3>1. j - 1 \in DOMAIN d /\ j \in Nat
      BY <2>2 DEF Pops
    <3>2. 0 < j - 1
      BY <1>1, <3>1
    <3> QED
      BY <3>1, <3>2
  <2> QED
    BY <2>1, <2>2
<1>4. 1 \in DOMAIN c /\ c[1] = k
  BY DEF Pops
<1>5. SeeksFirst(c) => SeeksFirst(d)
  BY <1>1, <1>2 DEF SeeksFirst
<1>6. SeeksFirst(c) /\ k.op = "Load" => NoSeek(d)
  BY <1>1 DEF SeeksFirst, NoSeek
<1>7. AimedFirst(c) => AimedFirst(d)
  BY <1>1, <1>2 DEF AimedFirst
<1>8. AimedFirst(c) /\ k.op = "Load" => \A u : u # 0 => ~SeekIn(c, u)
  BY <1>3, <1>4 DEF AimedFirst, SeekIn
<1> QED
  BY <1>5, <1>6, <1>7, <1>8

-----------------------------------------------------------------------------
(* A step of the engine: c, e and v are the commands, the engine and the     *)
(* events before it; d, f and u are those after it.                          *)

\* A seek of the session the engine is at may be taken with the rest.
Gives(c, d, f) ==
    /\ \A a : a # 0 => /\ SeekIn(d, a) => SeekIn(c, a)
                       /\ SeekIn(c, a) => SeekIn(d, a) \/ Base(f, a)
    /\ \A t : LoadIn(d, t) => LoadIn(c, t)
    /\ \A t : LateIn(d, t) => LateIn(c, t)
    /\ NoLoadIn(c) => NoLoadIn(d)
    /\ NoSeek(c) => NoSeek(d)
    /\ \A U : SeeksIn(c, U) => SeeksIn(d, U)
    /\ \A t : LoadsAre(c, t) => LoadsAre(d, t)
    /\ SeeksFirst(c) => SeeksFirst(d)
    /\ AimedFirst(c) => AimedFirst(d)
\* The engine stays with its session, and lets go of what it has besides.
Settles(e, f) == /\ f.last = e.last /\ f.fade \in {e.fade, 0} /\ f.next \in {e.next, 0}
                 /\ f.pend = e.pend \/ f.pend = None
Twin(x, y) == /\ y.pending = x.pending /\ y.intent = x.intent /\ y.task = x.task
              /\ y.nextToken = x.nextToken /\ (x.raced => y.raced)
Known3(e) == {e.fade, e.next, e.last, 0}

LEMMA SaysGives ==
  ASSUME NEW c, NEW d, NEW f, Says(c, d) PROVE Gives(c, d, f)
BY DEF Says, Gives

LEMMA PopsGives ==
  ASSUME NEW c, NEW d, NEW k, Pops(c, d, k), NEW f,
         k.op = "Seek" /\ k.token # 0 => Base(f, k.token)
  PROVE  Gives(c, d, f)
<1>1. /\ \A a : SeekIn(d, a) => SeekIn(c, a)
      /\ \A a : SeekIn(c, a) => SeekIn(d, a) \/ (k.op = "Seek" /\ k.token = a)
      /\ \A t : (LoadIn(d, t) => LoadIn(c, t)) /\ (LateIn(d, t) => LateIn(c, t))
      /\ NoLoadIn(c) => NoLoadIn(d)
      /\ NoSeek(c) => NoSeek(d)
      /\ \A U : SeeksIn(c, U) => SeeksIn(d, U)
      /\ \A t : LoadsAre(c, t) => LoadsAre(d, t)
  BY PopsLess
<1>2. (SeeksFirst(c) => SeeksFirst(d)) /\ (AimedFirst(c) => AimedFirst(d))
  BY PopsOrder
<1> QED
  BY <1>1, <1>2 DEF Gives

LEMMA TwinIs ==
  ASSUME NEW x, NEW y, Twin(x, y)
  PROVE  /\ \A m, t : NotYet(y, m, t) => NotYet(x, m, t)
         /\ \A m, t : Answered(x, m, t) => Answered(y, m, t)
         /\ Replies(y) => Replies(x)
         /\ Past(y) <=> Past(x)
         /\ IsLoading(y) <=> IsLoading(x)
BY DEF Twin, NotYet, Unsaid, Answered, Replies, Past, IsLoading

\* What is said of the engine at rest.
LEMMA QuietRests ==
  ASSUME NEW c, NEW d, NEW e, NEW f, Gives(c, d, f), Settles(e, f)
  PROVE  /\ \A a : Base(e, a) => Base(f, a)
         /\ \A a : Rest(c, e, a) => Rest(d, f, a)
         /\ NoLoad(c, e) => NoLoad(d, f)
         /\ \A t : OnlyLoad(c, e, t) => OnlyLoad(d, f, t)
         /\ \A t : Pends(f, t) => Pends(e, t) /\ f.pend = e.pend
         /\ e.pend = None => f.pend = None
<1>1. \A a : Base(e, a) => Base(f, a)
  BY DEF Base, Settles
<1>2. \A a : Rest(c, e, a) => Rest(d, f, a)
  BY <1>1 DEF Rest, Gives
<1>3. /\ e.pend = None => f.pend = None
      /\ \A t : Pends(f, t) => Pends(e, t) /\ f.pend = e.pend
  BY DEF Settles, Pends
<1>4. NoLoad(c, e) => NoLoad(d, f)
  BY <1>3 DEF NoLoad, Gives
<1>5. \A t : OnlyLoad(c, e, t) => OnlyLoad(d, f, t)
  BY DEF OnlyLoad, Gives, Settles
<1> QED
  BY <1>1, <1>2, <1>3, <1>4, <1>5

LEMMA QuietStrange ==
  ASSUME NEW x, NEW y, NEW m, NEW c, NEW d, NEW e, NEW f, NEW v, NEW u, NEW S, NEW R,
         Strange(x, m, c, e, v), Orderly(x, m, e), Twin(x, y), Gives(c, d, f), Settles(e, f),
         Emits(v, u, Known3(e), S, R, {})
  PROVE  Strange(y, m, d, f, u) /\ Orderly(y, m, f)
<1>1. Orderly(y, m, f)
  BY DEF Orderly, Twin, Settles
<1>2. \A t \in Nat \ {0} : Met(f, u, t) => Met(e, v, t)
  BY DEF Met, Settles, Emits, Known3
<1>3. \A t : NotYet(y, m, t) => NotYet(x, m, t)
  BY TwinIs
<1>4. \A t : (Pends(f, t) => Pends(e, t)) /\ (LoadIn(d, t) => LoadIn(c, t))
  BY QuietRests DEF Gives
<1>5. Strange(y, m, d, f, u)
  BY <1>2, <1>3, <1>4 DEF Strange, Twin
<1> QED
  BY <1>1, <1>5

LEMMA QuietOrder ==
  ASSUME NEW c, NEW d, NEW e, NEW f, NEW v, NEW u, NEW S, NEW R,
         EndsStay(c, e, v), SeekOrder(c, e), Gives(c, d, f), Settles(e, f),
         Emits(v, u, Known3(e), S, R, {}), Sounding(f) => Sounding(e)
  PROVE  EndsStay(d, f, u) /\ SeekOrder(d, f)
<1>1. \A a : Base(e, a) => Base(f, a)
  BY QuietRests
<1>2. \A a : EndIn(u, a) => EndIn(v, a)
  BY DEF Emits
<1>3. ASSUME NEW a, a # 0, EndIn(u, a)
      PROVE  a \notin {f.fade, f.next} /\ (f.last = a => ~Sounding(f))
             /\ (SeekIn(d, a) => Base(f, a))
  <2>1. a \notin {e.fade, e.next} /\ (e.last = a => ~Sounding(e)) /\ (SeekIn(c, a) => Base(e, a))
    BY <1>2, <1>3, EndsStayIs
  <2> QED
    BY <1>1, <1>3, <2>1 DEF Settles, Gives
<1>4. EndsStay(d, f, u)
  BY <1>3, EndsStayIs
<1>5. SeekOrder(d, f)
  <2>1. \A a : a # 0 /\ SeekIn(d, a) => e.pend = None /\ e.next = 0 /\ (e.last = a => e.fade = 0)
    BY SeekOrderIs DEF Gives
  <2>2. AimedFirst(d)
    BY SeekOrderIs DEF Gives
  <2>3. \A a : a # 0 /\ SeekIn(d, a) => f.pend = None /\ f.next = 0 /\ (f.last = a => f.fade = 0)
    BY <2>1 DEF Settles
  <2> QED
    BY <2>2, <2>3, SeekOrderIs
<1> QED
  BY <1>4, <1>5

LEMMA QuietFades ==
  ASSUME NEW c, NEW d, NEW e, NEW f, NEW v, NEW u, NEW S, NEW R, Gives(c, d, f), Settles(e, f),
         Emits(v, u, Known3(e), S, R, {}), S = {} \/ (e.fade # 0 /\ f.fade = 0),
         NEW t, NEW from
  PROVE  /\ Fade(c, e, v, t, from) => Fade(d, f, u, t, from)
         /\ Lined(c, e, v, t, from) => Lined(d, f, u, t, from)
         /\ e.fade = 0 => \A a : SwitchIn(u, a) => SwitchIn(v, a)
<1>1. /\ NoLoad(c, e) => NoLoad(d, f)
      /\ \A a : Base(e, a) => Base(f, a)
  BY QuietRests
<1>2. f.fade # 0 \/ e.fade = 0 => \A a : SwitchIn(u, a) => SwitchIn(v, a)
  BY DEF Settles, Emits
<1>3. \A a : (SwitchIn(v, a) => SwitchIn(u, a)) /\ (EndIn(u, a) => EndIn(v, a))
  BY DEF Emits
<1>4. Fade(c, e, v, t, from) => Fade(d, f, u, t, from)
  BY <1>1, <1>2, <1>3 DEF Fade, Settles, Gives
<1>5. ASSUME Lined(c, e, v, t, from) PROVE Lined(d, f, u, t, from)
  <2>1. NoLoad(d, f) /\ NoSeek(d)
    BY <1>1, <1>5 DEF Lined, Gives
  <2>2. CASE e.last = from /\ e.fade = 0 /\ e.next \in {0, t} /\ ~SwitchIn(v, t)
    BY <1>2, <2>1, <2>2 DEF Lined, Settles
  <2>3. CASE Base(e, t) /\ SwitchIn(v, t)
    BY <1>1, <1>3, <2>1, <2>3 DEF Lined
  <2> QED
    BY <1>5, <2>2, <2>3 DEF Lined
<1> QED
  BY <1>2, <1>4, <1>5

LEMMA QuietIsLive ==
  ASSUME NEW x, NEW y, NEW m, NEW c, NEW d, NEW e, NEW f, NEW v, NEW u, NEW S, NEW R,
         Live(x, m, c, e, v), Intended(x), Twin(x, y), Gives(c, d, f), Settles(e, f),
         Emits(v, u, Known3(e), S, R, {}), S = {} \/ (e.fade # 0 /\ f.fade = 0),
         y.raced \/ (Sounding(f) => Sounding(e)),
         y.raced \/ ~IsLoading(x) \/ R = {},
         \/ y.raced \/ x.pending = None \/ Past(x) \/ ~Finished(m, x.pending.token, "gapless")
         \/ f.next = e.next /\ (Calm(c) => Calm(d))
  PROVE  Live(y, m, d, f, u)
<1>1. Strange(y, m, d, f, u) /\ Orderly(y, m, f)
  BY QuietStrange DEF Live
<1>2. ASSUME ~y.raced PROVE Claims(y, m, d, f, u)
  <2>1. Claims(x, m, c, e, v)
    BY <1>2 DEF Live, Twin
  <2>2. EndsStay(d, f, u) /\ SeekOrder(d, f)
    BY <1>2, <2>1, QuietOrder DEF Claims
  <2>3. /\ \A a : Base(e, a) => Base(f, a)
        /\ \A a : Rest(c, e, a) => Rest(d, f, a)
        /\ NoLoad(c, e) => NoLoad(d, f)
        /\ \A t : OnlyLoad(c, e, t) => OnlyLoad(d, f, t)
        /\ \A t : Pends(f, t) => Pends(e, t) /\ f.pend = e.pend
        /\ e.pend = None => f.pend = None
    BY QuietRests
  <2>4. /\ \A t : NotYet(y, m, t) => NotYet(x, m, t)
        /\ \A t : Answered(x, m, t) => Answered(y, m, t)
        /\ Replies(y) => Replies(x)
        /\ Past(y) <=> Past(x)
        /\ IsLoading(y) <=> IsLoading(x)
    BY TwinIs
  <2>5. /\ \A t, from : Fade(c, e, v, t, from) => Fade(d, f, u, t, from)
        /\ \A t, from : Lined(c, e, v, t, from) => Lined(d, f, u, t, from)
        /\ e.fade = 0 => \A a : SwitchIn(u, a) => SwitchIn(v, a)
    BY QuietFades
  <2>6. IsLoading(x) => \A t : ErrorIn(u, t) => ErrorIn(v, t)
    BY <1>2 DEF Emits
  <2>7. CommittedClaim(y, m, d, f)
    BY <2>1, <2>3, <2>4 DEF Claims, CommittedClaim, Twin, Gives
  <2>8. PastClaim(y, m, d, f, u)
    BY <2>1, <2>4, <2>5 DEF Claims, PastClaim, Twin
  <2>9. LoadingClaim(y, m, d, f, u)
    <3>1. SUFFICES ASSUME x.pending # None, ~Past(x) PROVE LoadingClaim(y, m, d, f, u)
      BY <2>4 DEF LoadingClaim, Twin
    <3> DEFINE t == x.pending.token
               from == x.pending.from
    <3>2. IsLoading(x)
      BY <1>2, <3>1 DEF Intended, Past, IsLoading, Loading, Taken, Twin
    <3>3. /\ Answered(x, m, from)
          /\ NotYet(x, m, t) => NotSent(c, e, from)
          /\ Replies(x) => OnTheWay(c, e, t, from)
          /\ Finished(m, t, "failed") => FailedClaim(c, e, v, t, from)
          /\ Finished(m, t, "started") => StartedClaim(c, e, v, t)
          /\ Finished(m, t, "crossfaded") => CrossClaim(c, e, v, t, from)
          /\ Finished(m, t, "gapless") => GapClaim(c, e, v, t, from)
      BY <2>1, <3>1 DEF Claims, LoadingClaim
    <3>4. NotSent(c, e, from) => NotSent(d, f, from)
      BY <2>3 DEF NotSent, Gives
    <3>5. OnTheWay(c, e, t, from) => OnTheWay(d, f, t, from)
      BY <2>3 DEF OnTheWay, Gives
    <3>6. FailedClaim(c, e, v, t, from) => FailedClaim(d, f, u, t, from)
      BY <2>3, <2>5 DEF FailedClaim, Gives, Base
    <3>7. StartedClaim(c, e, v, t) => StartedClaim(d, f, u, t)
      BY <2>3, <2>5, <2>6, <3>2 DEF StartedClaim, Gives, Base
    <3>8. CrossClaim(c, e, v, t, from) => CrossClaim(d, f, u, t, from)
      BY <2>5, <2>6, <3>2 DEF CrossClaim
    <3>9. ASSUME Finished(m, t, "gapless") PROVE GapClaim(d, f, u, t, from)
      <4>1. f.next = e.next /\ (Calm(c) => Calm(d))
        BY <1>2, <3>1, <3>9
      <4> QED
        BY <2>5, <2>6, <3>2, <3>3, <3>9, <4>1 DEF GapClaim, Settles, Emits
    <3> HIDE DEF t, from
    <3>10. y.pending # None /\ y.pending.token = t /\ y.pending.from = from
      BY <3>1 DEF Twin, t, from
    <3> QED
      BY <2>4, <3>3, <3>4, <3>5, <3>6, <3>7, <3>8, <3>9, <3>10 DEF LoadingClaim
  <2>10. LateClaim(y, m, d, f, u)
    <3>1. \A t : Deferred(y, m, d, f, t) => Deferred(x, m, c, e, t)
      BY <2>3 DEF Deferred, Twin, Gives
    <3>2. Dead(e) => Dead(f)
      BY <1>2 DEF Dead, Settles
    <3> QED
      BY <2>1, <2>3, <2>4, <2>6, <3>1, <3>2 DEF Claims, LateClaim, Twin, Gives
  <2> QED
    BY <2>2, <2>7, <2>8, <2>9, <2>10 DEF Claims
<1> QED
  BY <1>1, <1>2 DEF Live

-----------------------------------------------------------------------------
(* A step of the engine that does not answer a load.                         *)

\* A load that was made for a transition, and is with the engine.
Later(c, e, t) == LateIn(c, t) \/ (Pends(e, t) /\ e.pend.transition # "immediate")
Carries(c, e, v, d, f, u) ==
    \A t, from : t # 0 /\ from # 0 /\ t # from =>
       /\ NotSent(c, e, from) => NotSent(d, f, from)
       /\ OnTheWay(c, e, t, from) => OnTheWay(d, f, t, from)
       /\ Fade(c, e, v, t, from) => Fade(d, f, u, t, from)
       /\ Lined(c, e, v, t, from) => Lined(d, f, u, t, from)
       /\ FailedClaim(c, e, v, t, from) => FailedClaim(d, f, u, t, from)
       /\ StartedClaim(c, e, v, t) => StartedClaim(d, f, u, t)
       /\ CrossClaim(c, e, v, t, from) => CrossClaim(d, f, u, t, from)
       /\ GapClaim(c, e, v, t, from) => GapClaim(d, f, u, t, from)
CarriesLate(c, e, d, f) ==
    \A t : t # 0 =>
       /\ Later(d, f, t) => Later(c, e, t)
       /\ Dead(e) /\ OnlyLoad(c, e, t) => Dead(f) /\ OnlyLoad(d, f, t)
       /\ Base(e, t) /\ NoLoad(c, e) /\ SeeksIn(c, {0}) =>
             Base(f, t) /\ NoLoad(d, f) /\ SeeksIn(d, {0})

LEMMA CarriedIsLive ==
  ASSUME NEW x, NEW y, NEW m, NEW c, NEW d, NEW e, NEW f, NEW v, NEW u,
         Live(x, m, c, e, v), Typed(x), Twin(x, y), Strange(y, m, d, f, u), Orderly(y, m, f),
         ~y.raced => /\ EndsStay(d, f, u) /\ SeekOrder(d, f)
                     /\ Carries(c, e, v, d, f, u) /\ CarriesLate(c, e, d, f)
                     /\ \A t : ErrorIn(u, t) => ErrorIn(v, t)
  PROVE  Live(y, m, d, f, u)
<1>1. ASSUME ~y.raced PROVE Claims(y, m, d, f, u)
  <2>1. Claims(x, m, c, e, v)
    BY <1>1 DEF Live, Twin
  <2>2. Carries(c, e, v, d, f, u) /\ CarriesLate(c, e, d, f)
        /\ \A t : ErrorIn(u, t) => ErrorIn(v, t)
    BY <1>1
  <2>3. /\ \A t : NotYet(y, m, t) => NotYet(x, m, t)
        /\ \A t : Answered(x, m, t) => Answered(y, m, t)
        /\ Replies(y) => Replies(x)
        /\ Past(y) <=> Past(x)
        /\ IsLoading(y) <=> IsLoading(x)
    BY TwinIs
  <2>4. x.pending # None => /\ x.pending.token # 0 /\ x.pending.from # 0
                            /\ x.pending.token # x.pending.from
    BY <1>1 DEF Typed, Given, Live, Orderly, Session, Taken, Twin
  <2>5. x.intent.kind = "Committed" \/ IsLoading(x) => x.intent.token # 0
    BY <1>1 DEF Typed, Given, Stopped, IsLoading, Session, Taken, Twin
  <2>6. CommittedClaim(y, m, d, f)
    <3>1. SUFFICES ASSUME x.intent.kind = "Committed", x.pending = None
                   PROVE  CommittedClaim(y, m, d, f)
      BY DEF CommittedClaim, Twin
    <3> DEFINE i == x.intent.token
    <3>2. NotSent(c, e, i) /\ Answered(x, m, i)
      BY <2>1, <3>1 DEF Claims, CommittedClaim, NotSent
    <3>3. i # 0 /\ i + 1 # 0 /\ i \in Nat
      BY <1>1, <3>1 DEF Typed, Given, Stopped, Session, Taken, Twin
    <3>4. i + 1 # i
      BY <3>3
    <3>5. NotSent(d, f, i)
      BY <2>2, <3>2, <3>3, <3>4 DEF Carries
    <3> QED
      BY <2>3, <3>2, <3>5 DEF CommittedClaim, NotSent, Twin
  <2>7. PastClaim(y, m, d, f, u)
    <3>1. SUFFICES ASSUME Past(x) PROVE PastClaim(y, m, d, f, u)
      BY <2>3 DEF PastClaim
    <3>2. Answered(y, m, x.pending.from)
      BY <2>1, <2>3, <3>1 DEF Claims, PastClaim
    <3>3. x.pending.stage = "Fading" => Fade(d, f, u, x.pending.token, x.pending.from)
      BY <2>1, <2>2, <2>4, <3>1 DEF Claims, PastClaim, Carries, Past
    <3>4. x.pending.stage = "Queued" => /\ Lined(d, f, u, x.pending.token, x.pending.from)
                                        /\ x.task = None
      BY <2>1, <2>2, <2>4, <3>1 DEF Claims, PastClaim, Carries, Past
    <3> QED
      BY <3>2, <3>3, <3>4 DEF PastClaim, Twin
  <2>8. LoadingClaim(y, m, d, f, u)
    <3>1. SUFFICES ASSUME x.pending # None, ~Past(x) PROVE LoadingClaim(y, m, d, f, u)
      BY <2>3 DEF LoadingClaim, Twin
    <3> DEFINE t == x.pending.token
               from == x.pending.from
    <3>2. /\ Answered(x, m, from)
          /\ NotYet(x, m, t) => NotSent(c, e, from)
          /\ Replies(x) => OnTheWay(c, e, t, from)
          /\ Finished(m, t, "failed") => FailedClaim(c, e, v, t, from)
          /\ Finished(m, t, "started") => StartedClaim(c, e, v, t)
          /\ Finished(m, t, "crossfaded") => CrossClaim(c, e, v, t, from)
          /\ Finished(m, t, "gapless") => GapClaim(c, e, v, t, from)
      BY <2>1, <3>1 DEF Claims, LoadingClaim
    <3>3. t # 0 /\ from # 0 /\ t # from
      BY <2>4, <3>1
    <3>4. y.pending # None /\ y.pending.token = t /\ y.pending.from = from
      BY <3>1 DEF Twin
    <3> HIDE DEF t, from
    <3>5. /\ NotSent(c, e, from) => NotSent(d, f, from)
          /\ OnTheWay(c, e, t, from) => OnTheWay(d, f, t, from)
          /\ FailedClaim(c, e, v, t, from) => FailedClaim(d, f, u, t, from)
          /\ StartedClaim(c, e, v, t) => StartedClaim(d, f, u, t)
          /\ CrossClaim(c, e, v, t, from) => CrossClaim(d, f, u, t, from)
          /\ GapClaim(c, e, v, t, from) => GapClaim(d, f, u, t, from)
      BY <2>2, <3>3 DEF Carries
    <3> QED
      BY <2>3, <3>2, <3>4, <3>5 DEF LoadingClaim
  <2>9. LateClaim(y, m, d, f, u)
    <3>1. SUFFICES ASSUME IsLoading(x), x.pending = None PROVE LateClaim(y, m, d, f, u)
      BY <2>3 DEF LateClaim, Twin
    <3> DEFINE t == x.intent.token
    <3>2. Deferred(y, m, d, f, t) => Deferred(x, m, c, e, t)
      BY <2>2, <2>5, <3>1 DEF Deferred, CarriesLate, Later, Twin
    <3>3. /\ Deferred(x, m, c, e, t) => Dead(e) /\ OnlyLoad(c, e, t)
          /\ Done(m, t) => Base(e, t) /\ NoLoad(c, e) /\ SeeksIn(c, {0})
          /\ x.intent.deferred => /\ Finished(m, t, "crossfaded") \/ Finished(m, t, "gapless")
                                  /\ ~ErrorIn(v, t)
      BY <2>1, <3>1 DEF Claims, LateClaim
    <3>4. t # 0 /\ y.intent = x.intent
      BY <2>5, <3>1 DEF Twin
    <3>5. /\ Dead(e) /\ OnlyLoad(c, e, t) => Dead(f) /\ OnlyLoad(d, f, t)
          /\ Base(e, t) /\ NoLoad(c, e) /\ SeeksIn(c, {0}) =>
                Base(f, t) /\ NoLoad(d, f) /\ SeeksIn(d, {0})
      BY <2>2, <3>4 DEF CarriesLate
    <3> HIDE DEF t
    <3>6. y.intent.token = t
      BY <3>4 DEF t
    <3> QED
      BY <2>2, <3>2, <3>3, <3>4, <3>5, <3>6 DEF LateClaim
  <2> QED
    BY <1>1, <2>6, <2>7, <2>8, <2>9 DEF Claims
<1> QED
  BY <1>1 DEF Live

\* It plays nothing that it did not know.
LEMMA KnownStrange ==
  ASSUME NEW x, NEW y, NEW m, NEW c, NEW d, NEW e, NEW f, NEW v, NEW u, NEW S, NEW R, NEW N,
         Live(x, m, c, e, v), Twin(x, y), Emits(v, u, Known3(e), S, R, N),
         {f.fade, f.next, f.last} \subseteq Known3(e), f.fade # 0 => f.fade # f.last,
         \A t : LoadIn(d, t) \/ Pends(f, t) => LoadIn(c, t) \/ Pends(e, t)
  PROVE  Strange(y, m, d, f, u) /\ Orderly(y, m, f)
<1>1. Orderly(y, m, f)
  BY DEF Live, Orderly, Twin
<1>2. \A t \in Nat \ {0} : Met(f, u, t) => Met(e, v, t)
  BY DEF Met, Emits, Known3
<1>3. \A t : NotYet(y, m, t) => NotYet(x, m, t)
  BY TwinIs
<1>4. Strange(y, m, d, f, u)
  BY <1>2, <1>3 DEF Live, Strange, Twin
<1> QED
  BY <1>1, <1>4

\* A seek brings back the session that fades out.
LEMMA SeekBackIsLive ==
  ASSUME NEW x, NEW y, NEW m, NEW c, NEW d, NEW e, NEW f, NEW v, NEW u, NEW k,
         Live(x, m, c, e, v), Typed(x), Twin(x, y), Pops(c, d, k), k.op = "Seek", e.fade # 0,
         y.raced \/ k.token \in {0, e.fade}, Base(f, e.fade), f.pend = e.pend,
         Emits(v, u, Known3(e), {}, {}, {})
  PROVE  Live(y, m, d, f, u)
<1> DEFINE a == e.fade
<1>1. f.last = a /\ f.fade = 0 /\ f.next = 0
  BY DEF Base
<1>2. \A t : Pends(f, t) <=> Pends(e, t)
  BY DEF Pends
<1>3. \A t : (LoadIn(d, t) => LoadIn(c, t)) /\ (LateIn(d, t) => LateIn(c, t))
  BY PopsLess
<1>4. Strange(y, m, d, f, u) /\ Orderly(y, m, f)
  BY <1>1, <1>2, <1>3, KnownStrange DEF Known3
<1>5. ASSUME ~y.raced
      PROVE  /\ EndsStay(d, f, u) /\ SeekOrder(d, f)
             /\ Carries(c, e, v, d, f, u) /\ CarriesLate(c, e, d, f)
             /\ \A t : ErrorIn(u, t) => ErrorIn(v, t)
  <2>1. EndsStay(c, e, v) /\ SeekOrder(c, e)
    BY <1>5 DEF Live, Claims, Twin
  <2>2. k.token # 0 => Base(f, k.token)
    BY <1>5
  <2>3. Gives(c, d, f)
    BY <2>2, PopsGives
  <2>4. ~NoSeek(c)
    BY PopsLess
  <2>5. \A b : ~Base(e, b)
    BY DEF Base
  <2>6. EndsStay(d, f, u)
    <3>1. ASSUME NEW b, b # 0, EndIn(u, b)
          PROVE  b \notin {f.fade, f.next} /\ f.last # b /\ ~SeekIn(d, b)
      <4>1. EndIn(v, b)
        BY <3>1 DEF Emits
      <4>2. b # a /\ (SeekIn(c, b) => Base(e, b))
        BY <2>1, <3>1, <4>1, EndsStayIs
      <4> QED
        BY <1>1, <2>3, <2>5, <3>1, <4>2 DEF Gives
    <3> QED
      BY <3>1, EndsStayIs
  <2>7. SeekOrder(d, f)
    <3>1. AimedFirst(d)
      BY <2>1, <2>3, SeekOrderIs DEF Gives
    <3>2. \A b : b # 0 /\ SeekIn(d, b) => f.pend = None
      BY <2>1, <2>3, SeekOrderIs DEF Gives
    <3> QED
      BY <1>1, <3>1, <3>2, SeekOrderIs
  <2>8. \A b : Rest(c, e, b) => Rest(d, f, b)
    BY <2>3, <2>5 DEF Rest, Gives
  <2>9. /\ NoLoad(c, e) => NoLoad(d, f)
        /\ \A t : OnlyLoad(c, e, t) => OnlyLoad(d, f, t)
    BY <2>3 DEF NoLoad, OnlyLoad, Gives
  <2>10. Carries(c, e, v, d, f, u)
    <3>1. SUFFICES ASSUME NEW t, NEW from
          PROVE  /\ NotSent(c, e, from) => NotSent(d, f, from)
                 /\ OnTheWay(c, e, t, from) => OnTheWay(d, f, t, from)
                 /\ ~Fade(c, e, v, t, from) /\ ~Lined(c, e, v, t, from)
                 /\ ~FailedClaim(c, e, v, t, from) /\ ~StartedClaim(c, e, v, t)
                 /\ ~CrossClaim(c, e, v, t, from) /\ ~GapClaim(c, e, v, t, from)
      BY DEF Carries
    <3>2. NotSent(c, e, from) => NotSent(d, f, from)
      BY <2>3, <2>8, <2>9 DEF NotSent, Gives
    <3>3. OnTheWay(c, e, t, from) => OnTheWay(d, f, t, from)
      BY <2>3, <2>8, <2>9 DEF OnTheWay, Gives
    <3>4. /\ ~Fade(c, e, v, t, from) /\ ~Lined(c, e, v, t, from)
          /\ ~FailedClaim(c, e, v, t, from) /\ ~StartedClaim(c, e, v, t)
          /\ ~CrossClaim(c, e, v, t, from) /\ ~GapClaim(c, e, v, t, from)
      BY <2>4 DEF Fade, Lined, FailedClaim, StartedClaim, CrossClaim, GapClaim
    <3> QED
      BY <3>2, <3>3, <3>4
  <2>11. CarriesLate(c, e, d, f)
    BY <1>2, <1>3, <2>5 DEF CarriesLate, Later, Dead
  <2> QED
    BY <2>6, <2>7, <2>10, <2>11 DEF Emits
<1> QED
  BY <1>4, <1>5, CarriedIsLive

\* It takes a load.
LEMMA TakesLoadIsLive ==
  ASSUME NEW x, NEW y, NEW m, NEW c, NEW d, NEW e, NEW f, NEW v, NEW u, NEW k,
         Live(x, m, c, e, v), Typed(x), Twin(x, y), Pops(c, d, k), k.op = "Load",
         f.last = e.last, f.fade = e.fade, f.next = e.next, Sounding(f) <=> Sounding(e),
         f.pend # None, f.pend.token = k.token, f.pend.transition = k.transition,
         Emits(v, u, Known3(e), {}, {}, {})
  PROVE  Live(y, m, d, f, u)
<1>1. /\ LoadIn(c, k.token) /\ (k.transition # "immediate" => LateIn(c, k.token))
      /\ \A t : (LoadIn(d, t) => LoadIn(c, t)) /\ (LateIn(d, t) => LateIn(c, t))
      /\ NoSeek(c) => NoSeek(d)
      /\ \A U : SeeksIn(c, U) => SeeksIn(d, U)
      /\ \A t : LoadsAre(c, t) => LoadsAre(d, t) /\ k.token = t
      /\ ~NoLoadIn(c)
      /\ \A b : SeekIn(d, b) => SeekIn(c, b)
  BY PopsLess
<1>2. /\ SeeksFirst(c) => SeeksFirst(d) /\ NoSeek(d)
      /\ AimedFirst(c) => AimedFirst(d) /\ \A b : b # 0 => ~SeekIn(c, b)
  BY PopsOrder
<1>3. \A t : Pends(f, t) <=> t = k.token
  BY DEF Pends
<1>4. Strange(y, m, d, f, u) /\ Orderly(y, m, f)
  <2>1. f.fade # 0 => f.fade # f.last
    BY DEF Live, Orderly
  <2>2. \A t : LoadIn(d, t) \/ Pends(f, t) => LoadIn(c, t) \/ Pends(e, t)
    BY <1>1, <1>3
  <2> QED
    BY <2>1, <2>2, KnownStrange DEF Known3
<1>5. ASSUME ~y.raced
      PROVE  /\ EndsStay(d, f, u) /\ SeekOrder(d, f)
             /\ Carries(c, e, v, d, f, u) /\ CarriesLate(c, e, d, f)
             /\ \A t : ErrorIn(u, t) => ErrorIn(v, t)
  <2>1. EndsStay(c, e, v) /\ SeekOrder(c, e)
    BY <1>5 DEF Live, Claims, Twin
  <2>2. AimedFirst(d) /\ \A b : b # 0 => ~SeekIn(c, b)
    BY <1>2, <2>1, SeekOrderIs
  <2>3. SeekOrder(d, f)
    BY <1>1, <2>2, SeekOrderIs
  <2>4. EndsStay(d, f, u)
    <3>1. ASSUME NEW b, b # 0, EndIn(u, b)
          PROVE  b \notin {f.fade, f.next} /\ (f.last = b => ~Sounding(f)) /\ ~SeekIn(d, b)
      <4>1. EndIn(v, b)
        BY <3>1 DEF Emits
      <4>2. b \notin {e.fade, e.next} /\ (e.last = b => ~Sounding(e))
        BY <2>1, <3>1, <4>1, EndsStayIs
      <4> QED
        BY <1>1, <2>2, <3>1, <4>2
    <3> QED
      BY <3>1, EndsStayIs
  <2>5. ~NoLoad(c, e)
    BY <1>1 DEF NoLoad
  <2>6. \A b : Rest(c, e, b) => Rest(d, f, b)
    BY <2>2 DEF Rest, Base
  <2>7. \A t : OnlyLoad(c, e, t) => OnlyLoad(d, f, t)
    BY <1>1 DEF OnlyLoad
  <2>8. Carries(c, e, v, d, f, u)
    <3>1. SUFFICES ASSUME NEW t, NEW from
          PROVE  /\ OnTheWay(c, e, t, from) => OnTheWay(d, f, t, from)
                 /\ ~Fade(c, e, v, t, from) /\ ~Lined(c, e, v, t, from)
                 /\ ~FailedClaim(c, e, v, t, from) /\ ~StartedClaim(c, e, v, t)
                 /\ ~CrossClaim(c, e, v, t, from) /\ ~GapClaim(c, e, v, t, from)
                 /\ ~NotSent(c, e, from)
      BY DEF Carries
    <3>2. OnTheWay(c, e, t, from) => OnTheWay(d, f, t, from)
      BY <1>1, <1>2, <2>6, <2>7 DEF OnTheWay
    <3>3. /\ ~Fade(c, e, v, t, from) /\ ~Lined(c, e, v, t, from)
          /\ ~FailedClaim(c, e, v, t, from) /\ ~StartedClaim(c, e, v, t)
          /\ ~CrossClaim(c, e, v, t, from) /\ ~GapClaim(c, e, v, t, from)
          /\ ~NotSent(c, e, from)
      BY <2>5 DEF Fade, Lined, FailedClaim, StartedClaim, CrossClaim, GapClaim, NotSent
    <3> QED
      BY <3>2, <3>3
  <2>9. \A t : Later(d, f, t) => Later(c, e, t)
    BY <1>1, <1>3 DEF Later
  <2>10. Dead(e) => Dead(f)
    BY DEF Dead
  <2>11. CarriesLate(c, e, d, f)
    BY <2>5, <2>7, <2>9, <2>10 DEF CarriesLate
  <2> QED
    BY <2>3, <2>4, <2>8, <2>11 DEF Emits
<1> QED
  BY <1>4, <1>5, CarriedIsLive

\* A track plays out.
LEMMA EndsLive ==
  ASSUME NEW x, NEW y, NEW m, NEW c, NEW e, NEW f, NEW v, NEW u,
         Live(x, m, c, e, v), Typed(x), Twin(x, y), Sounding(e), e.next = 0, ~Sounding(f),
         f.last = e.last, f.fade = e.fade, f.next = e.next, f.pend = e.pend,
         Emits(v, u, Known3(e), {}, {}, {e.last})
  PROVE  Live(y, m, c, f, u)
<1>1. \A t : Pends(f, t) <=> Pends(e, t)
  BY DEF Pends
<1>2. Strange(y, m, c, f, u) /\ Orderly(y, m, f)
  <2>1. f.fade # 0 => f.fade # f.last
    BY DEF Live, Orderly
  <2> QED
    BY <1>1, <2>1, KnownStrange DEF Known3
<1>3. \A b : (Base(f, b) <=> Base(e, b)) /\ (Rest(c, f, b) <=> Rest(c, e, b))
  BY DEF Base, Rest
<1>4. ASSUME ~y.raced
      PROVE  /\ EndsStay(c, f, u) /\ SeekOrder(c, f)
             /\ Carries(c, e, v, c, f, u) /\ CarriesLate(c, e, c, f)
             /\ \A t : ErrorIn(u, t) => ErrorIn(v, t)
  <2>1. EndsStay(c, e, v) /\ SeekOrder(c, e) /\ (e.fade # 0 => e.fade # e.last)
    BY <1>4 DEF Live, Claims, Twin, Orderly
  <2>2. SeekOrder(c, f)
    BY <2>1, SeekOrderIs
  <2>3. EndsStay(c, f, u)
    <3>1. ASSUME NEW b, b # 0, EndIn(u, b)
          PROVE  b \notin {f.fade, f.next} /\ (SeekIn(c, b) => Base(f, b))
      <4>1. EndIn(v, b) \/ b = e.last
        BY <3>1 DEF Emits
      <4>2. CASE EndIn(v, b)
        BY <1>3, <2>1, <3>1, <4>2, EndsStayIs
      <4>3. CASE b = e.last
        <5>1. SeekIn(c, b) => e.fade = 0
          BY <2>1, <3>1, <4>3, SeekOrderIs
        <5> QED
          BY <2>1, <3>1, <4>3, <5>1 DEF Base
      <4> QED
        BY <4>1, <4>2, <4>3
    <3> QED
      BY <3>1, EndsStayIs
  <2>4. NoLoad(c, f) <=> NoLoad(c, e)
    BY DEF NoLoad
  <2>5. \A t : OnlyLoad(c, f, t) <=> OnlyLoad(c, e, t)
    BY DEF OnlyLoad
  <2>6. /\ \A t : SwitchIn(u, t) <=> SwitchIn(v, t)
        /\ \A t : ErrorIn(u, t) => ErrorIn(v, t)
        /\ \A t : EndIn(u, t) => EndIn(v, t) \/ t = e.last
    BY DEF Emits
  <2>7. Carries(c, e, v, c, f, u)
    <3>1. SUFFICES ASSUME NEW t, NEW from, t # 0, from # 0, t # from
          PROVE  /\ NotSent(c, e, from) => NotSent(c, f, from)
                 /\ OnTheWay(c, e, t, from) => OnTheWay(c, f, t, from)
                 /\ Fade(c, e, v, t, from) => Fade(c, f, u, t, from)
                 /\ Lined(c, e, v, t, from) => Lined(c, f, u, t, from)
                 /\ FailedClaim(c, e, v, t, from) => FailedClaim(c, f, u, t, from)
                 /\ StartedClaim(c, e, v, t) => StartedClaim(c, f, u, t)
                 /\ CrossClaim(c, e, v, t, from) => CrossClaim(c, f, u, t, from)
                 /\ GapClaim(c, e, v, t, from) => GapClaim(c, f, u, t, from)
      BY DEF Carries
    <3>2. /\ NotSent(c, e, from) => NotSent(c, f, from)
          /\ OnTheWay(c, e, t, from) => OnTheWay(c, f, t, from)
      BY <1>3, <2>4, <2>5 DEF NotSent, OnTheWay
    <3>3. Fade(c, e, v, t, from) => Fade(c, f, u, t, from)
      BY <2>4, <2>6, <3>1 DEF Fade
    <3>4. Lined(c, e, v, t, from) => Lined(c, f, u, t, from)
      BY <1>3, <2>4, <2>6 DEF Lined
    <3>5. /\ FailedClaim(c, e, v, t, from) => FailedClaim(c, f, u, t, from)
          /\ StartedClaim(c, e, v, t) => StartedClaim(c, f, u, t)
      BY <1>3, <2>4, <2>6 DEF FailedClaim, StartedClaim
    <3>6. CrossClaim(c, e, v, t, from) => CrossClaim(c, f, u, t, from)
      BY <2>6, <3>3 DEF CrossClaim
    <3>7. ASSUME GapClaim(c, e, v, t, from) PROVE GapClaim(c, f, u, t, from)
      <4>1. e.last # from
        BY <3>1, <3>7 DEF GapClaim
      <4> QED
        BY <2>6, <3>4, <3>7, <4>1 DEF GapClaim
    <3> QED
      BY <3>2, <3>3, <3>4, <3>5, <3>6, <3>7
  <2>8. CarriesLate(c, e, c, f)
    BY <1>1, <1>3, <2>4 DEF CarriesLate, Later, Dead
  <2> QED
    BY <2>2, <2>3, <2>6, <2>7, <2>8
<1> QED
  BY <1>2, <1>4, CarriedIsLive

\* The queued track takes over.
LEMMA TakeoverIsLive ==
  ASSUME NEW x, NEW y, NEW m, NEW c, NEW e, NEW f, NEW v, NEW u,
         Live(x, m, c, e, v), Typed(x), Twin(x, y), e.fade = 0, e.next # 0, Base(f, e.next),
         f.pend = e.pend, SwitchIn(u, e.next), Emits(v, u, Known3(e), {e.next}, {}, {})
  PROVE  Live(y, m, c, f, u)
<1>1. \A t : Pends(f, t) <=> Pends(e, t)
  BY DEF Pends
<1>2. f.last = e.next /\ f.fade = 0 /\ f.next = 0
  BY DEF Base
<1>3. Strange(y, m, c, f, u) /\ Orderly(y, m, f)
  BY <1>1, <1>2, KnownStrange DEF Known3
<1>4. ASSUME ~y.raced
      PROVE  /\ EndsStay(c, f, u) /\ SeekOrder(c, f)
             /\ Carries(c, e, v, c, f, u) /\ CarriesLate(c, e, c, f)
             /\ \A t : ErrorIn(u, t) => ErrorIn(v, t)
  <2>1. EndsStay(c, e, v) /\ SeekOrder(c, e)
    BY <1>4 DEF Live, Claims, Twin
  <2>2. AimedFirst(c) /\ \A b : b # 0 => ~SeekIn(c, b)
    BY <2>1, SeekOrderIs
  <2>3. SeekOrder(c, f)
    BY <2>2, SeekOrderIs
  <2>4. EndsStay(c, f, u)
    <3>1. ASSUME NEW b, b # 0, EndIn(u, b)
          PROVE  b \notin {f.fade, f.next} /\ f.last # b /\ ~SeekIn(c, b)
      <4>1. EndIn(v, b)
        BY <3>1 DEF Emits
      <4>2. b # e.next
        BY <2>1, <3>1, <4>1, EndsStayIs
      <4> QED
        BY <1>2, <2>2, <3>1, <4>2
    <3> QED
      BY <3>1, EndsStayIs
  <2>5. /\ \A b : ~Base(e, b)
        /\ \A b : ~Rest(c, e, b)
    BY <2>2 DEF Base, Rest
  <2>6. NoLoad(c, f) <=> NoLoad(c, e)
    BY DEF NoLoad
  <2>7. Carries(c, e, v, c, f, u)
    <3>1. SUFFICES ASSUME NEW t, NEW from, t # 0, from # 0, t # from
          PROVE  /\ ~NotSent(c, e, from) /\ ~OnTheWay(c, e, t, from)
                 /\ ~Fade(c, e, v, t, from)
                 /\ Lined(c, e, v, t, from) => Lined(c, f, u, t, from)
                 /\ ~FailedClaim(c, e, v, t, from) /\ ~StartedClaim(c, e, v, t)
                 /\ ~CrossClaim(c, e, v, t, from)
                 /\ GapClaim(c, e, v, t, from) => GapClaim(c, f, u, t, from)
      BY DEF Carries
    <3>2. /\ ~NotSent(c, e, from) /\ ~OnTheWay(c, e, t, from) /\ ~Fade(c, e, v, t, from)
          /\ ~FailedClaim(c, e, v, t, from) /\ ~StartedClaim(c, e, v, t)
          /\ ~CrossClaim(c, e, v, t, from)
      BY <2>5 DEF NotSent, OnTheWay, Fade, FailedClaim, StartedClaim, CrossClaim
    <3>3. ASSUME Lined(c, e, v, t, from) PROVE e.next = t /\ Lined(c, f, u, t, from)
      <4>1. e.next = t
        BY <2>5, <3>3 DEF Lined
      <4> QED
        BY <2>6, <3>3, <4>1 DEF Lined
    <3>4. ASSUME GapClaim(c, e, v, t, from) PROVE GapClaim(c, f, u, t, from)
      <4>1. e.next = t /\ Lined(c, f, u, t, from)
        BY <3>3, <3>4 DEF GapClaim
      <4> QED
        BY <1>2, <3>1, <3>4, <4>1 DEF GapClaim, Emits
    <3> QED
      BY <3>2, <3>3, <3>4
  <2>8. CarriesLate(c, e, c, f)
    BY <1>1, <2>5 DEF CarriesLate, Later, Dead
  <2> QED
    BY <2>3, <2>4, <2>7, <2>8 DEF Emits
<1> QED
  BY <1>3, <1>4, CarriedIsLive

-----------------------------------------------------------------------------
(* A step of the engine that answers a load.                                 *)

\* n is m and k.
Posts(m, n, k) ==
    /\ \A i \in DOMAIN m : \E j \in DOMAIN n : n[j] = m[i]
    /\ \E j \in DOMAIN n : n[j] = k
    /\ \A j \in DOMAIN n : n[j] = k \/ \E i \in DOMAIN m : m[i] = n[j]
Waits(x, t) == Replies(x) /\ x.task.token = t
\* The answer reaches the task that waits for it.
Answers(x, m, y, n, t, result) ==
    /\ y.pending = x.pending /\ y.intent = x.intent /\ y.nextToken = x.nextToken
    /\ x.raced => y.raced
    /\ \/ y.task = x.task /\ n = m /\ ~Waits(x, t)
       \/ /\ y.task = None /\ Waits(x, t)
          /\ Posts(m, n, [type |-> "LoadFinished", token |-> t, result |-> result])

LEMMA AppendPosts ==
  ASSUME NEW m, m \in Seq(ToSet(m)), NEW k PROVE Posts(m, Append(m, k), k)
<1> DEFINE n == Append(m, k)
<1>1. /\ Len(m) \in Nat /\ DOMAIN n = 1 .. Len(m) + 1 /\ DOMAIN m = 1 .. Len(m)
      /\ \A i \in 1 .. Len(m) : n[i] = m[i]
      /\ n[Len(m) + 1] = k
  BY AppendMail
<1> HIDE DEF n
<1>2. \A i \in DOMAIN m : i \in DOMAIN n /\ n[i] = m[i]
  BY <1>1
<1>3. Len(m) + 1 \in DOMAIN n
  BY <1>1
<1>4. \A j \in DOMAIN n : j = Len(m) + 1 \/ (j \in DOMAIN m /\ n[j] = m[j])
  BY <1>1
<1> QED
  BY <1>1, <1>2, <1>3, <1>4 DEF Posts, n

LEMMA AnswersIs ==
  ASSUME NEW x, NEW y, NEW m, NEW n, NEW t0, NEW result, Answers(x, m, y, n, t0, result)
  PROVE  /\ \A t : NotYet(y, n, t) => NotYet(x, m, t)
         /\ \A t : Answered(x, m, t) => Answered(y, n, t)
         /\ Replies(y) => Replies(x) /\ ~Waits(x, t0)
         /\ \A t, r : Finished(n, t, r) =>
               Finished(m, t, r) \/ (t = t0 /\ r = result /\ Waits(x, t0))
         /\ \A t, r : Finished(m, t, r) => Finished(n, t, r)
         /\ \A i \in DOMAIN n : n[i].type = "LoadFinished" =>
               n[i].result = result \/ \E j \in DOMAIN m : m[j] = n[i]
         /\ Past(y) <=> Past(x)
         /\ IsLoading(y) <=> IsLoading(x)
<1> DEFINE k == [type |-> "LoadFinished", token |-> t0, result |-> result]
<1>1. k.type = "LoadFinished" /\ k.token = t0 /\ k.result = result
  OBVIOUS
<1>2. (Past(y) <=> Past(x)) /\ (IsLoading(y) <=> IsLoading(x))
  BY DEF Answers, Past, IsLoading
<1>3. CASE y.task = x.task /\ n = m /\ ~Waits(x, t0)
  <2>1. \A t : NotYet(y, n, t) => NotYet(x, m, t)
    BY <1>3 DEF NotYet, Unsaid
  <2>2. \A t : Answered(x, m, t) => Answered(y, n, t)
    BY <1>3 DEF Answered
  <2> QED
    BY <1>2, <1>3, <2>1, <2>2 DEF Replies
<1>4. CASE y.task = None /\ Waits(x, t0) /\ Posts(m, n, k)
  <2> HIDE DEF k
  <2>1. \A t : NotYet(y, n, t) => NotYet(x, m, t)
    BY <1>1, <1>4 DEF NotYet, Unsaid, Posts
  <2>2. \A t : Answered(x, m, t) => Answered(y, n, t)
    BY <1>1, <1>4 DEF Answered, Posts, Waits, Replies
  <2>3. \A t, r : Finished(n, t, r) => Finished(m, t, r) \/ (t = t0 /\ r = result)
    BY <1>1, <1>4 DEF Finished, Posts
  <2>4. \A t, r : Finished(m, t, r) => Finished(n, t, r)
    BY <1>4 DEF Finished, Posts
  <2>5. \A i \in DOMAIN n : n[i].type = "LoadFinished" =>
           n[i].result = result \/ \E j \in DOMAIN m : m[j] = n[i]
    BY <1>1, <1>4 DEF Posts
  <2>6. ~Replies(y)
    BY <1>4 DEF Replies
  <2> QED
    BY <1>2, <1>4, <2>1, <2>2, <2>3, <2>4, <2>5, <2>6
<1> QED
  BY <1>3, <1>4 DEF Answers

\* A late load that is still under way was so before.
LEMMA AnswersLate ==
  ASSUME NEW x, NEW y, NEW m, NEW n, NEW t0, NEW result, Answers(x, m, y, n, t0, result),
         NEW c, NEW e, NEW f, f.pend = e.pend \/ f.pend = None
  PROVE  \A t : Deferred(y, n, c, f, t) => /\ Deferred(x, m, c, e, t)
                                           /\ \/ y.task # None /\ y.task = x.task /\ n = m
                                                 /\ x.task.token = t
                                              \/ NotYet(x, m, t)
                                              \/ LoadIn(c, t)
                                              \/ f.pend # None
<1> DEFINE k == [type |-> "LoadFinished", token |-> t0, result |-> result]
<1>1. k.type = "LoadFinished"
  OBVIOUS
<1> HIDE DEF k
<1>2. \A t : LateIn(c, t) => LoadIn(c, t)
  BY DEF LateIn, LoadIn
<1>3. (y.task = x.task /\ n = m) \/ y.task = None
  BY DEF Answers
<1>4. \A i \in DOMAIN n : n[i].type = "LoadPrepared" => \E j \in DOMAIN m : m[j] = n[i]
  BY <1>1 DEF Answers, Posts, k
<1>5. TAKE t
<1>6. HAVE Deferred(y, n, c, f, t)
<1>7. CASE y.task # None /\ y.task.token = t /\ y.task.transition # "immediate"
  BY <1>3, <1>7 DEF Deferred
<1>8. CASE \E i \in DOMAIN n : /\ n[i].token = t /\ n[i].type = "LoadPrepared"
                               /\ n[i].transition # "immediate"
  <2>1. \E i \in DOMAIN m : /\ m[i].token = t /\ m[i].type = "LoadPrepared"
                            /\ m[i].transition # "immediate"
    BY <1>4, <1>8
  <2> QED
    BY <2>1 DEF Deferred, NotYet, Unsaid
<1>9. CASE LateIn(c, t)
  BY <1>2, <1>9 DEF Deferred
<1>10. CASE Pends(f, t) /\ f.pend.transition # "immediate"
  BY <1>10 DEF Deferred, Pends
<1> QED
  BY <1>6, <1>7, <1>8, <1>9, <1>10 DEF Deferred

\* A load that is let go: whoever waits for it gave it up, or lost it in a race.
LEMMA DropIsLive ==
  ASSUME NEW x, NEW y, NEW m, NEW n, NEW c, NEW e, NEW v, NEW t0, Live(x, m, c, e, v),
         Answers(x, m, y, n, t0, "dropped")
  PROVE  Live(y, n, c, e, v)
<1>1. /\ \A t : NotYet(y, n, t) => NotYet(x, m, t)
      /\ \A t : Answered(x, m, t) => Answered(y, n, t)
      /\ Replies(y) => Replies(x) /\ ~Waits(x, t0)
      /\ \A t, r : Finished(n, t, r) =>
            Finished(m, t, r) \/ (t = t0 /\ r = "dropped" /\ Waits(x, t0))
      /\ \A t, r : Finished(m, t, r) => Finished(n, t, r)
      /\ \A i \in DOMAIN n : n[i].type = "LoadFinished" =>
            n[i].result = "dropped" \/ \E j \in DOMAIN m : m[j] = n[i]
      /\ Past(y) <=> Past(x)
      /\ IsLoading(y) <=> IsLoading(x)
  BY AnswersIs
<1>2. /\ y.pending = x.pending /\ y.intent = x.intent /\ y.nextToken = x.nextToken
      /\ x.raced => y.raced
      /\ y.task = x.task \/ y.task = None
  BY DEF Answers
<1>3. Strange(y, n, c, e, v)
  BY <1>1, <1>2 DEF Live, Strange
<1>4. Orderly(y, n, e)
  BY <1>1, <1>2 DEF Live, Orderly, Results
<1>5. ASSUME ~y.raced PROVE Claims(y, n, c, e, v)
  <2>1. Claims(x, m, c, e, v)
    BY <1>2, <1>5 DEF Live
  <2>2. CommittedClaim(y, n, c, e)
    BY <1>1, <1>2, <2>1 DEF Claims, CommittedClaim
  <2>3. PastClaim(y, n, c, e, v)
    BY <1>1, <1>2, <2>1 DEF Claims, PastClaim
  <2>4. LoadingClaim(y, n, c, e, v)
    <3>1. \A t, r : r # "dropped" /\ Finished(n, t, r) => Finished(m, t, r)
      BY <1>1
    <3> QED
      BY <1>1, <1>2, <2>1, <3>1 DEF Claims, LoadingClaim
  <2>5. LateClaim(y, n, c, e, v)
    <3>1. \A t : Deferred(y, n, c, e, t) => Deferred(x, m, c, e, t)
      BY AnswersLate
    <3>2. \A t : Done(n, t) => Done(m, t)
      BY <1>1 DEF Done
    <3> QED
      BY <1>1, <1>2, <2>1, <3>1, <3>2 DEF Claims, LateClaim
  <2> QED
    BY <2>1, <2>2, <2>3, <2>4, <2>5 DEF Claims
<1> QED
  BY <1>3, <1>4, <1>5 DEF Live

\* The engine has a load: what was said of it, and who waits.
OnHold(x, m, c, e, v, t0) ==
    /\ t0 \in Nat /\ t0 # 0 /\ t0 < x.nextToken
    /\ ~Met(e, v, t0) /\ ~NotYet(x, m, t0) /\ ~LoadIn(c, t0)
    /\ ~x.raced =>
          /\ \A b : b # 0 => ~SeekIn(c, b)
          /\ IsLoading(x) /\ x.task # None /\ x.task.token = t0 => Replies(x) /\ Calm(c)
          /\ x.pending # None /\ ~Past(x) /\ Replies(x) =>
                /\ x.pending.token = t0 /\ x.task.token = t0
                /\ Base(e, x.pending.from) /\ NoLoadIn(c) /\ NoSeek(c) /\ Calm(c)

LEMMA HoldsLoad ==
  ASSUME NEW x, NEW m, NEW v, Good(x, m), Live(x, m, To(x), engine, v), engine.pend # None
  PROVE  OnHold(x, m, To(x), engine, v, engine.pend.token)
<1> DEFINE c == To(x)
           e == engine
           t0 == e.pend.token
<1>1. FreshIn(x, m, c) /\ OnePlace(x, m) /\ Shaped(x) /\ Intended(x) /\ Somewhere(x, m)
      /\ Typed(x)
  BY DEF Good, Sane, Fresh
<1> HIDE DEF c
<1>2. Given(x, t0) /\ ~LoadIn(c, t0) /\ ~Unsaid(x, m, t0)
  BY <1>1 DEF FreshIn, Known, LoadIn
<1>3. t0 \in Nat /\ t0 # 0 /\ t0 < x.nextToken
  BY <1>2 DEF Given
<1>4. Strange(x, m, c, e, v) /\ Pends(e, t0)
  BY DEF Live, Pends, c
<1> HIDE DEF t0
<1>5. ~Met(e, v, t0) /\ ~NotYet(x, m, t0)
  BY <1>3, <1>4 DEF Strange
<1>6. ASSUME ~x.raced
      PROVE  /\ \A b : b # 0 => ~SeekIn(c, b)
             /\ IsLoading(x) /\ x.task # None /\ x.task.token = t0 => Replies(x) /\ Calm(c)
             /\ x.pending # None /\ ~Past(x) /\ Replies(x) =>
                   /\ x.pending.token = t0 /\ x.task.token = t0
                   /\ Base(e, x.pending.from) /\ NoLoadIn(c) /\ NoSeek(c) /\ Calm(c)
  <2>1. Claims(x, m, c, e, v)
    BY <1>6 DEF Live, c
  <2>2. \A b : b # 0 => ~SeekIn(c, b)
    BY <2>1, SeekOrderIs DEF Claims
  <2>3. ASSUME IsLoading(x), x.task # None, x.task.token = t0 PROVE Replies(x) /\ Calm(c)
    <3>1. x.intent.token = t0
      BY <1>1, <1>6, <2>3 DEF OnePlace, Shaped
    <3>2. ~Coming(x, m, t0)
      BY <1>1, <1>2, <1>6, <2>3 DEF Coming, OnePlace, Unsaid, Shaped
    <3>3. SentFor(x, c, t0)
      BY <1>1, <1>6, <2>3, <3>1, <3>2 DEF Somewhere, Shaped, c
    <3>4. ~Standing(c, t0)
      BY <1>2 DEF Standing, LoadIn
    <3> QED
      BY <3>3, <3>4 DEF SentFor, Held, Replies, Calm
  <2>4. ASSUME x.pending # None, ~Past(x), Replies(x)
        PROVE  /\ x.pending.token = t0 /\ x.task.token = t0
               /\ Base(e, x.pending.from) /\ NoLoadIn(c) /\ NoSeek(c) /\ Calm(c)
    <3> DEFINE t == x.pending.token
               from == x.pending.from
    <3>1. x.intent = Loading(t, TRUE, from)
      BY <1>1, <1>6, <2>4 DEF Intended, Past, Taken
    <3>2. IsLoading(x) /\ x.intent.token = t
      BY <3>1 DEF IsLoading, Loading
    <3>3. x.task.token = t /\ x.task # None
      BY <1>1, <1>6, <2>4, <3>2 DEF OnePlace, Replies, Shaped
    <3>4. OnTheWay(c, e, t, from)
      BY <2>1, <2>4 DEF Claims, LoadingClaim
    <3>5. t = t0 /\ NoSeek(c)
      BY <1>4, <3>4 DEF OnTheWay, OnlyLoad, Pends
    <3>6. Base(e, from)
      BY <2>2, <3>4 DEF OnTheWay, Rest
    <3>7. Calm(c)
      BY <2>3, <3>2, <3>3, <3>5
    <3>8. NoLoadIn(c)
      BY <3>7 DEF Calm, NoLoadIn, Tame
    <3> QED
      BY <3>3, <3>5, <3>6, <3>7, <3>8
  <2> QED
    BY <2>2, <2>3, <2>4
<1>7. OnHold(x, m, c, e, v, t0)
  BY <1>2, <1>3, <1>5, <1>6 DEF OnHold
<1> QED
  BY <1>7 DEF t0, c

\* What the claims say while the engine has a load.
LEMMA HoldClaims ==
  ASSUME NEW x, NEW m, NEW c, NEW e, NEW v, Claims(x, m, c, e, v), e.pend # None, Shaped(x)
  PROVE  /\ x.intent.kind = "Committed" => x.pending # None
         /\ ~Past(x)
         /\ x.pending # None => LET t == x.pending.token
                                IN  /\ ~NotYet(x, m, t) /\ Answered(x, m, x.pending.from)
                                    /\ \A r \in {"failed", "started", "crossfaded", "gapless"} :
                                          ~Finished(m, t, r)
         /\ IsLoading(x) /\ x.pending = None => ~x.intent.deferred /\ ~Done(m, x.intent.token)
<1>1. ~NoLoad(c, e)
  BY DEF NoLoad
<1>2. x.intent.kind = "Committed" => x.pending # None
  BY <1>1 DEF Claims, CommittedClaim
<1>3. ~Past(x)
  BY <1>1 DEF Claims, PastClaim, Past, Fade, Lined, Shaped
<1>4. ASSUME x.pending # None
      PROVE  LET t == x.pending.token
             IN  /\ ~NotYet(x, m, t) /\ Answered(x, m, x.pending.from)
                 /\ \A r \in {"failed", "started", "crossfaded", "gapless"} : ~Finished(m, t, r)
  BY <1>1, <1>3, <1>4 DEF Claims, LoadingClaim, NotSent, FailedClaim, StartedClaim, CrossClaim,
                         GapClaim, Fade, Lined
<1>5. IsLoading(x) /\ x.pending = None => ~x.intent.deferred /\ ~Done(m, x.intent.token)
  <2>1. ASSUME IsLoading(x), x.pending = None PROVE ~Done(m, x.intent.token)
    BY <1>1, <2>1 DEF Claims, LateClaim
  <2>2. ASSUME IsLoading(x), x.pending = None PROVE ~x.intent.deferred
    BY <2>1, <2>2 DEF Claims, LateClaim, Done
  <2> QED
    BY <2>1, <2>2
<1> QED
  BY <1>2, <1>3, <1>4, <1>5

\* What a load that starts, or fails, makes of the claim that waits for it.
Outcome(result, c, f, u, t, from) ==
    /\ result = "failed" => FailedClaim(c, f, u, t, from)
    /\ result = "started" => StartedClaim(c, f, u, t)
    /\ result = "crossfaded" => CrossClaim(c, f, u, t, from)
    /\ result = "gapless" => GapClaim(c, f, u, t, from)

LEMMA AnswerStrange ==
  ASSUME NEW x, NEW y, NEW m, NEW n, NEW c, NEW e, NEW f, NEW v, NEW u, NEW t0, NEW result,
         NEW S, NEW R, Live(x, m, c, e, v), OnHold(x, m, c, e, v, t0),
         OnePlace(x, m), Answers(x, m, y, n, t0, result), result \in Results, f.pend = None,
         {f.fade, f.next, f.last} \subseteq Known3(e) \cup {t0},
         f.fade # 0 => f.fade # f.last, Emits(v, u, {t0}, S, R, {})
  PROVE  Strange(y, n, c, f, u) /\ Orderly(y, n, f)
<1>1. /\ \A t : NotYet(y, n, t) => NotYet(x, m, t)
      /\ \A i \in DOMAIN n : n[i].type = "LoadFinished" =>
            n[i].result = result \/ \E j \in DOMAIN m : m[j] = n[i]
  BY AnswersIs
<1>2. y.pending = x.pending /\ y.nextToken = x.nextToken /\ (x.raced => y.raced)
  BY DEF Answers
<1>3. Orderly(y, n, f)
  BY <1>1, <1>2 DEF Live, Orderly
<1>4. \A t : ~Pends(f, t)
  BY DEF Pends
<1>5. \A t \in Nat \ {0} : Met(f, u, t) => Met(e, v, t) \/ t = t0
  BY DEF Met, Emits, Known3
<1>6. t0 < x.nextToken /\ ~NotYet(x, m, t0) /\ ~LoadIn(c, t0) /\ x.nextToken > t0
  BY DEF OnHold
<1>7. Strange(x, m, c, e, v)
  BY DEF Live
<1>8. ASSUME NEW t \in Nat \ {0}
      PROVE  /\ t >= y.nextToken \/ NotYet(y, n, t) \/ LoadIn(c, t) \/ Pends(f, t) => ~Met(f, u, t)
             /\ NotYet(y, n, t) => ~LoadIn(c, t) /\ ~Pends(f, t)
  <2>1. CASE t = t0
    <3>1. ~NotYet(y, n, t) /\ ~LoadIn(c, t)
      BY <1>1, <1>6, <2>1
    <3>2. ~(t >= y.nextToken)
      <4>1. x.nextToken \in Nat /\ t0 \in Nat
        BY <1>8, <2>1 DEF OnePlace
      <4> QED
        BY <1>2, <1>6, <2>1, <4>1
    <3> QED
      BY <1>4, <3>1, <3>2
  <2>2. CASE t # t0
    <3>1. Met(f, u, t) => Met(e, v, t)
      BY <1>5, <2>2
    <3>2. t >= x.nextToken \/ NotYet(x, m, t) \/ LoadIn(c, t) => ~Met(e, v, t)
      BY <1>7 DEF Strange
    <3>3. NotYet(x, m, t) => ~LoadIn(c, t)
      BY <1>7 DEF Strange
    <3> QED
      BY <1>1, <1>2, <1>4, <3>1, <3>2, <3>3
  <2> QED
    BY <2>1, <2>2
<1> QED
  BY <1>3, <1>8 DEF Strange

LEMMA AnswerIsLive ==
  ASSUME NEW x, NEW y, NEW m, NEW n, NEW c, NEW e, NEW f, NEW v, NEW u, NEW result,
         Live(x, m, c, e, v), OnHold(x, m, c, e, v, e.pend.token), Shaped(x), OnePlace(x, m),
         e.pend # None, f.pend = None,
         Answers(x, m, y, n, e.pend.token, result),
         Strange(y, n, c, f, u), Orderly(y, n, f),
         ~y.raced => EndsStay(c, f, u),
         ~y.raced /\ x.pending # None /\ ~Past(x) /\ Waits(x, e.pend.token) =>
            Outcome(result, c, f, u, x.pending.token, x.pending.from),
         (/\ result \in {"started", "crossfaded", "gapless"}
          /\ e.pend.transition = "immediate" \/ Dead(e)) => Base(f, e.pend.token)
  PROVE  Live(y, n, c, f, u)
<1> DEFINE t0 == e.pend.token
<1>1. /\ \A t : NotYet(y, n, t) => NotYet(x, m, t)
      /\ \A t : Answered(x, m, t) => Answered(y, n, t)
      /\ Replies(y) => Replies(x) /\ ~Waits(x, t0)
      /\ \A t, r : Finished(n, t, r) =>
            Finished(m, t, r) \/ (t = t0 /\ r = result /\ Waits(x, t0))
      /\ Past(y) <=> Past(x)
      /\ IsLoading(y) <=> IsLoading(x)
  BY AnswersIs
<1>2. /\ y.pending = x.pending /\ y.intent = x.intent /\ (x.raced => y.raced)
  BY DEF Answers
<1>3. Pends(e, t0) /\ \A t : Pends(e, t) => t = t0
  BY DEF Pends
<1>4. ASSUME ~y.raced PROVE Claims(y, n, c, f, u)
  <2>1. Claims(x, m, c, e, v)
    BY <1>2, <1>4 DEF Live
  <2>2. /\ x.intent.kind = "Committed" => x.pending # None
        /\ ~Past(x)
        /\ x.pending # None =>
              /\ ~NotYet(x, m, x.pending.token) /\ Answered(x, m, x.pending.from)
              /\ \A r \in {"failed", "started", "crossfaded", "gapless"} :
                    ~Finished(m, x.pending.token, r)
        /\ IsLoading(x) /\ x.pending = None => ~x.intent.deferred /\ ~Done(m, x.intent.token)
    BY <2>1, HoldClaims
  <2>3. /\ \A b : b # 0 => ~SeekIn(c, b)
        /\ IsLoading(x) /\ x.task # None /\ x.task.token = t0 => Replies(x) /\ Calm(c)
        /\ x.pending # None /\ ~Past(x) /\ Replies(x) =>
              /\ x.pending.token = t0 /\ x.task.token = t0
              /\ Base(e, x.pending.from) /\ NoLoadIn(c) /\ NoSeek(c) /\ Calm(c)
        /\ ~NotYet(x, m, t0) /\ ~LoadIn(c, t0)
    BY <1>2, <1>4 DEF OnHold
  <2>4. SeekOrder(c, f)
    BY <2>1, <2>3, SeekOrderIs DEF Claims
  <2>5. CommittedClaim(y, n, c, f)
    BY <1>2, <2>2 DEF CommittedClaim
  <2>6. PastClaim(y, n, c, f, u)
    BY <1>1, <2>2 DEF PastClaim
  <2>7. LoadingClaim(y, n, c, f, u)
    <3>1. SUFFICES ASSUME x.pending # None PROVE LoadingClaim(y, n, c, f, u)
      BY <1>2 DEF LoadingClaim
    <3> DEFINE t == x.pending.token
               from == x.pending.from
    <3>2. ~NotYet(y, n, t) /\ Answered(y, n, from)
      BY <1>1, <2>2, <3>1
    <3>3. ~Replies(y)
      BY <1>1, <2>2, <2>3, <3>1 DEF Waits
    <3>4. \A r \in {"failed", "started", "crossfaded", "gapless"} :
             Finished(n, t, r) => r = result /\ Waits(x, t0)
      BY <1>1, <2>2, <3>1
    <3>5. Waits(x, t0) => Outcome(result, c, f, u, t, from)
      BY <1>4, <2>2, <3>1
    <3> HIDE DEF t, from, t0
    <3>6. /\ Finished(n, t, "failed") => FailedClaim(c, f, u, t, from)
          /\ Finished(n, t, "started") => StartedClaim(c, f, u, t)
          /\ Finished(n, t, "crossfaded") => CrossClaim(c, f, u, t, from)
          /\ Finished(n, t, "gapless") => GapClaim(c, f, u, t, from)
      BY <3>4, <3>5 DEF Outcome
    <3> QED
      BY <1>2, <3>2, <3>3, <3>6 DEF LoadingClaim, t, from
  <2>8. LateClaim(y, n, c, f, u)
    <3>1. SUFFICES ASSUME IsLoading(x), x.pending = None PROVE LateClaim(y, n, c, f, u)
      BY <1>1, <1>2 DEF LateClaim
    <3> DEFINE t == x.intent.token
    <3>2. Deferred(x, m, c, e, t) => Dead(e) /\ OnlyLoad(c, e, t)
      BY <2>1, <3>1 DEF Claims, LateClaim
    <3>3. ~Deferred(y, n, c, f, t)
      <4>1. SUFFICES ASSUME Deferred(y, n, c, f, t) PROVE FALSE
        OBVIOUS
      <4>2. /\ Deferred(x, m, c, e, t)
            /\ \/ y.task # None /\ y.task = x.task /\ n = m /\ x.task.token = t
               \/ NotYet(x, m, t) \/ LoadIn(c, t)
        BY <4>1, AnswersLate
      <4>3. t = t0
        BY <3>2, <4>2 DEF OnlyLoad
      <4>4. x.task # None /\ x.task.token = t0 /\ y.task # None
        BY <2>3, <4>2, <4>3
      <4>5. Waits(x, t0)
        BY <2>3, <3>1, <4>4 DEF Waits
      <4> QED
        BY <4>4, <4>5 DEF Answers
    <3>4. ASSUME Done(n, t) PROVE Base(f, t) /\ NoLoad(c, f) /\ SeeksIn(c, {0})
      <4>1. ~Done(m, t)
        BY <2>2, <3>1
      <4>2. t = t0 /\ result \in {"started", "crossfaded", "gapless"} /\ Waits(x, t0)
        BY <1>1, <3>4, <4>1 DEF Done
      <4>3. e.pend.transition # "immediate" => Deferred(x, m, c, e, t)
        BY <1>3, <4>2 DEF Deferred
      <4>4. Base(f, t)
        BY <3>2, <4>2, <4>3
      <4>5. Calm(c)
        BY <2>3, <3>1, <4>2 DEF Waits, Replies
      <4>6. NoLoad(c, f)
        BY <4>5 DEF NoLoad, NoLoadIn, Calm, Tame
      <4>7. SeeksIn(c, {0})
        BY <2>3 DEF SeeksIn, SeekIn
      <4> QED
        BY <4>4, <4>6, <4>7
    <3> QED
      BY <1>2, <2>2, <3>1, <3>3, <3>4 DEF LateClaim
  <2> QED
    BY <1>4, <2>4, <2>5, <2>6, <2>7, <2>8 DEF Claims
<1> QED
  BY <1>4 DEF Live

\* What is said of the load when it is answered.
LEMMA AnswerSaid ==
  ASSUME NEW x, NEW m, NEW c, NEW e, NEW v, NEW t0, OnHold(x, m, c, e, v, t0)
  PROVE  /\ ~SwitchIn(v, t0) /\ ~EndIn(v, t0) /\ ~ErrorIn(v, t0)
         /\ t0 \notin {e.fade, e.next, e.last}
<1>1. ~ToldIn(v, t0) /\ t0 \notin {e.fade, e.next, e.last}
  BY DEF OnHold, Met
<1>2. ~SwitchIn(v, t0) /\ ~ErrorIn(v, t0) /\ ~EndIn(v, t0)
  BY <1>1 DEF ToldIn, SwitchIn, ErrorIn, EndIn
<1> QED
  BY <1>1, <1>2

\* The source cannot be read: the engine stays where it is.
LEMMA LoadFailsIsLive ==
  ASSUME NEW x, NEW y, NEW m, NEW n, NEW c, NEW e, NEW f, NEW v, NEW u,
         Live(x, m, c, e, v), OnHold(x, m, c, e, v, e.pend.token), Shaped(x), OnePlace(x, m),
         e.pend # None, f.pend = None,
         Answers(x, m, y, n, e.pend.token, "failed"),
         f.last = e.last, f.fade = e.fade, f.next = e.next, Sounding(f) <=> Sounding(e),
         Emits(v, u, {e.pend.token}, {}, {e.pend.token}, {})
  PROVE  Live(y, n, c, f, u)
<1> DEFINE t0 == e.pend.token
<1>a. ~SwitchIn(v, t0)
  BY AnswerSaid
<1>1. /\ ~SwitchIn(u, t0)
      /\ \A a : EndIn(u, a) => EndIn(v, a)
  BY <1>a DEF Emits
<1>2. x.raced => y.raced
  BY DEF Answers
<1>3. e.fade # 0 => e.fade # e.last
  BY DEF Live, Orderly
<1>4. Strange(y, n, c, f, u) /\ Orderly(y, n, f)
  <2>1. "failed" \in Results /\ {f.fade, f.next, f.last} \subseteq Known3(e) \cup {t0}
    BY DEF Results, Known3
  <2> QED
    BY <1>3, <2>1, AnswerStrange
<1>5. ~y.raced => EndsStay(c, f, u)
  <2>1. ASSUME ~y.raced PROVE EndsStay(c, e, v)
    BY <1>2, <2>1 DEF Live, Claims
  <2>2. \A a : Base(e, a) => Base(f, a)
    BY DEF Base
  <2> QED
    BY <1>1, <2>1, <2>2, EndsStayIs
<1>6. ASSUME ~y.raced, x.pending # None, ~Past(x), Waits(x, t0)
      PROVE  Outcome("failed", c, f, u, x.pending.token, x.pending.from)
  <2>1. /\ x.pending.token = t0 /\ Base(e, x.pending.from) /\ NoLoadIn(c) /\ NoSeek(c)
    BY <1>2, <1>6 DEF OnHold, Waits
  <2>2. FailedClaim(c, f, u, t0, x.pending.from)
    BY <1>1, <2>1 DEF FailedClaim, Base, NoLoad
  <2> QED
    BY <2>1, <2>2 DEF Outcome
<1>7. "failed" \notin {"started", "crossfaded", "gapless"}
  OBVIOUS
<1> HIDE DEF t0
<1> QED
  BY <1>4, <1>5, <1>6, <1>7, AnswerIsLive DEF t0

\* How a load that is probed starts.
StartKind(e, f, t, result) ==
    \/ /\ result = "crossfaded" /\ Sounding(e) /\ e.last # 0
       /\ e.pend.transition # "immediate"
       /\ f.fade = e.last /\ f.next = 0 /\ f.last = t
    \/ /\ result = "gapless" /\ Sounding(e) /\ e.last # 0
       /\ e.pend.transition # "immediate"
       /\ f.fade = 0 /\ f.next = t /\ f.last = e.last
    \/ result = "started" /\ Base(f, t)

LEMMA StartsIsLive ==
  ASSUME NEW x, NEW y, NEW m, NEW n, NEW c, NEW e, NEW f, NEW v, NEW u, NEW result,
         Live(x, m, c, e, v), OnHold(x, m, c, e, v, e.pend.token), Shaped(x), OnePlace(x, m),
         e.pend # None, f.pend = None,
         Answers(x, m, y, n, e.pend.token, result),
         StartKind(e, f, e.pend.token, result),
         Emits(v, u, {e.pend.token}, {}, {}, {})
  PROVE  Live(y, n, c, f, u)
<1> DEFINE t0 == e.pend.token
<1>1. /\ ~SwitchIn(u, t0) /\ ~EndIn(v, t0) /\ ~ErrorIn(u, t0)
      /\ t0 \notin {e.fade, e.next, e.last}
      /\ \A a : EndIn(u, a) => EndIn(v, a)
  <2>1. /\ ~SwitchIn(v, t0) /\ ~EndIn(v, t0) /\ ~ErrorIn(v, t0)
        /\ t0 \notin {e.fade, e.next, e.last}
    BY AnswerSaid
  <2> QED
    BY <2>1 DEF Emits
<1>2. x.raced => y.raced
  BY DEF Answers
<1>3. t0 # 0 /\ (~x.raced => \A b : b # 0 => ~SeekIn(c, b))
  BY DEF OnHold
<1>4. Strange(y, n, c, f, u) /\ Orderly(y, n, f)
  <2>1. result \in Results /\ {f.fade, f.next, f.last} \subseteq Known3(e) \cup {t0}
    BY DEF StartKind, Results, Known3, Base
  <2>2. f.fade # 0 => f.fade # f.last
    BY <1>1 DEF StartKind, Base
  <2> QED
    BY <2>1, <2>2, AnswerStrange
<1>5. ~y.raced => EndsStay(c, f, u)
  <2>1. SUFFICES ASSUME ~y.raced, NEW a, a # 0, EndIn(u, a)
                 PROVE  /\ a \notin {f.fade, f.next} /\ (f.last = a => ~Sounding(f))
                        /\ SeekIn(c, a) => Base(f, a)
    BY EndsStayIs
  <2>2. EndIn(v, a) /\ a # t0
    BY <1>1, <2>1
  <2>3. a \notin {e.fade, e.next} /\ (e.last = a => ~Sounding(e))
    BY <1>2, <2>1, <2>2, EndsStayIs DEF Live, Claims
  <2>4. a \notin {f.fade, f.next} /\ f.last # a
    BY <2>1, <2>2, <2>3 DEF StartKind, Base
  <2> QED
    BY <1>2, <1>3, <2>1, <2>4
<1>6. ASSUME ~y.raced, x.pending # None, ~Past(x), Waits(x, t0)
      PROVE  Outcome(result, c, f, u, x.pending.token, x.pending.from)
  <2> DEFINE from == x.pending.from
  <2>1. x.pending.token = t0 /\ Base(e, from) /\ NoLoadIn(c) /\ NoSeek(c) /\ Calm(c)
    BY <1>2, <1>6 DEF OnHold, Waits
  <2> HIDE DEF from
  <2>2. NoLoad(c, f)
    BY <2>1 DEF NoLoad
  <2>3. ASSUME Sounding(e), e.last # 0 PROVE ~EndIn(u, from)
    <3>1. EndsStay(c, e, v) /\ e.last = from
      BY <1>2, <1>6, <2>1 DEF Live, Claims, Base
    <3> QED
      BY <1>1, <2>3, <3>1, EndsStayIs
  <2>4. result = "started" => StartedClaim(c, f, u, t0)
    BY <1>1, <2>1, <2>2 DEF StartKind, StartedClaim
  <2>5. ASSUME result = "crossfaded" PROVE CrossClaim(c, f, u, t0, from)
    <3>1. /\ Sounding(e) /\ e.last # 0
          /\ f.fade = e.last /\ f.next = 0 /\ f.last = t0
      BY <2>5 DEF StartKind
    <3> QED
      BY <1>1, <2>1, <2>2, <2>3, <3>1 DEF CrossClaim, Fade, Base
  <2>6. ASSUME result = "gapless" PROVE GapClaim(c, f, u, t0, from)
    <3>1. /\ Sounding(e) /\ e.last # 0
          /\ f.fade = 0 /\ f.next = t0 /\ f.last = e.last
      BY <2>6 DEF StartKind
    <3> QED
      BY <1>1, <2>1, <2>2, <2>3, <3>1 DEF GapClaim, Lined, Base
  <2>7. result # "failed"
    BY DEF StartKind
  <2> QED
    BY <2>1, <2>4, <2>5, <2>6, <2>7 DEF Outcome, from
<1>7. (/\ result \in {"started", "crossfaded", "gapless"}
       /\ e.pend.transition = "immediate" \/ Dead(e)) => Base(f, t0)
  BY DEF StartKind, Dead
<1> HIDE DEF t0
<1> QED
  BY <1>4, <1>5, <1>6, <1>7, AnswerIsLive DEF t0

-----------------------------------------------------------------------------
(* The engine takes a command.                                               *)

\* Whatever a session that raced takes for live.
LEMMA RacesIsLive ==
  ASSUME NEW x, NEW y, NEW m, NEW c, NEW d, NEW e, NEW f, NEW v, NEW u,
         Live(x, m, c, e, v), Twin(x, y), Emits(v, u, Known3(e), {}, {}, {}),
         {f.fade, f.next, f.last} \subseteq Known3(e), f.fade # 0 => f.fade # f.last,
         \A t : LoadIn(d, t) \/ Pends(f, t) => LoadIn(c, t) \/ Pends(e, t)
  PROVE  y.raced => Live(y, m, d, f, u)
<1>1. Strange(y, m, d, f, u)
  BY KnownStrange
<1>2. Orderly(y, m, f)
  BY KnownStrange
<1>3. y.raced => Live(y, m, d, f, u)
  BY <1>1, <1>2 DEF Live
<1> QED
  BY <1>3

\* A track is queued only while nothing comes that would unqueue it.
LEMMA LinedIsCalm ==
  ASSUME NEW x, NEW m, NEW c, NEW e, NEW v, Live(x, m, c, e, v), ~x.raced,
         x.pending # None, ~Past(x), Finished(m, x.pending.token, "gapless")
  PROVE  Calm(c) /\ NoSeek(c)
BY DEF Live, Claims, LoadingClaim, GapClaim, Lined

LEMMA EndedPhase ==
  ASSUME NEW e PROVE EnginePhase(e) = "Ended" <=> e.cur # None /\ ~Sounding(e)
BY DEF EnginePhase, Sounding

\* A command that only holds the engine, or lets go.
LEMMA HoldIsLive ==
  ASSUME NEW x, NEW y, NEW m, NEW c, NEW d, NEW k, NEW e, NEW f, NEW v, NEW reply,
         v \in Seq(ToSet(v)),
         Live(x, m, c, e, v), Intended(x), Twin(x, y), Pops(c, d, k), k.op # "Seek",
         f.last = e.last, f.fade \in {e.fade, 0}, f.next \in {e.next, 0},
         f.pend \in {e.pend, None}, Sounding(f) => Sounding(e),
         EnginePhase(f) = "Ended" => EnginePhase(e) = "Ended",
         k.op \in Tame => f.next = e.next
  PROVE  Live(y, m, d, f, v \o Step(e, f, <<>>, <<>>, reply).events)
<1> DEFINE a == Step(e, f, <<>>, <<>>, reply).events
<1>1. Emitted(a, Known3(e), {}, {}, {})
  <2>1. /\ EnginePhase(e) # EnginePhase(f) => f.last \in Known3(e)
        /\ EnginePhase(e) # EnginePhase(f) => EnginePhase(f) # "Ended"
    BY DEF Known3
  <2>2. Emitted(<<>>, Known3(e), {}, {}, {})
    BY NoneEmitted
  <2> QED
    BY <2>1, <2>2, StepEmitted
<1> HIDE DEF a
<1>2. Emits(v, v \o a, Known3(e), {}, {}, {})
  BY <1>1, EmittedIn
<1>3. Gives(c, d, f)
  BY PopsGives
<1>4. Settles(e, f)
  BY DEF Settles
<1>5. \/ y.raced \/ x.pending = None \/ Past(x) \/ ~Finished(m, x.pending.token, "gapless")
      \/ f.next = e.next /\ (Calm(c) => Calm(d))
  <2>1. ASSUME ~y.raced, x.pending # None, ~Past(x), Finished(m, x.pending.token, "gapless")
        PROVE  f.next = e.next /\ Calm(d)
    <3>1. Calm(c)
      BY <2>1, LinedIsCalm DEF Twin
    <3> QED
      BY <3>1, PopsLess
  <2> QED
    BY <2>1
<1>6. Live(y, m, d, f, v \o a)
  BY <1>2, <1>3, <1>4, <1>5, QuietIsLive
<1> QED
  BY <1>6 DEF a

\* What a seek makes of the engine.
LEMMA SeekedIs ==
  ASSUME NEW x, NEW e, EngineTyped(e, x), NEW token, NEW f, f = Seeked(e, token)
  PROVE  /\ f.pend = e.pend
         /\ \/ f = e /\ (Visible(e) = None \/ token \notin {0, Visible(e).token})
            \/ /\ Visible(e) # None /\ token \in {0, Visible(e).token}
               /\ Base(f, Visible(e).token) /\ Sounding(f)
         /\ Visible(e) # None => Visible(e).token = IF e.fade # 0 THEN e.fade ELSE e.last
         /\ e.fade = 0 => Visible(e) = e.cur
         /\ e.fade # 0 => Visible(e) # None
<1> DEFINE w == Visible(e)
<1>1. /\ e.fade = 0 => w = e.cur
      /\ e.fade # 0 => w = Started(e.fade)
  BY DEF Visible
<1>2. e.fade # 0 => w # None /\ w.token = e.fade
  <2>1. ASSUME e.fade # 0 PROVE w # None /\ w.token = e.fade
    <3>1. w = [token |-> e.fade, ended |-> FALSE]
      BY <1>1, <2>1 DEF Started
    <3>2. e.fade \in Nat
      BY DEF EngineTyped, Before
    <3> HIDE DEF w
    <3>3. w \in [token : Nat, ended : BOOLEAN] /\ w.token = e.fade
      BY <3>1, <3>2
    <3> QED
      BY <3>3, NoneIsNothing
  <2> QED
    BY <2>1
<1>3. w # None => w.token = IF e.fade # 0 THEN e.fade ELSE e.last
  BY <1>1, <1>2 DEF EngineTyped
<1>4. CASE w = None \/ token \notin {0, w.token}
  <2>1. f = e
    BY <1>4 DEF Seeked
  <2> QED
    BY <1>1, <1>2, <1>3, <1>4, <2>1
<1>5. CASE w # None /\ token \in {0, w.token}
  <2>1. f = [e EXCEPT !.cur = Started(w.token), !.fade = 0, !.next = 0,
                      !.last = w.token, !.held = @ /\ ~w.ended]
    BY <1>5 DEF Seeked
  <2> DEFINE held == e.held /\ ~w.ended
             cur == Started(w.token)
  <2>2. f = [e EXCEPT !.cur = cur, !.fade = 0, !.next = 0, !.last = w.token, !.held = held]
    BY <2>1 DEF EngineTyped, EngineFields
  <2>3. cur # None /\ cur.ended = FALSE
    <3>1. cur = [token |-> w.token, ended |-> FALSE]
      BY DEF Started
    <3>2. w.token \in Nat
      BY <1>3, <1>5 DEF EngineTyped, Before
    <3> HIDE DEF cur, w
    <3>3. cur \in [token : Nat, ended : BOOLEAN] /\ cur.ended = FALSE
      BY <3>1, <3>2
    <3> QED
      BY <3>3, NoneIsNothing
  <2> HIDE DEF held, cur, w
  <2>4. f.pend = e.pend /\ f.cur = cur /\ f.fade = 0 /\ f.next = 0 /\ f.last = w.token
    BY <2>2 DEF EngineTyped, EngineFields
  <2>5. Base(f, w.token) /\ Sounding(f)
    BY <2>3, <2>4 DEF Base, Sounding
  <2> QED
    BY <1>1, <1>2, <1>3, <1>5, <2>4, <2>5 DEF w
<1> QED
  BY <1>4, <1>5

\* A seek that finds the session it is meant for, and that one sounding.
Meant(e, k) == IF Visible(e) = None THEN k.token = 0
               ELSE ~Visible(e).ended /\ k.token \in {0, Visible(e).token}

LEMMA SeeksIsLive ==
  ASSUME NEW x, NEW y, NEW m, NEW c, NEW d, NEW k, NEW e, NEW v,
         v \in Seq(ToSet(v)), EngineTyped(e, x),
         Live(x, m, c, e, v), Intended(x), Typed(x), Twin(x, y), Pops(c, d, k), k.op = "Seek",
         ~y.raced => Meant(e, k)
  PROVE  Live(y, m, d, Seeked(e, k.token), v \o Quietly(e, Seeked(e, k.token)).events)
<1> DEFINE f == Seeked(e, k.token)
           a == Quietly(e, f).events
           w == Visible(e)
           b == IF e.fade # 0 THEN e.fade ELSE e.last
<1>0. f = Seeked(e, k.token)
  OBVIOUS
<1> HIDE DEF f
<1>1. /\ f.pend = e.pend
      /\ \/ f = e /\ (w = None \/ k.token \notin {0, w.token})
         \/ w # None /\ k.token \in {0, w.token} /\ Base(f, w.token) /\ Sounding(f)
      /\ w # None => w.token = b
      /\ e.fade = 0 => w = e.cur
      /\ e.fade # 0 => w # None
  BY <1>0, SeekedIs
<1>2. ~y.raced => IF w = None THEN k.token = 0 ELSE ~w.ended /\ k.token \in {0, w.token}
  BY DEF Meant
<1>3. e.fade # 0 => e.fade # e.last
  BY DEF Live, Orderly
<1> HIDE DEF w
<1>4. {f.fade, f.next, f.last} \subseteq Known3(e) /\ (f.fade # 0 => f.fade # f.last)
  BY <1>1, <1>3 DEF Base, Known3
<1>5. Emitted(a, Known3(e), {}, {}, {})
  <2>1. /\ EnginePhase(e) # EnginePhase(f) => f.last \in Known3(e)
        /\ EnginePhase(e) # EnginePhase(f) => EnginePhase(f) # "Ended"
    BY <1>1, <1>4, EndedPhase
  <2>2. Emitted(<<>>, Known3(e), {}, {}, {})
    BY NoneEmitted
  <2> QED
    BY <2>1, <2>2, StepEmitted DEF Quietly
<1> HIDE DEF a
<1>6. Emits(v, v \o a, Known3(e), {}, {}, {})
  BY <1>5, EmittedIn
<1>7. Live(y, m, d, f, v \o a)
  <2>1. CASE y.raced = TRUE
    <3>1. \A t : LoadIn(d, t) \/ Pends(f, t) => LoadIn(c, t) \/ Pends(e, t)
      BY <1>1, PopsLess DEF Pends
    <3> QED
      BY <1>4, <1>6, <2>1, <3>1, RacesIsLive
  <2>2. CASE ~y.raced /\ e.fade # 0
    <3>1. Base(f, e.fade) /\ k.token \in {0, e.fade}
      BY <1>1, <1>2, <2>2
    <3> QED
      BY <1>1, <1>6, <2>2, <3>1, SeekBackIsLive
  <2>3. CASE ~y.raced /\ e.fade = 0
    <3>1. k.op = "Seek" /\ k.token # 0 => Base(f, k.token)
      BY <1>1, <1>2, <2>3
    <3>2. Gives(c, d, f)
      BY <3>1, PopsGives
    <3>3. Settles(e, f)
      BY <1>1, <2>3 DEF Settles, Base
    <3>4. Sounding(f) => Sounding(e)
      BY <1>1, <1>2, <2>3 DEF Sounding
    <3>5. x.pending = None \/ Past(x) \/ ~Finished(m, x.pending.token, "gapless")
      <4>1. ~NoSeek(c) /\ ~x.raced
        BY <2>3, PopsLess DEF Twin
      <4> QED
        BY <4>1, LinedIsCalm
    <3> QED
      BY <1>6, <3>2, <3>3, <3>4, <3>5, QuietIsLive
  <2>4. y.raced \/ ~y.raced
    OBVIOUS
  <2> QED
    BY <2>1, <2>2, <2>3, <2>4
<1> QED
  BY <1>7 DEF a, f

\* The engine takes a command.
LEMMA TakenIsLive ==
  ASSUME NEW x, NEW y, NEW m, NEW c, NEW d, NEW k, NEW e, NEW v, v \in Seq(ToSet(v)),
         EngineTyped(e, x), k.op \in Others \cup {"Load"},
         Live(x, m, c, e, v), Intended(x), Typed(x), Twin(x, y), Pops(c, d, k),
         k.op = "Load" => k.token \in Nat /\ k.transition \in Transitions,
         ~y.raced /\ k.op = "Seek" => Meant(e, k)
  PROVE  Live(y, m, d, Commanded(e, k).eng, v \o Commanded(e, k).events)
<1>1. CASE k.op = "Load"
  <2> DEFINE pend == [token |-> k.token, transition |-> k.transition]
             f == [e EXCEPT !.pend = pend]
             a == Step(e, f, <<>>, <<>>, Dropped(e)).events
  <2>1. Commanded(e, k) = Step(e, f, <<>>, <<>>, Dropped(e))
    BY <1>1 DEF Commanded
  <2>2. pend \in [token : Nat, transition : Transitions]
    BY <1>1
  <2>3. pend # None /\ pend.token = k.token /\ pend.transition = k.transition
    BY <2>2, NoneIsNothing
  <2> HIDE DEF pend
  <2>4. /\ f.last = e.last /\ f.fade = e.fade /\ f.next = e.next /\ f.cur = e.cur
        /\ f.held = e.held /\ f.pend = pend
    BY DEF EngineTyped, EngineFields
  <2> HIDE DEF f
  <2>5. (Sounding(f) <=> Sounding(e)) /\ EnginePhase(f) = EnginePhase(e)
    BY <2>4 DEF EnginePhase, Sounding
  <2>6. Emitted(<<>>, Known3(e), {}, {}, {})
    BY NoneEmitted
  <2>7. Emitted(a, Known3(e), {}, {}, {}) /\ Commanded(e, k).eng = f
    BY <2>1, <2>5, <2>6, StepEmitted
  <2>8. Commanded(e, k).events = a
    BY <2>1
  <2> HIDE DEF a
  <2>9. Emits(v, v \o a, Known3(e), {}, {}, {})
    BY <2>7, EmittedIn
  <2>10. Live(y, m, d, f, v \o a)
    BY <1>1, <2>3, <2>4, <2>5, <2>9, TakesLoadIsLive
  <2> QED
    BY <2>7, <2>8, <2>10
<1>2. CASE k.op = "Cancel"
  <2> DEFINE f == [e EXCEPT !.pend = None, !.next = 0]
  <2>1. Commanded(e, k) = Step(e, f, <<>>, <<>>, Dropped(e))
    BY <1>2 DEF Commanded
  <2>2. /\ f.last = e.last /\ f.fade = e.fade /\ f.next = 0 /\ f.cur = e.cur
        /\ f.held = e.held /\ f.pend = None
    BY DEF EngineTyped, EngineFields
  <2> HIDE DEF f
  <2>3. (Sounding(f) <=> Sounding(e)) /\ EnginePhase(f) = EnginePhase(e)
    BY <2>2 DEF EnginePhase, Sounding
  <2>4. k.op \notin Tame /\ k.op # "Seek"
    BY <1>2 DEF Tame
  <2>5. Live(y, m, d, f, v \o Step(e, f, <<>>, <<>>, Dropped(e)).events)
    BY <2>2, <2>3, <2>4, HoldIsLive
  <2> QED
    BY <2>1, <2>5 DEF Step
<1>3. CASE k.op = "Stop"
  <2> DEFINE f == [NewEngine EXCEPT !.last = e.last]
  <2>1. Commanded(e, k) = Step(e, f, <<>>, <<>>, Dropped(e))
    BY <1>3 DEF Commanded
  <2>2. f.last = e.last /\ f.fade = 0 /\ f.next = 0 /\ f.cur = None /\ f.pend = None
    BY DEF NewEngine
  <2> HIDE DEF f
  <2>3. ~Sounding(f) /\ EnginePhase(f) # "Ended"
    BY <2>2, EndedPhase DEF Sounding
  <2>4. k.op \notin Tame /\ k.op # "Seek"
    BY <1>3 DEF Tame
  <2>5. Live(y, m, d, f, v \o Step(e, f, <<>>, <<>>, Dropped(e)).events)
    BY <2>2, <2>3, <2>4, HoldIsLive
  <2> QED
    BY <2>1, <2>5 DEF Step
<1>4. CASE k.op \in {"Pause", "Resume"}
  <2>1. PICK held \in BOOLEAN : Commanded(e, k) = Quietly(e, [e EXCEPT !.held = held])
    BY <1>4 DEF Commanded
  <2> DEFINE f == [e EXCEPT !.held = held]
  <2>2. /\ f.last = e.last /\ f.fade = e.fade /\ f.next = e.next /\ f.cur = e.cur
        /\ f.pend = e.pend
    BY DEF EngineTyped, EngineFields
  <2>3. Commanded(e, k) = Step(e, f, <<>>, <<>>, NoReply)
    BY <2>1 DEF Quietly
  <2> HIDE DEF f
  <2>4. (Sounding(f) <=> Sounding(e)) /\ (EnginePhase(f) = "Ended" => EnginePhase(e) = "Ended")
    BY <2>2, EndedPhase DEF Sounding
  <2>5. k.op # "Seek"
    BY <1>4
  <2>6. Live(y, m, d, f, v \o Step(e, f, <<>>, <<>>, NoReply).events)
    BY <2>2, <2>4, <2>5, HoldIsLive
  <2> QED
    BY <2>3, <2>6 DEF Step
<1>5. CASE k.op = "Seek"
  <2>1. Commanded(e, k) = Quietly(e, Seeked(e, k.token))
    BY <1>5 DEF Commanded
  <2>2. ~y.raced => Meant(e, k)
    BY <1>5
  <2>3. Live(y, m, d, Seeked(e, k.token), v \o Quietly(e, Seeked(e, k.token)).events)
    BY <1>5, <2>2, SeeksIsLive
  <2> QED
    BY <2>1, <2>3 DEF Quietly, Step
<1> QED
  BY <1>1, <1>2, <1>3, <1>4, <1>5 DEF Others, Tame

-----------------------------------------------------------------------------
(* The engine steps on its own.                                              *)

LEMMA SameGives == ASSUME NEW c, NEW f PROVE Gives(c, c, f)
  BY SaysSelf, SaysGives

\* The playing track is over.
LEMMA EndIsLive ==
  ASSUME NEW x, NEW y, NEW m, NEW c, NEW e, NEW v, v \in Seq(ToSet(v)),
         EngineTyped(e, x), Live(x, m, c, e, v), Typed(x), Twin(x, y), CanEnd(e)
  PROVE  Live(y, m, c, Ends(e).eng, v \o Ends(e).events)
<1> DEFINE cur == [e.cur EXCEPT !.ended = TRUE]
           f == [e EXCEPT !.cur = cur]
           before == <<Event("Ended", e.cur.token)>>
           a == Step(e, f, before, <<>>, NoReply).events
<1>1. Ends(e) = Step(e, f, before, <<>>, NoReply)
  BY DEF Ends
<1>2. e.cur # None /\ e.next = 0 /\ Sounding(e) /\ e.cur.token = e.last
  BY DEF CanEnd, Sounding, EngineTyped
<1>3. cur.ended = TRUE
  BY <1>2 DEF EngineTyped
<1> HIDE DEF cur
<1>4. /\ f.last = e.last /\ f.fade = e.fade /\ f.next = e.next /\ f.pend = e.pend
      /\ f.cur = cur
  BY DEF EngineTyped, EngineFields
<1> HIDE DEF f
<1>5. ~Sounding(f)
  BY <1>3, <1>4 DEF Sounding
<1>6. Emitted(a, Known3(e), {}, {}, {e.last}) /\ Ends(e).eng = f /\ Ends(e).events = a
  <2>1. f.last \in Known3(e) /\ f.last \in {e.last} /\ e.last \in Known3(e)
    BY <1>4 DEF Known3
  <2>2. Emitted(before, Known3(e), {}, {}, {e.last})
    BY <1>2, <2>1, EventEmitted
  <2>3. Emitted(<<>>, Known3(e), {}, {}, {e.last})
    BY NoneEmitted
  <2> HIDE DEF before
  <2> QED
    BY <1>1, <2>1, <2>2, <2>3, StepEmitted
<1> HIDE DEF a, before
<1>7. Emits(v, v \o a, Known3(e), {}, {}, {e.last})
  BY <1>6, EmittedIn
<1>8. Live(y, m, c, f, v \o a)
  BY <1>2, <1>4, <1>5, <1>7, EndsLive
<1> QED
  BY <1>6, <1>8

\* A fade is over, or the queued track takes over.
LEMMA SwitchIsLive ==
  ASSUME NEW x, NEW y, NEW m, NEW c, NEW e, NEW v, v \in Seq(ToSet(v)),
         EngineTyped(e, x), Live(x, m, c, e, v), Typed(x), Intended(x), Twin(x, y), CanSwitch(e)
  PROVE  Live(y, m, c, Switches(e).eng, v \o Switches(e).events)
<1>1. CASE e.fade # 0
  <2> DEFINE f == [e EXCEPT !.fade = 0]
             before == IF e.cur = None THEN <<>> ELSE <<Event("TrackSwitched", e.cur.token)>>
             a == Step(e, f, before, <<>>, NoReply).events
  <2>1. Switches(e) = Step(e, f, before, <<>>, NoReply)
    BY <1>1 DEF Switches
  <2>2. /\ f.last = e.last /\ f.fade = 0 /\ f.next = e.next /\ f.pend = e.pend
        /\ f.cur = e.cur /\ f.held = e.held
    BY DEF EngineTyped, EngineFields
  <2> HIDE DEF f
  <2>3. (Sounding(f) <=> Sounding(e)) /\ EnginePhase(f) = EnginePhase(e)
    BY <2>2 DEF Sounding, EnginePhase
  <2>4. Emitted(<<>>, Known3(e), {e.last}, {}, {})
    BY NoneEmitted
  <2>5. Emitted(before, Known3(e), {e.last}, {}, {})
    <3>1. CASE e.cur = None
      BY <2>4, <3>1
    <3>2. CASE e.cur # None
      <4>1. e.cur.token = e.last /\ e.last \in Known3(e)
        BY <3>2 DEF EngineTyped, Known3
      <4>2. Emitted(<<Event("TrackSwitched", e.last)>>, Known3(e), {e.last}, {}, {})
        BY <4>1, EventEmitted
      <4> QED
        BY <3>2, <4>1, <4>2
    <3> QED
      BY <3>1, <3>2
  <2> HIDE DEF before
  <2>6. Emitted(a, Known3(e), {e.last}, {}, {}) /\ Switches(e).eng = f /\ Switches(e).events = a
    BY <2>1, <2>3, <2>4, <2>5, StepEmitted
  <2> HIDE DEF a
  <2>7. Emits(v, v \o a, Known3(e), {e.last}, {}, {})
    BY <2>6, EmittedIn
  <2>8. Settles(e, f) /\ Gives(c, c, f)
    BY <2>2, SameGives DEF Settles
  <2>9. Live(y, m, c, f, v \o a)
    BY <1>1, <2>2, <2>3, <2>7, <2>8, QuietIsLive
  <2> QED
    BY <2>6, <2>9
<1>2. CASE e.fade = 0
  <2> DEFINE cur == Started(e.next)
             f == [e EXCEPT !.cur = cur, !.next = 0, !.last = e.next]
             before == <<Event("TrackSwitched", e.next)>>
             a == Step(e, f, before, <<>>, NoReply).events
  <2>1. Switches(e) = Step(e, f, before, <<>>, NoReply) /\ e.next # 0
    BY <1>2 DEF Switches, CanSwitch
  <2>2. cur.ended = FALSE
    BY DEF Started
  <2> HIDE DEF cur
  <2>3. /\ f.last = e.next /\ f.fade = e.fade /\ f.next = 0 /\ f.pend = e.pend
        /\ f.cur = cur
    BY DEF EngineTyped, EngineFields
  <2> HIDE DEF f
  <2>4. Base(f, e.next) /\ EnginePhase(f) # "Ended"
    BY <1>2, <2>2, <2>3, EndedPhase DEF Base, Sounding
  <2>5. e.next \in Known3(e) /\ f.last \in Known3(e)
    BY <2>3 DEF Known3
  <2>6. /\ Emitted(before, Known3(e), {e.next}, {}, {})
        /\ Emitted(<<>>, Known3(e), {e.next}, {}, {})
    BY <2>5, EventEmitted, NoneEmitted
  <2>7. Emitted(a, Known3(e), {e.next}, {}, {}) /\ Switches(e).eng = f /\ Switches(e).events = a
    <3> HIDE DEF before
    <3> QED
      BY <2>1, <2>4, <2>5, <2>6, StepEmitted
  <2>8. SwitchIn(a, e.next)
    <3> DEFINE k == Event("TrackSwitched", e.next)
               p == PhaseEvents(e, f)
    <3>1. k.type = "TrackSwitched" /\ k.token = e.next
      BY DEF Event
    <3> HIDE DEF k
    <3>2. Emitted(p, Known3(e), {e.next}, {}, {})
      BY <2>4, <2>5, PhaseEmitted
    <3> HIDE DEF p
    <3>3. a = <<k>> \o p \o <<>> /\ <<k>> \o p = a
      <4>1. a = <<k>> \o p \o <<>>
        BY DEF Step, k, p
      <4>2. <<k>> \o p \in Seq({k} \cup ToSet(p))
        BY <3>2 DEF Emitted
      <4> HIDE DEF a
      <4> QED
        BY <4>1, <4>2
    <3>4. <<k>> \in Seq(ToSet(<<k>>)) /\ DOMAIN <<k>> = 1 .. 1 /\ <<k>>[1] = k
      <4>1. <<k>> \in Seq({k}) /\ DOMAIN <<k>> = 1 .. 1 /\ <<k>>[1] = k
        OBVIOUS
      <4> QED
        BY <4>1, OwnElements
    <3>5. Joins(<<k>>, p, <<k>> \o p)
      BY <3>2, <3>4, InConcat DEF Emitted
    <3> HIDE DEF a
    <3>6. \E i \in DOMAIN a : a[i] = k
      BY <3>3, <3>4, <3>5 DEF Joins
    <3> QED
      BY <3>1, <3>6 DEF SwitchIn
  <2> HIDE DEF a, before
  <2>9. Emits(v, v \o a, Known3(e), {e.next}, {}, {}) /\ SwitchIn(v \o a, e.next)
    BY <2>7, <2>8, EmittedIn
  <2>10. Live(y, m, c, f, v \o a)
    BY <1>2, <2>1, <2>3, <2>4, <2>9, TakeoverIsLive
  <2> QED
    BY <2>7, <2>10
<1> QED
  BY <1>1, <1>2

\* What goes wrong while the session waits for no load, or races.
LEMMA TroubleIsLive ==
  ASSUME NEW x, NEW y, NEW m, NEW c, NEW e, NEW f, NEW v, v \in Seq(ToSet(v)), NEW a, NEW R,
         Live(x, m, c, e, v), Shaped(x), Intended(x), Twin(x, y),
         f.last = e.last, f.fade \in {e.fade, 0}, f.next \in {e.next, 0},
         f.pend \in {e.pend, None}, Emitted(a, Known3(e), {}, R, {}),
         y.raced \/ (Sounding(f) => Sounding(e)),
         y.raced \/ ~IsLoading(x) \/ R = {},
         y.raced \/ ~IsLoading(x) \/ Past(x) \/ f.next = e.next
  PROVE  Live(y, m, c, f, v \o a)
<1>1. Emits(v, v \o a, Known3(e), {}, R, {})
  BY EmittedIn
<1>2. Settles(e, f) /\ Gives(c, c, f)
  BY SameGives DEF Settles
<1>3. ~y.raced /\ x.pending # None /\ ~Past(x) => IsLoading(x)
  BY DEF Shaped, Intended, Past, IsLoading, Loading, Taken, Twin
<1>4. \/ y.raced \/ x.pending = None \/ Past(x) \/ ~Finished(m, x.pending.token, "gapless")
      \/ f.next = e.next /\ (Calm(c) => Calm(c))
  BY <1>3
<1> QED
  BY <1>1, <1>2, <1>4, QuietIsLive

\* The output is rebuilt.
LEMMA RebuildIsLive ==
  ASSUME NEW x, NEW y, NEW m, NEW c, NEW e, NEW v, v \in Seq(ToSet(v)), NEW hold \in BOOLEAN,
         EngineTyped(e, x), Live(x, m, c, e, v), Shaped(x), Intended(x), Twin(x, y),
         y.raced \/ ((e.cur = None \/ ~e.cur.ended) /\ (e.next = 0 \/ Past(x)))
  PROVE  Live(y, m, c, Rebuilds(e, hold).eng, v \o Rebuilds(e, hold).events)
<1> DEFINE bare == [e EXCEPT !.fade = 0, !.next = 0]
           f == IF e.cur = None THEN bare
                ELSE [bare EXCEPT !.cur.ended = FALSE,
                                  !.held = IF @ THEN ~e.cur.ended ELSE hold]
           told == Revival(e, hold)
           a == Step(e, f, told, <<>>, NoReply).events
<1>1. Rebuilds(e, hold) = Step(e, f, told, <<>>, NoReply)
  BY DEF Rebuilds
<1>2. /\ DOMAIN bare = EngineFields /\ bare.last = e.last /\ bare.fade = 0 /\ bare.next = 0
      /\ bare.pend = e.pend /\ bare.cur = e.cur
  BY DEF EngineTyped, EngineFields
<1>3. /\ f.last = e.last /\ f.fade = 0 /\ f.next = 0 /\ f.pend = e.pend
      /\ f.cur = None \/ f.cur.ended = FALSE
      /\ f.cur # None => e.cur # None
  <2>1. CASE e.cur = None
    BY <1>2, <2>1
  <2>2. CASE e.cur # None
    <3> DEFINE held == IF bare.held THEN ~e.cur.ended ELSE hold
               cur == [bare.cur EXCEPT !.ended = FALSE]
    <3>1. f = [bare EXCEPT !.cur = cur, !.held = held]
      BY <1>2, <2>2 DEF EngineFields
    <3>2. cur.ended = FALSE
      BY <1>2, <2>2 DEF EngineTyped
    <3> HIDE DEF bare, cur, held, f
    <3>3. /\ f.last = bare.last /\ f.fade = bare.fade /\ f.next = bare.next /\ f.pend = bare.pend
          /\ f.cur = cur
      BY <1>2, <3>1 DEF EngineFields
    <3> QED
      BY <1>2, <2>2, <3>2, <3>3
  <2> QED
    BY <2>1, <2>2
<1> HIDE DEF f
<1>4. EnginePhase(f) # "Ended"
  BY <1>3, EndedPhase DEF Sounding
<1>5. y.raced \/ (Sounding(f) => Sounding(e))
  BY <1>3 DEF Sounding
<1>6. Emitted(a, Known3(e), {}, {}, {}) /\ Rebuilds(e, hold).eng = f
      /\ Rebuilds(e, hold).events = a
  <2>1. f.last \in Known3(e)
    BY <1>3 DEF Known3
  <2>2. Emitted(<<>>, Known3(e), {}, {}, {})
    BY NoneEmitted
  <2>3. Emitted(told, Known3(e), {}, {}, {})
    <3> DEFINE k == [type |-> "PhaseChanged", token |-> e.last, phase |-> "Playing"]
    <3>1. k.token \in Known3(e) /\ k.type = "PhaseChanged" /\ k.phase = "Playing"
      BY DEF Known3
    <3>2. told = <<>> \/ told = <<k>>
      BY DEF Revival
    <3> HIDE DEF k, told
    <3>3. Emitted(<<k>>, Known3(e), {}, {}, {})
      BY <3>1, OneEmitted DEF Ending
    <3> QED
      BY <2>2, <3>2, <3>3
  <2> HIDE DEF told
  <2> QED
    BY <1>1, <1>4, <2>1, <2>2, <2>3, StepEmitted
<1> HIDE DEF a
<1>7. y.raced \/ ~IsLoading(x) \/ Past(x) \/ f.next = e.next
  BY <1>3
<1>8. Live(y, m, c, f, v \o a)
  BY <1>3, <1>5, <1>6, <1>7, TroubleIsLive
<1> QED
  BY <1>6, <1>8

\* There is no output any more.
LEMMA LostIsLive ==
  ASSUME NEW x, NEW y, NEW m, NEW c, NEW e, NEW v, v \in Seq(ToSet(v)),
         EngineTyped(e, x), Live(x, m, c, e, v), Shaped(x), Intended(x), Twin(x, y),
         y.raced \/ ~IsLoading(x)
  PROVE  Live(y, m, c, OutputLost(e).eng, v \o OutputLost(e).events)
<1> DEFINE f == [NewEngine EXCEPT !.last = e.last]
           after == <<Event("Error", e.last)>>
           a == Step(e, f, <<>>, after, Dropped(e)).events
<1>1. OutputLost(e) = Step(e, f, <<>>, after, Dropped(e))
  BY DEF OutputLost
<1>2. f.last = e.last /\ f.fade = 0 /\ f.next = 0 /\ f.cur = None /\ f.pend = None
  BY DEF NewEngine
<1> HIDE DEF f
<1>3. ~Sounding(f) /\ EnginePhase(f) # "Ended"
  BY <1>2, EndedPhase DEF Sounding
<1>4. e.last \in Known3(e) /\ f.last \in Known3(e)
  BY <1>2 DEF Known3
<1>5. Emitted(after, Known3(e), {}, {e.last}, {}) /\ Emitted(<<>>, Known3(e), {}, {e.last}, {})
  BY <1>4, EventEmitted, NoneEmitted
<1> HIDE DEF after
<1>6. /\ Emitted(a, Known3(e), {}, {e.last}, {}) /\ OutputLost(e).eng = f
      /\ OutputLost(e).events = a
  BY <1>1, <1>3, <1>4, <1>5, StepEmitted
<1> HIDE DEF a
<1>7. Live(y, m, c, f, v \o a)
  BY <1>2, <1>3, <1>6, TroubleIsLive
<1> QED
  BY <1>6, <1>7

\* A worker fails, and the step keeps every token the engine has but drops some.
LEMMA FailedIsLive ==
  ASSUME NEW x, NEW y, NEW m, NEW c, NEW e, NEW f, NEW v, v \in Seq(ToSet(v)), NEW t, NEW before,
         Live(x, m, c, e, v), Shaped(x), Intended(x), Twin(x, y), y.raced \/ ~IsLoading(x),
         before \in {<<>>, <<Event("Error", t)>>}, t \in Known3(e),
         f.last = e.last, f.fade \in {e.fade, 0}, f.next \in {e.next, 0}, f.pend = e.pend,
         f.cur = None \/ (f.cur = e.cur /\ f.held = e.held)
  PROVE  LET r == Step(e, f, before, <<>>, NoReply)
         IN  Live(y, m, c, r.eng, v \o r.events)
<1> DEFINE r == Step(e, f, before, <<>>, NoReply)
           a == r.events
<1>3. (Sounding(f) => Sounding(e)) /\ (f.cur = None \/ EnginePhase(f) = EnginePhase(e))
  BY DEF Sounding, EnginePhase
<1>4. EnginePhase(e) # EnginePhase(f) => EnginePhase(f) # "Ended"
  BY <1>3, EndedPhase
<1>5. f.last \in Known3(e)
  BY DEF Known3
<1>6. /\ Emitted(<<Event("Error", t)>>, Known3(e), {}, {t}, {})
      /\ Emitted(<<>>, Known3(e), {}, {t}, {})
  BY EventEmitted, NoneEmitted
<1>7. Emitted(before, Known3(e), {}, {t}, {})
  BY <1>6
<1>8. Emitted(a, Known3(e), {}, {t}, {}) /\ r.eng = f
  BY <1>4, <1>5, <1>6, <1>7, StepEmitted
<1> HIDE DEF r
<1>9. Live(y, m, c, f, v \o a)
  <2> HIDE DEF a
  <2> QED
    BY <1>3, <1>8, TroubleIsLive
<1> QED
  BY <1>8, <1>9 DEF r

\* A worker fails.
LEMMA FailsIsLive ==
  ASSUME NEW x, NEW y, NEW m, NEW c, NEW e, NEW v, v \in Seq(ToSet(v)), NEW t \in Playing(e),
         EngineTyped(e, x), Live(x, m, c, e, v), Shaped(x), Intended(x), Twin(x, y),
         y.raced \/ ~IsLoading(x)
  PROVE  Live(y, m, c, Fails(e, t).eng, v \o Fails(e, t).events)
<1> DEFINE gone == [e EXCEPT !.cur = None]
           alone == [e EXCEPT !.fade = 0]
           bare == [e EXCEPT !.next = 0]
           error == <<Event("Error", t)>>
<1>1. \/ Fails(e, t) = Step(e, gone, error, <<>>, NoReply)
      \/ Fails(e, t) = Step(e, alone, <<>>, <<>>, NoReply)
      \/ Fails(e, t) = Step(e, bare, error, <<>>, NoReply)
  BY DEF Fails, Playing, Quietly
<1>2. t \in Known3(e)
  BY DEF Playing, Known3, EngineTyped
<1>3. /\ gone.last = e.last /\ gone.fade = e.fade /\ gone.next = e.next /\ gone.pend = e.pend
      /\ gone.cur = None
  BY DEF EngineTyped, EngineFields
<1>4. /\ alone.last = e.last /\ alone.fade = 0 /\ alone.next = e.next /\ alone.pend = e.pend
      /\ alone.cur = e.cur /\ alone.held = e.held
  BY DEF EngineTyped, EngineFields
<1>5. /\ bare.last = e.last /\ bare.fade = e.fade /\ bare.next = 0 /\ bare.pend = e.pend
      /\ bare.cur = e.cur /\ bare.held = e.held
  BY DEF EngineTyped, EngineFields
<1>6. error \in {<<>>, <<Event("Error", t)>>} /\ <<>> \in {<<>>, <<Event("Error", t)>>}
  OBVIOUS
<1> HIDE DEF gone, alone, bare, error
<1>7. CASE Fails(e, t) = Step(e, gone, error, <<>>, NoReply)
  BY <1>2, <1>3, <1>6, <1>7, FailedIsLive
<1>8. CASE Fails(e, t) = Step(e, alone, <<>>, <<>>, NoReply)
  BY <1>2, <1>4, <1>6, <1>8, FailedIsLive
<1>9. CASE Fails(e, t) = Step(e, bare, error, <<>>, NoReply)
  BY <1>2, <1>5, <1>6, <1>9, FailedIsLive
<1> QED
  BY <1>1, <1>7, <1>8, <1>9

\* The source cannot be read.
LEMMA UnreadIsLive ==
  ASSUME NEW x, NEW y, NEW m, NEW n, NEW c, NEW e, NEW v, v \in Seq(ToSet(v)), EngineTyped(e, x),
         Live(x, m, c, e, v), OnHold(x, m, c, e, v, e.pend.token), Shaped(x), OnePlace(x, m),
         e.pend # None, Answers(x, m, y, n, e.pend.token, "failed")
  PROVE  Live(y, n, c, LoadFails(e).eng, v \o LoadFails(e).events)
<1> DEFINE t0 == e.pend.token
           f == [e EXCEPT !.pend = None]
           error == <<Event("Error", t0)>>
           a == Step(e, f, error, <<>>, Reply(t0, "failed")).events
<1>1. LoadFails(e) = Step(e, f, error, <<>>, Reply(t0, "failed"))
  BY DEF LoadFails
<1>2. /\ f.last = e.last /\ f.fade = e.fade /\ f.next = e.next /\ f.pend = None
      /\ f.cur = e.cur /\ f.held = e.held
  BY DEF EngineTyped, EngineFields
<1> HIDE DEF f
<1>3. (Sounding(f) <=> Sounding(e)) /\ EnginePhase(f) = EnginePhase(e)
  BY <1>2 DEF Sounding, EnginePhase
<1>4. Emitted(error, {t0}, {}, {t0}, {}) /\ Emitted(<<>>, {t0}, {}, {t0}, {})
  BY EventEmitted, NoneEmitted
<1> HIDE DEF error
<1>5. Emitted(a, {t0}, {}, {t0}, {}) /\ LoadFails(e).eng = f /\ LoadFails(e).events = a
  BY <1>1, <1>3, <1>4, StepEmitted
<1> HIDE DEF a
<1>6. Emits(v, v \o a, {t0}, {}, {t0}, {})
  BY <1>5, EmittedIn
<1>7. Live(y, n, c, f, v \o a)
  BY <1>2, <1>3, <1>6, LoadFailsIsLive
<1> QED
  BY <1>5, <1>7

\* What a load that starts leaves.
StartsAs(e, f, result) ==
    /\ f.pend = None /\ StartKind(e, f, e.pend.token, result)
    /\ EnginePhase(f) # EnginePhase(e) => f.last = e.pend.token /\ EnginePhase(f) # "Ended"
    /\ Starts(e) = Step(e, f, <<>>, <<Event("Loaded", e.pend.token)>>, Reply(e.pend.token, result))

LEMMA FadesIn ==
  ASSUME NEW x, NEW e, EngineTyped(e, x), e.pend # None,
         e.pend.transition = "crossfade" /\ Sounding(e) /\ ~e.held
  PROVE  \E f, result : StartsAs(e, f, result)
<1> DEFINE t == e.pend.token
           f == [e EXCEPT !.pend = None, !.next = 0, !.fade = e.cur.token,
                          !.cur = Started(t), !.last = t]
<1>1. Starts(e) = Step(e, f, <<>>, <<Event("Loaded", t)>>, Reply(t, "crossfaded"))
  BY DEF Starts
<1>2. f.last = t /\ f.next = 0 /\ f.fade = e.cur.token /\ f.pend = None /\ f.cur = Started(t)
  BY DEF EngineTyped, EngineFields
<1>3. e.cur # None /\ e.cur.token = e.last /\ e.last # 0
  BY DEF EngineTyped, Sounding
<1> HIDE DEF f
<1>4. f.cur.ended = FALSE
  BY <1>2 DEF Started
<1>5. EnginePhase(f) # "Ended"
  BY <1>4, EndedPhase DEF Sounding
<1>6. StartKind(e, f, t, "crossfaded")
  BY <1>2, <1>3 DEF StartKind
<1> HIDE DEF t
<1>7. StartsAs(e, f, "crossfaded")
  BY <1>1, <1>2, <1>5, <1>6 DEF StartsAs, t
<1> QED
  BY <1>7

LEMMA LinesUp ==
  ASSUME NEW x, NEW e, EngineTyped(e, x), e.pend # None,
         e.pend.transition = "gapless" /\ Sounding(e) /\ e.fade = 0
  PROVE  \E f, result : StartsAs(e, f, result)
<1> DEFINE t == e.pend.token
           f == [e EXCEPT !.pend = None, !.next = t]
<1>1. Starts(e) = Step(e, f, <<>>, <<Event("Loaded", t)>>, Reply(t, "gapless"))
  BY DEF Starts
<1>2. /\ f.last = e.last /\ f.next = t /\ f.fade = e.fade /\ f.pend = None /\ f.cur = e.cur
      /\ f.held = e.held
  BY DEF EngineTyped, EngineFields
<1>3. e.cur # None /\ e.cur.token = e.last /\ e.last # 0
  BY DEF EngineTyped, Sounding
<1> HIDE DEF f
<1>5. EnginePhase(f) = EnginePhase(e)
  BY <1>2 DEF Sounding, EnginePhase
<1>6. StartKind(e, f, t, "gapless")
  BY <1>2, <1>3 DEF StartKind
<1> HIDE DEF t
<1>7. StartsAs(e, f, "gapless")
  BY <1>1, <1>2, <1>5, <1>6 DEF StartsAs, t
<1> QED
  BY <1>7

LEMMA TakesOver ==
  ASSUME NEW x, NEW e, EngineTyped(e, x), e.pend # None,
         ~(e.pend.transition = "crossfade" /\ Sounding(e) /\ ~e.held),
         ~(e.pend.transition = "gapless" /\ Sounding(e) /\ e.fade = 0)
  PROVE  \E f, result : StartsAs(e, f, result)
<1> DEFINE t == e.pend.token
           held == e.held /\ e.pend.transition # "immediate"
           free == [e EXCEPT !.pend = None, !.next = 0]
           g == [free EXCEPT !.fade = 0, !.cur = Started(t), !.last = t,
                             !.held = @ /\ e.pend.transition # "immediate"]
           f == [free EXCEPT !.fade = 0, !.cur = Started(t), !.last = t, !.held = held]
<1>1. Starts(e) = Step(e, g, <<>>, <<Event("Loaded", t)>>, Reply(t, "started"))
  BY DEF Starts
<1>2. g = f
  BY DEF EngineTyped, EngineFields
<1>3. f.last = t /\ f.next = 0 /\ f.fade = 0 /\ f.pend = None /\ f.cur = Started(t)
  <2> HIDE DEF held
  <2> QED
    BY DEF EngineTyped, EngineFields
<1> HIDE DEF f, g
<1>4. f.cur.ended = FALSE
  BY <1>3 DEF Started
<1>5. EnginePhase(f) # "Ended"
  BY <1>4, EndedPhase DEF Sounding
<1>6. StartKind(e, f, t, "started")
  BY <1>3 DEF StartKind, Base
<1> HIDE DEF t
<1>7. StartsAs(e, f, "started")
  BY <1>1, <1>2, <1>3, <1>5, <1>6 DEF StartsAs, t
<1> QED
  BY <1>7

\* The pending load is probed.
LEMMA ProbedIsLive ==
  ASSUME NEW x, NEW y, NEW m, NEW n, NEW c, NEW e, NEW v, v \in Seq(ToSet(v)), EngineTyped(e, x),
         Live(x, m, c, e, v), OnHold(x, m, c, e, v, e.pend.token), Shaped(x), OnePlace(x, m),
         e.pend # None, Answers(x, m, y, n, e.pend.token, Starts(e).reply.result)
  PROVE  Live(y, n, c, Starts(e).eng, v \o Starts(e).events)
<1> DEFINE t0 == e.pend.token
           loaded == <<Event("Loaded", t0)>>
<1>1. PICK f, result : StartsAs(e, f, result)
  BY FadesIn, LinesUp, TakesOver
<1> DEFINE a == Step(e, f, <<>>, loaded, Reply(t0, result)).events
<1>2. Emitted(loaded, {t0}, {}, {}, {}) /\ Emitted(<<>>, {t0}, {}, {}, {})
  BY EventEmitted, NoneEmitted
<1>3. Starts(e) = Step(e, f, <<>>, loaded, Reply(t0, result))
  BY <1>1 DEF StartsAs
<1> HIDE DEF loaded
<1>4. EnginePhase(f) # EnginePhase(e) => f.last \in {t0} /\ EnginePhase(f) # "Ended"
  BY <1>1 DEF StartsAs
<1>5. Emitted(a, {t0}, {}, {}, {}) /\ Starts(e).eng = f /\ Starts(e).events = a
      /\ Starts(e).reply = Reply(t0, result)
  BY <1>2, <1>3, <1>4, StepEmitted
<1> HIDE DEF a
<1>6. Starts(e).reply.result = result
  BY <1>5 DEF Reply
<1>7. Emits(v, v \o a, {t0}, {}, {}, {})
  BY <1>5, EmittedIn
<1>8. f.pend = None /\ StartKind(e, f, t0, result)
  BY <1>1 DEF StartsAs
<1>9. Live(y, n, c, f, v \o a)
  BY <1>6, <1>7, <1>8, StartsIsLive
<1> QED
  BY <1>5, <1>9

-----------------------------------------------------------------------------
(* The steps of the engine.                                                  *)

LiveNow == Live(s, mail, sent, engine, events)

LEMMA LiveCarries ==
  ASSUME mode' = mode, Live(s', mail', sent', engine', events') PROVE LiveNow'
BY DEF LiveNow, Live, Orderly

\* What the invariant says of the state an engine step begins in.
LEMMA InvGives ==
  ASSUME Inv
  PROVE  /\ DOMAIN s = Fields /\ Shaped(s) /\ Intended(s) /\ Typed(s) /\ OnePlace(s, mail)
         /\ Good(s, mail) /\ EngineTyped(engine, s) /\ FreshIn(s, mail, sent) /\ To(s) = sent
         /\ mail \in Seq(ToSet(mail)) /\ sent \in Seq(ToSet(sent)) /\ events \in Seq(ToSet(events))
         /\ s.task # None => s.task.token # 0
<1>1. Good(s, mail) /\ Heard(events) /\ s.out = <<>>
  BY DEF Inv
<1>2. sent \in Seq(ToSet(sent)) /\ To(s) = sent
  BY <1>1, NothingOut DEF Good, Sane, Fresh, To
<1>3. Fresh(s, mail) /\ Shaped(s) /\ OnePlace(s, mail) /\ Intended(s) /\ Typed(s)
      /\ mail \in Seq(ToSet(mail))
  BY <1>1 DEF Good, Sane
<1>4. s.task # None => s.task.token # 0
  BY <1>3 DEF OnePlace, Given
<1> QED
  BY <1>1, <1>2, <1>3, <1>4 DEF Fresh, Heard, Shaped

LEMMA StepAnswers ==
  ASSUME NEW x, NEW r, EngineSteps(x, r), DOMAIN x = Fields, mail \in Seq(ToSet(mail))
  PROVE  Answers(x, mail, s', mail', r.reply.token, r.reply.result)
<1> DEFINE k == [type |-> "LoadFinished", token |-> r.reply.token, result |-> r.reply.result]
<1>1. CASE Waits(x, r.reply.token)
  <2>1. mail' = Append(mail, k) /\ s' = [x EXCEPT !.task = None]
    BY <1>1 DEF EngineSteps, Waits, Replies
  <2>2. Posts(mail, mail', k)
    BY <2>1, AppendPosts
  <2>3. /\ s'.pending = x.pending /\ s'.intent = x.intent /\ s'.nextToken = x.nextToken
        /\ s'.raced = x.raced /\ s'.task = None
    BY <2>1 DEF Fields
  <2> QED
    BY <1>1, <2>2, <2>3 DEF Answers
<1>2. CASE ~Waits(x, r.reply.token)
  <2>1. mail' = mail /\ s' = x
    BY <1>2 DEF EngineSteps, Waits, Replies
  <2> QED
    BY <1>2, <2>1 DEF Answers
<1> QED
  BY <1>1, <1>2

\* A step that answers nothing, or lets the pending load go.
LEMMA LettingGoIsLive ==
  ASSUME Inv, NEW x, NEW r, EngineSteps(x, r), DOMAIN x = Fields, x.task = s.task,
         r.reply.result = "dropped" \/ r.reply.token = 0,
         Live(x, mail, sent', r.eng, events \o r.events)
  PROVE  LiveNow'
<1>1. Answers(x, mail, s', mail', r.reply.token, r.reply.result)
  BY StepAnswers, InvGives
<1>2. engine' = r.eng /\ events' = events \o r.events /\ mode' = mode
  BY DEF EngineSteps
<1>3. Live(s', mail', sent', r.eng, events \o r.events)
  <2>1. CASE r.reply.result = "dropped"
    BY <1>1, <2>1, DropIsLive
  <2>2. CASE r.reply.token = 0
    <3>1. ~Waits(x, r.reply.token)
      BY <2>2, InvGives DEF Waits, Replies
    <3>2. mail' = mail /\ s' = x
      BY <3>1 DEF EngineSteps, Waits, Replies
    <3> QED
      BY <3>2
  <2> QED
    BY <2>1, <2>2
<1>4. Live(s', mail', sent', engine', events')
  BY <1>2, <1>3
<1> QED
  BY <1>2, <1>4, LiveCarries

\* The session as it was but for the flag.
LEMMA RacingTwin ==
  ASSUME DOMAIN s = Fields, NEW race, s.raced => race
  PROVE  LET x == [s EXCEPT !.raced = race]
         IN  DOMAIN x = Fields /\ Twin(s, x) /\ x.task = s.task /\ x.raced = race
BY DEF Fields, Twin

LEMMA DroppedOrNone ==
  ASSUME NEW e PROVE Dropped(e).result = "dropped" \/ Dropped(e).token = 0
BY DEF Dropped, Reply, NoReply

LEMMA CommandIsLive == ASSUME Inv, LiveNow, EngineTakesCommand PROVE LiveNow'
<1> DEFINE k == Head(sent)
           race == s.raced \/ Surprises(k)
           x == [s EXCEPT !.raced = race]
           r == Commanded(engine, k)
<1>1. sent # <<>> /\ sent' = Tail(sent) /\ EngineSteps(x, r)
  BY DEF EngineTakesCommand
<1>2. Pops(sent, sent', k)
  BY <1>1, TailPops, InvGives
<1>3. ~race /\ k.op = "Seek" => Meant(engine, k)
  BY DEF Surprises, Meant
<1>4. DOMAIN x = Fields /\ Twin(s, x) /\ x.task = s.task /\ x.raced = race
  <2> HIDE DEF x
  <2>1. s.raced => race
    OBVIOUS
  <2> HIDE DEF race
  <2> QED
    BY <2>1, RacingTwin, InvGives DEF x
<1>5. /\ k.op \in Others \cup {"Load"}
      /\ k.op = "Load" => k.token \in Nat /\ k.transition \in Transitions
  <2>1. 1 \in DOMAIN sent /\ sent[1] = k
    BY <1>1, SentShifts, InvGives
  <2> HIDE DEF k
  <2> QED
    BY <2>1, InvGives DEF FreshIn, Known, Given, Fades
<1> HIDE DEF x, race
<1>6. Live(s, mail, sent, engine, events)
  BY DEF LiveNow
<1> HIDE DEF k
<1>7. Live(x, mail, sent', r.eng, events \o r.events)
  BY <1>2, <1>3, <1>4, <1>5, <1>6, InvGives, TakenIsLive
<1>8. r.reply.result = "dropped" \/ r.reply.token = 0
  <2>1. s.nextToken \in Nat /\ 0 < s.nextToken
    BY InvGives DEF OnePlace
  <2>2. r.reply \in {Dropped(engine), NoReply}
    BY <1>5, <2>1, InvGives, CommandedIsTyped DEF Others
  <2> QED
    BY <2>2, DroppedOrNone DEF NoReply
<1> HIDE DEF r
<1> QED
  BY <1>1, <1>4, <1>7, <1>8, LettingGoIsLive

\* The pending load starts, or fails.
LEMMA StartIsLive == ASSUME Inv, LiveNow, EngineStarts PROVE LiveNow'
<1> DEFINE r == Starts(engine)
           t0 == engine.pend.token
<1>1. engine.pend # None /\ EngineSteps(s, r) /\ sent' = sent
  BY DEF EngineStarts, EngineMoves, CanStart
<1>2. Answers(s, mail, s', mail', r.reply.token, r.reply.result)
  BY <1>1, StepAnswers, InvGives
<1>3. r.reply.token = t0
  <2>1. s.nextToken \in Nat /\ 0 < s.nextToken /\ Given(s, t0)
    BY <1>1, InvGives DEF OnePlace, FreshIn, Known
  <2> QED
    BY <1>1, <2>1, InvGives, StartsIsTyped DEF CanStart
<1>4. Live(s, mail, sent, engine, events)
  BY DEF LiveNow
<1>5. OnHold(s, mail, sent, engine, events, t0)
  <2>1. Live(s, mail, To(s), engine, events)
    BY <1>4, InvGives
  <2> QED
    BY <1>1, <2>1, InvGives, HoldsLoad
<1> HIDE DEF r
<1>6. Live(s', mail', sent, Starts(engine).eng, events \o Starts(engine).events)
  BY <1>1, <1>2, <1>3, <1>4, <1>5, InvGives, ProbedIsLive DEF r
<1>7. /\ engine' = Starts(engine).eng /\ events' = events \o Starts(engine).events
      /\ mode' = mode
  BY <1>1 DEF EngineSteps, r
<1> QED
  BY <1>1, <1>6, <1>7, LiveCarries

LEMMA LoadFailureIsLive == ASSUME Inv, LiveNow, EngineLoadFails PROVE LiveNow'
<1> DEFINE r == LoadFails(engine)
           t0 == engine.pend.token
<1>1. engine.pend # None /\ EngineSteps(s, r) /\ sent' = sent
  BY DEF EngineLoadFails, EngineMoves, CanStart
<1>2. Answers(s, mail, s', mail', r.reply.token, r.reply.result)
  BY <1>1, StepAnswers, InvGives
<1>3. r.reply.token = t0 /\ r.reply.result = "failed"
  BY DEF LoadFails, Step, Reply
<1>4. Live(s, mail, sent, engine, events)
  BY DEF LiveNow
<1>5. OnHold(s, mail, sent, engine, events, t0)
  <2>1. Live(s, mail, To(s), engine, events)
    BY <1>4, InvGives
  <2> QED
    BY <1>1, <2>1, InvGives, HoldsLoad
<1> HIDE DEF r
<1>6. Live(s', mail', sent, LoadFails(engine).eng, events \o LoadFails(engine).events)
  BY <1>1, <1>2, <1>3, <1>4, <1>5, InvGives, UnreadIsLive
<1>7. /\ engine' = LoadFails(engine).eng /\ events' = events \o LoadFails(engine).events
      /\ mode' = mode
  BY <1>1 DEF EngineSteps, r
<1> QED
  BY <1>1, <1>6, <1>7, LiveCarries

LEMMA SelfTwin == ASSUME NEW x PROVE Twin(x, x)
BY DEF Twin

\* What plays ends, or gives way to the next.
LEMMA MovingIsLive == ASSUME Inv, LiveNow, EngineEnds \/ EngineSwitches PROVE LiveNow'
<1>1. Live(s, mail, sent, engine, events) /\ Twin(s, s)
  BY SelfTwin DEF LiveNow
<1>2. ASSUME NEW r, EngineSteps(s, r), sent' = sent, r.reply = NoReply,
             Live(s, mail, sent, r.eng, events \o r.events)
      PROVE  LiveNow'
  <2>1. r.reply.token = 0
    BY <1>2 DEF NoReply
  <2> QED
    BY <1>2, <2>1, InvGives, LettingGoIsLive
<1>3. CASE EngineEnds
  <2> DEFINE r == Ends(engine)
  <2>1. CanEnd(engine) /\ EngineSteps(s, r) /\ sent' = sent
    BY <1>3 DEF EngineEnds, EngineMoves
  <2>2. Live(s, mail, sent, r.eng, events \o r.events)
    BY <1>1, <2>1, InvGives, EndIsLive
  <2>3. r.reply = NoReply
    BY DEF Ends, Step
  <2> HIDE DEF r
  <2> QED
    BY <1>2, <2>1, <2>2, <2>3
<1>4. CASE EngineSwitches
  <2> DEFINE r == Switches(engine)
  <2>1. CanSwitch(engine) /\ EngineSteps(s, r) /\ sent' = sent
    BY <1>4 DEF EngineSwitches, EngineMoves
  <2>2. Live(s, mail, sent, r.eng, events \o r.events)
    BY <1>1, <2>1, InvGives, SwitchIsLive
  <2>3. r.reply = NoReply
    BY DEF Switches, Step
  <2> HIDE DEF r
  <2> QED
    BY <1>2, <2>1, <2>2, <2>3
<1> QED
  BY <1>3, <1>4

\* What goes wrong in it.
LEMMA RebuildingIsLive == ASSUME Inv, LiveNow, EngineRebuilds PROVE LiveNow'
<1> DEFINE race == s.raced \/ (engine.next # 0 /\ ~QueuedKnown)
                           \/ (engine.cur # None /\ engine.cur.ended)
           x == [s EXCEPT !.raced = race]
<1>1. PICK hold \in BOOLEAN : sent' = sent /\ EngineSteps(x, Rebuilds(engine, hold))
  BY DEF EngineRebuilds, Trouble
<1> DEFINE r == Rebuilds(engine, hold)
<1>2. s.raced => race
  OBVIOUS
<1>3. race \/ (/\ engine.cur = None \/ ~engine.cur.ended
               /\ engine.next = 0 \/ Past(s))
  BY DEF QueuedKnown, Past
<1> HIDE DEF race
<1>4. DOMAIN x = Fields /\ Twin(s, x) /\ x.task = s.task /\ x.raced = race
  BY <1>2, RacingTwin, InvGives
<1> HIDE DEF x
<1>5. Live(s, mail, sent, engine, events)
  BY DEF LiveNow
<1>6. Live(x, mail, sent, r.eng, events \o r.events)
  BY <1>3, <1>4, <1>5, InvGives, RebuildIsLive
<1>7. r.reply.token = 0
  BY DEF Rebuilds, Quietly, Step, NoReply
<1> HIDE DEF r
<1> QED
  BY <1>1, <1>4, <1>6, <1>7, LettingGoIsLive DEF r

LEMMA FailureIsLive == ASSUME Inv, LiveNow, EngineWorkerFails PROVE LiveNow'
<1> DEFINE race == s.raced \/ UnderWay
           x == [s EXCEPT !.raced = race]
<1>1. PICK t \in Playing(engine) : sent' = sent /\ EngineSteps(x, Fails(engine, t))
  BY DEF EngineWorkerFails, Trouble, Crossed
<1> DEFINE r == Fails(engine, t)
<1>2. s.raced => race
  OBVIOUS
<1>3. race \/ ~IsLoading(s)
  BY DEF UnderWay
<1> HIDE DEF race
<1>4. DOMAIN x = Fields /\ Twin(s, x) /\ x.task = s.task /\ x.raced = race
  BY <1>2, RacingTwin, InvGives
<1> HIDE DEF x
<1>5. Live(s, mail, sent, engine, events)
  BY DEF LiveNow
<1>6. Live(x, mail, sent, r.eng, events \o r.events)
  BY <1>3, <1>4, <1>5, InvGives, FailsIsLive
<1>7. r.reply.token = 0
  <2>1. s.nextToken \in Nat /\ 0 < s.nextToken
    BY InvGives DEF OnePlace
  <2>2. r.reply = NoReply
    BY <2>1, InvGives, MovesAreTyped
  <2> QED
    BY <2>2 DEF NoReply
<1> HIDE DEF r
<1> QED
  BY <1>1, <1>4, <1>6, <1>7, LettingGoIsLive DEF r

LEMMA LosingIsLive == ASSUME Inv, LiveNow, EngineLosesOutput PROVE LiveNow'
<1> DEFINE race == s.raced \/ UnderWay
           forsaken == IF IsLoading(s) /\ engine.pend # None
                       THEN s.forsaken \cup {engine.pend.token} ELSE s.forsaken
           x == [s EXCEPT !.raced = race, !.forsaken = forsaken]
           r == OutputLost(engine)
<1>1. sent' = sent /\ EngineSteps(x, r)
  <2>1. sent' = sent /\ EngineSteps(Cut, r)
    BY DEF EngineLosesOutput, Trouble
  <2>2. Cut = x
    BY InvGives DEF Cut, Crossed, Fields
  <2> QED
    BY <2>1, <2>2
<1>2. s.raced => race
  OBVIOUS
<1>3. race \/ ~IsLoading(s)
  BY DEF UnderWay
<1> HIDE DEF race, forsaken
<1>4. DOMAIN x = Fields /\ Twin(s, x) /\ x.task = s.task /\ x.raced = race
  BY <1>2, InvGives DEF Fields, Twin
<1> HIDE DEF x
<1>5. Live(s, mail, sent, engine, events)
  BY DEF LiveNow
<1>6. Live(x, mail, sent, r.eng, events \o r.events)
  BY <1>3, <1>4, <1>5, InvGives, LostIsLive
<1>7. r.reply.result = "dropped" \/ r.reply.token = 0
  <2>1. r.reply = Dropped(engine)
    BY DEF OutputLost, Step
  <2> QED
    BY <2>1, DroppedOrNone
<1> HIDE DEF r
<1> QED
  BY <1>1, <1>4, <1>6, <1>7, LettingGoIsLive

\* A position is told.
LEMMA PositionIsLive == ASSUME Inv, LiveNow, EnginePosition PROVE LiveNow'
<1> DEFINE k == Event("Position", engine.cur.token)
<1>1. engine.cur # None
  BY DEF EnginePosition, EnginePhase
<1>2. engine.cur.token \in Known3(engine)
  BY <1>1, InvGives DEF EngineTyped, Known3
<1>3. k.type = "Position" /\ k.token = engine.cur.token
  BY DEF Event
<1>4. events' = Append(events, k) /\ UNCHANGED <<s, mode, mail, sent, engine>>
  BY DEF EnginePosition
<1> HIDE DEF k
<1>5. Emitted(<<k>>, Known3(engine), {}, {}, {})
  BY <1>2, <1>3, OneEmitted DEF Ending
<1>6. events' = events \o <<k>>
  BY <1>4, InvGives
<1>7. Emits(events, events', Known3(engine), {}, {}, {})
  BY <1>5, <1>6, InvGives, EmittedIn
<1>8. Live(s, mail, sent, engine, events) /\ Twin(s, s)
  BY SelfTwin DEF LiveNow
<1>9. Gives(sent, sent, engine) /\ Settles(engine, engine)
  BY SameGives DEF Settles
<1>10. Live(s, mail, sent, engine, events')
  BY <1>7, <1>8, <1>9, InvGives, QuietIsLive
<1> QED
  BY <1>4, <1>10, LiveCarries

LEMMA EngineIsLive == ASSUME Inv, LiveNow, EngineActs PROVE LiveNow'
BY CommandIsLive, StartIsLive, LoadFailureIsLive, MovingIsLive, RebuildingIsLive, FailureIsLive,
   LosingIsLive, PositionIsLive DEF EngineActs

-----------------------------------------------------------------------------
(* The other steps.                                                          *)

\* The task tells the session that its source is there, or is not.
TellsOf(x, m, y, n, k) ==
    /\ y.pending = x.pending /\ y.intent = x.intent /\ y.nextToken = x.nextToken
    /\ y.raced = x.raced /\ y.task = None
    /\ x.task # None /\ x.task.stage = "prepare" /\ Posts(m, n, k)
    /\ k.token = x.task.token /\ k.transition = x.task.transition
    /\ k.type \in {"LoadPrepared", "PrepareFailed"}

LEMMA TellingIsLive ==
  ASSUME NEW x, NEW y, NEW m, NEW n, NEW k, NEW c, NEW e, NEW v, Live(x, m, c, e, v),
         TellsOf(x, m, y, n, k)
  PROVE  Live(y, n, c, e, v)
<1>1. \A t : NotYet(y, n, t) => NotYet(x, m, t)
  BY DEF TellsOf, Posts, NotYet, Unsaid
<1>2. \A t : Answered(x, m, t) => Answered(y, n, t)
  BY DEF TellsOf, Posts, Answered
<1>3. \A t, r : Finished(n, t, r) <=> Finished(m, t, r)
  BY DEF TellsOf, Posts, Finished
<1>4. \A i \in DOMAIN n : n[i].type = "LoadFinished" => \E j \in DOMAIN m : m[j] = n[i]
  BY DEF TellsOf, Posts
<1>5. \A t : Deferred(y, n, c, e, t) => Deferred(x, m, c, e, t)
  <2>1. \A i \in DOMAIN n : n[i] = k \/ \E j \in DOMAIN m : m[j] = n[i]
    BY DEF TellsOf, Posts
  <2>2. y.task = None /\ x.task # None /\ k.token = x.task.token
        /\ k.transition = x.task.transition
    BY DEF TellsOf
  <2> QED
    BY <2>1, <2>2 DEF Deferred
<1>6. /\ y.pending = x.pending /\ y.intent = x.intent /\ y.nextToken = x.nextToken
      /\ y.raced = x.raced /\ y.task = None /\ x.task # None /\ x.task.stage # "reply"
      /\ (Past(y) <=> Past(x)) /\ (IsLoading(y) <=> IsLoading(x)) /\ ~Replies(y)
  BY DEF TellsOf, Past, IsLoading, Replies
<1>7. \A t : Done(n, t) => Done(m, t)
  BY <1>3 DEF Done
<1>8. Strange(y, n, c, e, v) /\ Orderly(y, n, e)
  BY <1>1, <1>4, <1>6 DEF Live, Strange, Orderly
<1>9. ASSUME ~x.raced PROVE Claims(y, n, c, e, v)
  <2>1. Claims(x, m, c, e, v)
    BY <1>9 DEF Live
  <2>2. CommittedClaim(y, n, c, e)
    BY <1>2, <1>6, <2>1 DEF Claims, CommittedClaim
  <2>3. PastClaim(y, n, c, e, v)
    BY <1>2, <1>6, <2>1 DEF Claims, PastClaim
  <2>4. LoadingClaim(y, n, c, e, v)
    BY <1>1, <1>2, <1>3, <1>6, <2>1 DEF Claims, LoadingClaim
  <2>5. LateClaim(y, n, c, e, v)
    BY <1>3, <1>5, <1>6, <1>7, <2>1 DEF Claims, LateClaim
  <2> QED
    BY <2>1, <2>2, <2>3, <2>4, <2>5 DEF Claims
<1> QED
  BY <1>6, <1>8, <1>9 DEF Live

LEMMA TaskIsLive == ASSUME Inv, LiveNow, TaskPrepares PROVE LiveNow'
<1>1. PICK type \in {"LoadPrepared", "PrepareFailed"} :
         mail' = Append(mail, [type |-> type, token |-> s.task.token,
                               transition |-> s.task.transition])
  BY DEF TaskPrepares
<1> DEFINE k == [type |-> type, token |-> s.task.token, transition |-> s.task.transition]
<1>2. /\ s.task # None /\ s.task.stage = "prepare" /\ s' = [s EXCEPT !.task = None]
      /\ UNCHANGED <<mode, sent, events, engine>>
  BY DEF TaskPrepares
<1>3. k.type = type /\ k.token = s.task.token /\ k.transition = s.task.transition
  OBVIOUS
<1> HIDE DEF k
<1>4. Posts(mail, mail', k)
  BY <1>1, InvGives, AppendPosts DEF k
<1>5. /\ s'.pending = s.pending /\ s'.intent = s.intent /\ s'.nextToken = s.nextToken
      /\ s'.raced = s.raced /\ s'.task = None
  BY <1>2, InvGives DEF Fields
<1>6. TellsOf(s, mail, s', mail', k)
  BY <1>2, <1>3, <1>4, <1>5 DEF TellsOf
<1>7. Live(s', mail', sent, engine, events)
  BY <1>6, TellingIsLive DEF LiveNow
<1> QED
  BY <1>2, <1>7, LiveCarries

\* Sessions that agree in what Live speaks of.
SameSession(x, y) == /\ y.pending = x.pending /\ y.intent = x.intent /\ y.task = x.task
                     /\ y.nextToken = x.nextToken /\ y.raced = x.raced

LEMMA SameIsLive ==
  ASSUME NEW x, NEW y, SameSession(x, y), NEW m, NEW c, NEW e, NEW v, Live(x, m, c, e, v)
  PROVE  Live(y, m, c, e, v)
<1>1. /\ y.pending = x.pending /\ y.intent = x.intent /\ y.task = x.task
      /\ y.nextToken = x.nextToken /\ y.raced = x.raced
  BY DEF SameSession
<1>2. /\ \A t : NotYet(y, m, t) => NotYet(x, m, t)
      /\ \A t : Answered(x, m, t) => Answered(y, m, t)
      /\ \A t : Deferred(y, m, c, e, t) => Deferred(x, m, c, e, t)
      /\ (Past(y) <=> Past(x)) /\ (IsLoading(y) <=> IsLoading(x)) /\ (Replies(y) <=> Replies(x))
  BY <1>1 DEF NotYet, Unsaid, Answered, Deferred, Past, IsLoading, Replies
<1>3. Strange(y, m, c, e, v) /\ Orderly(y, m, e)
  BY <1>1, <1>2 DEF Live, Strange, Orderly
<1>4. ASSUME ~x.raced PROVE Claims(y, m, c, e, v)
  <2>1. Claims(x, m, c, e, v)
    BY <1>4 DEF Live
  <2>2. CommittedClaim(y, m, c, e)
    BY <1>1, <1>2, <2>1 DEF Claims, CommittedClaim
  <2>3. PastClaim(y, m, c, e, v)
    BY <1>1, <1>2, <2>1 DEF Claims, PastClaim
  <2>4. LoadingClaim(y, m, c, e, v)
    BY <1>1, <1>2, <2>1 DEF Claims, LoadingClaim
  <2>5. LateClaim(y, m, c, e, v)
    BY <1>1, <1>2, <2>1 DEF Claims, LateClaim
  <2> QED
    BY <2>1, <2>2, <2>3, <2>4, <2>5 DEF Claims
<1> QED
  BY <1>1, <1>3, <1>4 DEF Live

\* What a handler sent is on its way.
LEMMA HandledIsLive ==
  ASSUME NEW x, Good(x, mail'), Handled(x), UNCHANGED <<mode, engine>>,
         Live(x, mail', To(x), engine, events')
  PROVE  LiveNow'
<1>1. s' = [x EXCEPT !.out = <<>>] /\ sent' = To(x)
  BY DEF Handled, To
<1>2. DOMAIN x = Fields
  BY DEF Good, Sane, Shaped
<1>3. /\ s'.pending = x.pending /\ s'.intent = x.intent /\ s'.nextToken = x.nextToken
      /\ s'.raced = x.raced /\ s'.task = x.task
  BY <1>1, <1>2 DEF Fields
<1>4. SameSession(x, s')
  BY <1>3 DEF SameSession
<1>5. Live(s', mail', To(x), engine, events')
  BY <1>4, SameIsLive
<1>6. Live(s', mail', sent', engine', events')
  BY <1>1, <1>5
<1> QED
  BY <1>6, LiveCarries

LEMMA FirmFills ==
  ASSUME NEW x, NEW m, NEW e, Firm(x), Orderly(x, m, e)
  PROVE  Filled(x)
<1> SUFFICES ASSUME x.pending # None, ~x.raced PROVE x.queue.items # <<>>
  BY DEF Filled
<1> DEFINE q == x.queue
           pos == x.pending.to
           place == IF q.shuffle THEN q.order[pos + 1] ELSE pos
<1>1. pos \in Nat /\ HasTrack(q, pos) /\ GoodQueue(q, Library)
  BY DEF Firm, Whole, Followed, Orderly
<1> HIDE DEF q, pos
<1>2. q.items \in Seq(Library) /\ q.order \in Seq(Nat)
  BY <1>1 DEF GoodQueue, QueueRecord
<1>3. place < Len(q.items) /\ (q.shuffle => pos < Len(q.order))
  BY <1>1 DEF HasTrack
<1>4. place \in Nat
  BY <1>1, <1>2, <1>3
<1> HIDE DEF place
<1>5. q.items # <<>>
  BY <1>2, <1>3, <1>4
<1> QED
  BY <1>5 DEF q

LEMMA SessionIsLive ==
  ASSUME Inv, FirmInv, LiveNow, Client \/ HandleOneMail \/ HandleOneEvent
  PROVE  LiveNow'
<1>1. /\ Good(s, mail) /\ Firm(s) /\ Filled(s) /\ To(s) = sent
      /\ events \in Seq(ToSet(events)) /\ mail \in Seq(ToSet(mail))
      /\ Live(s, mail, To(s), engine, events)
  <2>1. Firm(s) /\ Orderly(s, mail, engine)
    BY DEF FirmInv, LiveNow, Live
  <2>2. Filled(s)
    BY <2>1, FirmFills
  <2> QED
    BY <2>1, <2>2, InvGives DEF LiveNow
<1>2. CASE Client
  <2>1. PICK c \in IF Unhurried THEN Commands ELSE Hasty, near \in BOOLEAN :
           \E x \in Asked(s, c, near) : Handled(x)
    BY <1>2 DEF Client
  <2>2. PICK x \in Asked(s, c, near) : Handled(x)
    BY <2>1
  <2>3. c \in Requests \cup Edits /\ (c = "Play" => s.pending = None \/ "Play" \in Hasty)
    BY PlaybackBounds DEF Unhurried
  <2>4. Before(s, SessionToken(engine))
    BY DEF Inv, Good, Sane, Fresh, EngineTyped, SessionToken
  <2>5. Good(x, mail)
    BY <2>3, <2>4, AskedIsGood DEF Inv
  <2>6. mail' = mail /\ UNCHANGED <<mode, engine, events>>
    BY <1>2 DEF Client
  <2>7. Here(x, mail, events)
    BY <1>1, <2>2, <2>3, <2>4, AskedIsLive DEF Here
  <2> QED
    BY <2>2, <2>5, <2>6, <2>7, HandledIsLive DEF Here
<1>3. CASE HandleOneMail
  <2>1. PICK near \in BOOLEAN : Handled(HandleMail(s, Head(mail), near))
    BY <1>3 DEF HandleOneMail
  <2>2. mail # <<>> /\ mail' = Tail(mail) /\ UNCHANGED <<mode, engine, events>>
    BY <1>3 DEF HandleOneMail
  <2>3. Opened(s, Tail(mail), Head(mail))
    BY <1>1, <2>2, FirstMail
  <2>4. Good(HandleMail(s, Head(mail), near), Tail(mail))
    BY <2>2, <2>3, MailIsGood DEF Inv
  <2>5. Unpacked(s, mail, Tail(mail), Head(mail), events)
    BY <1>1, <2>2, <2>3, TailIsPopped DEF Unpacked
  <2>6. Here(HandleMail(s, Head(mail), near), Tail(mail), events)
    BY <1>1, <2>5, MailIsLive
  <2> QED
    BY <2>1, <2>2, <2>4, <2>6, HandledIsLive DEF Here
<1>4. CASE HandleOneEvent
  <2>1. PICK near \in BOOLEAN : Handled(HandleEvent(s, Head(events), near))
    BY <1>4 DEF HandleOneEvent
  <2>2. events # <<>> /\ events' = Tail(events) /\ mail' = mail /\ UNCHANGED <<mode, engine>>
    BY <1>4 DEF HandleOneEvent
  <2>3. Popped(events, Tail(events), Head(events))
    BY <1>1, <2>2, TailIsPopped
  <2>4. Sensible(Head(events))
    <3>1. \A i \in DOMAIN events : Sensible(events[i])
      BY DEF Inv, Heard
    <3> QED
      BY <2>3, <3>1 DEF Popped
  <2>5. Good(HandleEvent(s, Head(events), near), mail)
    BY <2>4, EventIsGood DEF Inv
  <2>6. Hears(s, events, Tail(events), Head(events))
    BY <1>1, <2>3 DEF Hears
  <2>7. Here(HandleEvent(s, Head(events), near), mail, Tail(events))
    BY <1>1, <2>4, <2>6, EventIsLive
  <2> QED
    BY <2>1, <2>2, <2>5, <2>7, HandledIsLive DEF Here
<1> QED
  BY <1>2, <1>3, <1>4

LEMMA BeginsLive == Init => LiveNow
<1> SUFFICES ASSUME Init PROVE LiveNow
  OBVIOUS
<1>1. /\ s.pending = None /\ s.task = None /\ s.intent = Stopped /\ s.raced = FALSE
      /\ mail = <<>> /\ sent = <<>> /\ events = <<>>
  BY DEF Init
<1>2. engine.fade = 0 /\ engine.next = 0 /\ engine.last = 0 /\ engine.pend = None
  BY DEF Init, NewEngine
<1>3. \A i \in DOMAIN <<>> : FALSE
  OBVIOUS
<1>4. s.intent.kind = "Stopped"
  BY <1>1 DEF Stopped
<1>5. Strange(s, mail, sent, engine, events) /\ Orderly(s, mail, engine)
  BY <1>1, <1>2, <1>3 DEF Strange, Orderly, Met, ToldIn, NotYet, Unsaid, LoadIn, Pends
<1>6. EndsStay(sent, engine, events) /\ SeekOrder(sent, engine)
  BY <1>1, <1>3 DEF EndsStay, SeekOrder, AimedFirst
<1>7. Claims(s, mail, sent, engine, events)
  BY <1>1, <1>4, <1>6 DEF Claims, CommittedClaim, PastClaim, LoadingClaim, LateClaim, Past, IsLoading
<1> QED
  BY <1>5, <1>7 DEF LiveNow, Live

\* Where the claims leave a session for which nothing is under way.
LEMMA LiveAgrees ==
  ASSUME Inv, LiveNow
  PROVE  CommittedIsLive
<1> SUFFICES ASSUME Settled, s.intent.kind = "Committed" PROVE Agreed(s.intent.token)
  BY DEF CommittedIsLive
<1>1. /\ mail = <<>> /\ sent = <<>> /\ events = <<>> /\ s.task = None /\ engine.pend = None
      /\ ~s.raced
  BY DEF Settled, Quiet
<1>2. Claims(s, mail, sent, engine, events) /\ Intended(s) /\ Shaped(s) /\ Typed(s)
  BY <1>1, InvGives DEF LiveNow, Live
<1>3. SessionToken(engine) = engine.last
  BY InvGives DEF EngineTyped, SessionToken
<1>4. \A t : ~SeekIn(sent, t) /\ ~SwitchIn(events, t)
  BY <1>1 DEF SeekIn, SwitchIn
<1>5. CASE s.pending = None
  <2>1. Rest(sent, engine, s.intent.token)
    BY <1>2, <1>5 DEF Claims, CommittedClaim
  <2> QED
    BY <1>3, <1>4, <1>5, <2>1 DEF Rest, Base, Agreed
<1>6. CASE s.pending # None
  <2>1. Past(s)
    BY <1>1, <1>2, <1>6 DEF Intended, Shaped, Past, Loading, Committed, Taken
  <2>2. s.intent.token = s.pending.token
    BY <1>1, <1>2, <1>6, <2>1 DEF Intended, Past, Committed, Stopped, Taken
  <2>3. CASE s.pending.stage = "Fading"
    BY <1>2, <1>3, <1>6, <2>1, <2>2, <2>3 DEF Claims, PastClaim, Fade, Agreed
  <2>4. CASE s.pending.stage = "Queued"
    <3>1. Lined(sent, engine, events, s.pending.token, s.pending.from)
      BY <1>2, <2>1, <2>4 DEF Claims, PastClaim
    <3>2. engine.last = s.pending.from
      BY <1>4, <3>1 DEF Lined
    <3> QED
      BY <1>3, <1>6, <2>4, <3>2 DEF Agreed
  <2> QED
    BY <1>2, <2>1, <2>3, <2>4 DEF Past, Shaped
<1> QED
  BY <1>5, <1>6

\* Every step keeps the claims.
LEMMA NextIsLive ==
  ASSUME Inv, FirmInv, LiveNow, [Next]_vars
  PROVE  LiveNow'
<1>1. CASE Next
  BY <1>1, SessionIsLive, TaskIsLive, EngineIsLive DEF Next
<1>2. CASE UNCHANGED vars
  <2>1. UNCHANGED <<s, mode, mail, sent, events, engine>>
    BY <1>2 DEF vars
  <2>2. Live(s', mail', sent', engine', events')
    BY <2>1 DEF LiveNow
  <2> QED
    BY <2>1, <2>2, LiveCarries
<1> QED
  BY <1>1, <1>2

\* The session the daemon is committed to is the one the engine plays, once
\* nothing is under way: whatever was cancelled, superseded, seeked back, ended
\* early or failed on the way, unless two moves crossed.
THEOREM CommittedStaysLive == Spec => []CommittedIsLive
<1>1. Inv /\ FirmInv /\ LiveNow /\ [Next]_vars => LiveNow'
  BY NextIsLive
<1>2. Inv /\ LiveNow => CommittedIsLive
  BY LiveAgrees
<1> QED
  BY BeginsLive, InvHolds, FirmHolds, <1>1, <1>2, PTL DEF Spec

-----------------------------------------------------------------------------
(* The pointer of the queue: it is on the track of the session intended, or  *)
(* of the one a transition leaves.                                           *)

\* Bound: a session that was given more loads than MaxToken is not looked at.
Counts(x) == x.nextToken <= MaxToken + 1 /\ ~x.raced
\* The pointer of q is on track k.
Heads(q, k) == HasTrack(q, q.current) /\ TrackAt(q, q.current) = k
Points(x) ==
    Counts(x) =>
       /\ DOMAIN x.trackOf = 1 .. MaxToken + 1
       /\ x.pending # None => /\ x.trackOf[x.pending.token] = x.pending.key
                              /\ Heads(x.queue, x.trackOf[x.pending.from])
       /\ x.pending = None /\ x.intent.kind # "Stopped" =>
             Heads(x.queue, x.trackOf[x.intent.token])

\* The loads of y are those of x.
SameLoads(x, y) == /\ DOMAIN y = Fields /\ y.trackOf = x.trackOf
                   /\ y.nextToken = x.nextToken /\ (x.raced => y.raced)
\* y intends nothing, or what x does, or what x did before its transition.
FallsBack(x, y) ==
    /\ y.pending = None
    /\ \/ y.intent.kind = "Stopped"
       \/ x.pending # None /\ y.intent.token = x.pending.from
       \/ x.pending = None /\ x.intent.kind # "Stopped" /\ y.intent.token = x.intent.token
\* y is in the transition of x.
StaysIn(x, y) ==
    /\ x.pending # None /\ y.pending # None /\ y.pending.token = x.pending.token
    /\ y.pending.key = x.pending.key /\ y.pending.from = x.pending.from
Stands(q, r) == StillThere(q, q.current, r, r.current)

LEMMA RestsPoint ==
  ASSUME NEW x, NEW y, Points(x), SameLoads(x, y), FallsBack(x, y) \/ StaysIn(x, y),
         Stands(x.queue, y.queue)
  PROVE  Points(y)
<1> SUFFICES ASSUME Counts(y) PROVE Points(y)
  BY DEF Points
<1>1. Counts(x) /\ y.trackOf = x.trackOf
  BY DEF Counts, SameLoads
<1>2. \A k : Heads(x.queue, k) => Heads(y.queue, k)
  BY DEF Heads, Stands, StillThere
<1>3. CASE FallsBack(x, y)
  BY <1>1, <1>2, <1>3 DEF Points, FallsBack
<1>4. CASE StaysIn(x, y)
  BY <1>1, <1>2, <1>4 DEF Points, StaysIn
<1> QED
  BY <1>3, <1>4

LEMMA RacedPoints ==
  ASSUME NEW x, NEW y, SameLoads(x, y), x.raced
  PROVE  Points(y)
BY DEF Points, Counts, SameLoads

\* A session that did not race has a transition that no command left alone.
Untouched(x) == x.pending # None => x.raced \/ x.pending.amid = {}

\* A step that leaves the queue, the intent and the transition alone.
Same(x, y) == /\ SameLoads(x, y) /\ y.queue = x.queue
              /\ y.intent = x.intent /\ y.pending = x.pending
LEMMA SamePoints ==
  ASSUME NEW x, NEW y, Points(x), Same(x, y)
  PROVE  Points(y)
<1>1. FallsBack(x, y) \/ StaysIn(x, y)
  BY DEF Same, FallsBack, StaysIn
<1>2. Stands(x.queue, y.queue)
  BY DEF Same, Stands, StillThere
<1> QED
  BY <1>1, <1>2, RestsPoint DEF Same

LEMMA SendSame ==
  ASSUME NEW x, DOMAIN x = Fields, NEW op
  PROVE  Same(x, Send(x, op))
  BY DEF Same, SameLoads, Send, Fields

LEMMA CancelSame ==
  ASSUME NEW x, DOMAIN x = Fields
  PROVE  Same(x, CancelLoadTask(x))
<1> DEFINE idle == [x EXCEPT !.task = None]
<1>1. DOMAIN idle = Fields /\ Same(x, idle)
  BY DEF Same, SameLoads, Fields
<1> HIDE DEF idle
<1>2. Same(idle, Send(idle, "Cancel"))
  BY <1>1, SendSame
<1> QED
  BY <1>1, <1>2 DEF CancelLoadTask, idle, Same, SameLoads

LEMMA QuitsSame ==
  ASSUME NEW x, DOMAIN x = Fields, NEW op
  PROVE  Same(x, Send(CancelLoadTask(x), op))
<1> DEFINE c == CancelLoadTask(x)
<1>1. Same(x, c)
  BY CancelSame
<1> HIDE DEF c
<1>2. Same(c, Send(c, op))
  BY <1>1, SendSame DEF Same, SameLoads
<1> QED
  BY <1>1, <1>2 DEF c, Same, SameLoads

LEMMA RevertSame ==
  ASSUME NEW x, DOMAIN x = Fields
  PROVE  LET y == RevertTransition(x)
         IN  /\ SameLoads(x, y) /\ y.queue = x.queue /\ y.pending = None
             /\ x.pending = None => y = x
             /\ x.pending # None => y.intent = Committed(x.pending.from)
<1> DEFINE y == RevertTransition(x)
<1>1. CASE x.pending = None
  BY <1>1 DEF RevertTransition, SameLoads
<1>2. CASE x.pending # None
  <2> DEFINE base == IF x.pending.stage # "Fading" THEN CancelLoadTask(x) ELSE x
             race == base.raced \/ (x.pending.stage # "Fading" /\ ~Unsent(x))
  <2>1. Same(x, base)
    BY CancelSame DEF Same, SameLoads
  <2>2. y = [base EXCEPT !.pending = None, !.armed = 0, !.intent = Committed(x.pending.from),
                         !.raced = race]
    BY <1>2 DEF RevertTransition
  <2>3. base.raced => race
    OBVIOUS
  <2> HIDE DEF base, race
  <2> HIDE DEF y
  <2>4. /\ DOMAIN y = Fields /\ y.trackOf = base.trackOf /\ y.nextToken = base.nextToken
        /\ y.queue = base.queue /\ y.pending = None /\ y.intent = Committed(x.pending.from)
        /\ y.raced = race
    BY <2>1, <2>2 DEF Same, SameLoads, Fields
  <2> QED
    BY <1>2, <2>1, <2>3, <2>4 DEF Same, SameLoads, y
<1> QED
  BY <1>1, <1>2

LEMMA RevertPoints ==
  ASSUME NEW x, DOMAIN x = Fields, Points(x)
  PROVE  Points(RevertTransition(x))
<1> DEFINE y == RevertTransition(x)
<1>1. /\ SameLoads(x, y) /\ y.queue = x.queue /\ y.pending = None
      /\ x.pending = None => y = x
      /\ x.pending # None => y.intent = Committed(x.pending.from)
  BY RevertSame
<1> HIDE DEF y
<1>2. Stands(x.queue, y.queue)
  BY <1>1 DEF Stands, StillThere
<1>3. x.pending # None => FallsBack(x, y)
  BY <1>1 DEF FallsBack, Committed
<1> QED
  BY <1>1, <1>2, <1>3, RestsPoint DEF y

\* It gives up what it intends, wherever the pointer is.
LEMMA StoppedPoints ==
  ASSUME NEW x, NEW y, Points(x), SameLoads(x, y), y.pending = None, y.intent = Stopped
  PROVE  Points(y)
  BY DEF Points, Counts, SameLoads, Stopped

LEMMA RefusePoints ==
  ASSUME NEW w, Points(w), NEW x, SameLoads(w, x)
  PROVE  Points(RefuseLoad(x))
<1> DEFINE quit == Send(CancelLoadTask(x), "Stop")
           y == [quit EXCEPT !.pending = None, !.intent = Stopped, !.phase = "Idle"]
<1>1. Same(x, quit)
  BY QuitsSame DEF SameLoads
<1>2. RefuseLoad(x) = y
  BY DEF RefuseLoad
<1> HIDE DEF quit
<1>3. SameLoads(w, y) /\ y.pending = None /\ y.intent = Stopped
  BY <1>1 DEF Same, SameLoads, Fields
<1> HIDE DEF y
<1> QED
  BY <1>2, <1>3, StoppedPoints

\* A load of a track that the pointer is on, or a load in the background, from
\* what is intended.
LEMMA StartPoints ==
  ASSUME NEW w, Points(w), NEW x, SameLoads(w, x), x.nextToken \in Nat, 0 < x.nextToken,
         NEW idx, NEW transition,
         transition = "immediate" => HasTrack(x.queue, idx) /\ x.queue.current = idx,
         transition # "immediate" => /\ Points(x) /\ x.pending = None /\ ~IsLoading(x)
                                     /\ \/ x.raced
                                        \/ /\ x.intent.kind # "Stopped"
                                           /\ Given(x, x.intent.token)
                                     /\ idx \in Nat /\ TrackAt(x.queue, idx) \in Library
  PROVE  Points(StartLoad(x, idx, transition))
<1> DEFINE y == StartLoad(x, idx, transition)
           t == x.nextToken
           track == TrackAt(x.queue, idx)
           stopped == Send(CancelLoadTask(x), "Stop")
           quieted == IF transition = "immediate" /\ TrackAt(x.queue, idx) \in Remote
                      THEN [stopped EXCEPT !.phase = "Idle"]
                      ELSE CancelLoadTask(x)
           pending == IF transition = "immediate" THEN None
                      ELSE [to |-> idx, key |-> track, token |-> t,
                            from |-> x.intent.token, stage |-> "Loading",
                            gapless |-> transition = "gapless", amid |-> {}]
           task == [token |-> t, stage |-> "prepare", transition |-> transition]
           intent == Loading(t, transition # "immediate", x.intent.token)
           tracks == [x.trackOf EXCEPT ![t] = track]
<1>0. DOMAIN x = Fields /\ MaxToken \in Nat
  BY PlaybackBounds DEF SameLoads
<1>1. SameLoads(x, quieted) /\ quieted.queue = x.queue
  <2>1. Same(x, stopped) /\ Same(x, CancelLoadTask(x))
    BY <1>0, QuitsSame, CancelSame
  <2> HIDE DEF stopped
  <2>2. Same(x, [stopped EXCEPT !.phase = "Idle"])
    BY <2>1 DEF Same, SameLoads, Fields
  <2> QED
    BY <2>1, <2>2 DEF Same
<1> HIDE DEF quieted
<1>2. y = [quieted EXCEPT !.pending = pending, !.intent = intent, !.nextToken = t + 1,
                          !.task = task, !.trackOf[t] = track]
  BY DEF StartLoad, quieted
<1> HIDE DEF y, pending, task, intent
<1>3. /\ y.pending = pending /\ y.intent = intent /\ y.nextToken = t + 1
      /\ y.trackOf = tracks /\ y.queue = x.queue /\ y.raced = quieted.raced
  BY <1>1, <1>2 DEF SameLoads, Fields
<1> SUFFICES ASSUME Counts(y) PROVE Points(y)
  BY DEF Points, y
<1>4. t + 1 <= MaxToken + 1 /\ ~x.raced /\ ~w.raced /\ w.nextToken = t
  BY <1>1, <1>3 DEF Counts, SameLoads
<1>5. t \in 1 .. MaxToken + 1 /\ t <= MaxToken + 1
  BY <1>0, <1>4
<1>6. Counts(w) /\ Counts(x)
  BY <1>4, <1>5 DEF Counts
<1>7. DOMAIN x.trackOf = 1 .. MaxToken + 1
  BY <1>6 DEF Points, SameLoads
<1>8. /\ DOMAIN tracks = 1 .. MaxToken + 1 /\ tracks[t] = track
      /\ \A u : u # t /\ u \in 1 .. MaxToken + 1 => tracks[u] = x.trackOf[u]
  BY <1>5, <1>7
<1> HIDE DEF tracks
<1>9. CASE transition = "immediate"
  <2>1. pending = None /\ intent.token = t
    BY <1>9 DEF pending, intent, Loading
  <2>2. Heads(y.queue, track)
    BY <1>3, <1>9 DEF Heads
  <2> QED
    BY <1>3, <1>8, <2>1, <2>2 DEF Points
<1>10. CASE transition # "immediate"
  <2> DEFINE from == x.intent.token
  <2>1. pending.token = t /\ pending.key = track /\ pending.from = from
    BY <1>10 DEF pending
  <2>2. from # t /\ from \in 1 .. MaxToken + 1
    BY <1>0, <1>4, <1>5, <1>10 DEF Given
  <2>3. Heads(x.queue, x.trackOf[from])
    BY <1>4, <1>6, <1>10 DEF Points
  <2>4. pending = None => intent.token = t
    BY DEF intent, Loading
  <2>5. pending # None
    <3> DEFINE g == transition = "gapless"
               p == [to |-> idx, key |-> track, token |-> t, from |-> from,
                     stage |-> "Loading", gapless |-> g, amid |-> {}]
    <3>1. pending = p
      BY <1>10 DEF pending
    <3>2. /\ track \in ToSet(Tracks) \cup {NewTrack} /\ idx \in Nat /\ t \in Nat
          /\ from \in Nat /\ g \in BOOLEAN
      BY <1>4, <1>10 DEF Library, Given
    <3> HIDE DEF g, track
    <3>3. p # None
      BY <3>2, NoneIsNothing
    <3> QED
      BY <3>1, <3>3
  <2> QED
    BY <1>3, <1>8, <2>1, <2>2, <2>3, <2>5 DEF Points
<1> QED
  BY <1>9, <1>10

LEMMA GoodGives ==
  ASSUME NEW x, NEW m, Good(x, m)
  PROVE  /\ DOMAIN x = Fields /\ x.nextToken \in Nat /\ 0 < x.nextToken
         /\ Intended(x) /\ Typed(x) /\ Shaped(x)
         /\ x.raced \/ (x.intent.kind = "Stopped" <=> x.intent.token = 0)
<1>1. x.raced \/ (x.intent.kind = "Stopped" <=> x.intent.token = 0)
  BY DEF Good, Sane, Typed, Stopped, Committed, Loading, Given, Session, Taken
<1> QED
  BY <1>1 DEF Good, Sane, Shaped, OnePlace

LEMMA ImmediatePoints ==
  ASSUME NEW x, NEW m, Good(x, m), Points(x), NEW queue, NEW idx, queue.current = idx
  PROVE  Points(StartImmediateLoad(x, queue, idx))
<1> DEFINE moved == [x EXCEPT !.queue = queue]
<1>1. SameLoads(x, moved) /\ moved.queue = queue /\ moved.nextToken = x.nextToken
  BY GoodGives DEF SameLoads, Fields
<1>2. StartImmediateLoad(x, queue, idx) =
         IF Playable(moved, idx) THEN StartLoad(moved, idx, "immediate")
         ELSE IF HasTrack(queue, idx) THEN RefuseLoad(x) ELSE x
  BY DEF StartImmediateLoad
<1> HIDE DEF moved
<1>3. Playable(moved, idx) => Points(StartLoad(moved, idx, "immediate"))
  BY <1>1, GoodGives, StartPoints DEF Playable
<1>4. Points(RefuseLoad(x))
  BY GoodGives, RefusePoints DEF SameLoads
<1> QED
  BY <1>2, <1>3, <1>4

LEMMA ArmPoints ==
  ASSUME NEW x, NEW m, Good(x, m), Points(x), GoodQueue(x.queue, Library),
         x.pending = None, ~IsLoading(x), x.intent.token # 0 \/ x.raced
  PROVE  Points(ArmTransition(x))
<1> DEFINE tr == IF ShouldCrossfade(x) THEN "crossfade" ELSE "gapless"
           idx == NextPosition(x)
<1>1. CASE idx = Nowhere \/ ~Playable(x, idx)
  BY <1>1 DEF ArmTransition
<1>2. CASE ~(idx = Nowhere \/ ~Playable(x, idx))
  <2>1. idx \in Nat /\ HasTrack(x.queue, idx)
    BY <1>2, NextPositionIs
  <2>2. TrackAt(x.queue, idx) \in Library
    BY <2>1, TrackIsListed
  <2>3. tr # "immediate"
    OBVIOUS
  <2>4. ArmTransition(x) = StartLoad(x, idx, tr)
    BY <1>2 DEF ArmTransition
  <2> HIDE DEF tr, idx
  <2>5. /\ SameLoads(x, x) /\ x.nextToken \in Nat /\ 0 < x.nextToken
        /\ x.raced \/ (x.intent.kind # "Stopped" /\ Given(x, x.intent.token))
    BY GoodGives DEF SameLoads, Typed, Stopped, Session, Taken
  <2> QED
    BY <2>1, <2>2, <2>3, <2>4, <2>5, StartPoints
<1> QED
  BY <1>1, <1>2

LEMMA ArmNowPoints ==
  ASSUME NEW x, NEW m, Good(x, m), Points(x), GoodQueue(x.queue, Library), NEW near,
         mode = "gapless" /\ x.phase = "Playing" => x.intent.token # 0 \/ x.raced
  PROVE  Points(ArmGaplessNow(x, near))
  BY ArmPoints DEF ArmGaplessNow, ShouldPlayGapless, ShouldArm

LEMMA RearmPoints ==
  ASSUME NEW x, NEW m, Good(x, m), Points(x), Whole(x), NEW near
  PROVE  Points(RearmGapless(x, near))
<1> DEFINE y == RevertTransition(x)
<1>1. CASE x.pending = None \/ ~x.pending.gapless
  BY <1>1 DEF RearmGapless
<1>2. CASE x.pending # None /\ x.pending.gapless
  <2>1. Points(y)
    BY GoodGives, RevertPoints
  <2>2. Good(y, m) /\ y.pending = None /\ (y.intent.token # 0 \/ y.raced)
    BY <1>2, RevertIsGood DEF Taken
  <2>3. GoodQueue(y.queue, Library)
    BY RevertKeeps DEF Whole, Keeps
  <2> HIDE DEF y
  <2>4. ShouldArm(y, near) => Points(ArmTransition(y))
    BY <2>1, <2>2, <2>3, ArmPoints DEF ShouldArm
  <2> QED
    BY <2>1, <2>4 DEF RearmGapless, y
<1> QED
  BY <1>1, <1>2

\* The pointer moves to the armed position: its track is the one that is loaded.
LEMMA CommitHeads ==
  ASSUME NEW x, Whole(x), Followed(x), x.pending # None
  PROVE  /\ SameLoads(x, CommitModel(x)) /\ SameLoads(x, CommitTransition(x))
         /\ "Insert" \notin x.pending.amid => /\ Heads(CommitModel(x).queue, x.pending.key)
                                             /\ Heads(CommitTransition(x).queue, x.pending.key)
<1> DEFINE q == x.queue
           to == x.pending.to
           moved == [PushHistory(q) EXCEPT !.current = to]
           r == IF to < QueueLen(q) THEN moved ELSE q
           y == CommitModel(x)
           z == CommitTransition(x)
<1>1. y = [x EXCEPT !.pending = None, !.queue = r]
  BY DEF CommitModel, Whole, Fields
<1>2. ASSUME "Insert" \notin x.pending.amid PROVE Heads(r, x.pending.key)
  <2>1. GoodQueue(q, Library) /\ to \in Nat /\ HasTrack(q, to) /\ TrackAt(q, to) = x.pending.key
    BY <1>2 DEF Whole, Followed
  <2>2. to < QueueLen(q)
    BY <2>1, SoundQueue DEF GoodQueue
  <2>3. /\ PushHistory(q) \in QueueRecord(Library) /\ SameTracks(PushHistory(q), q)
    BY <2>1, PushHistoryIs DEF GoodQueue
  <2> HIDE DEF q, to
  <2>4. SameTracks(moved, q) /\ moved.current = to
    BY <2>3 DEF QueueRecord, SameTracks
  <2> HIDE DEF moved
  <2>5. Heads(moved, x.pending.key)
    BY <2>1, <2>4 DEF Heads, SameTracks, HasTrack, TrackAt, PhysicalIndexOf
  <2> QED
    BY <2>2, <2>5
<1> HIDE DEF y, r
<1>3. SameLoads(x, y) /\ y.queue = r
  BY <1>1 DEF Whole, SameLoads, Fields
<1>4. SameLoads(x, z) /\ z.queue = r
  BY <1>3 DEF Whole, SameLoads, Fields, CommitTransition, y
<1> QED
  BY <1>2, <1>3, <1>4 DEF y

LEMMA CommitPoints ==
  ASSUME NEW x, Points(x), x.pending # None, NEW y, SameLoads(x, y), y.pending = None,
         x.raced \/ Heads(y.queue, x.pending.key),
         x.raced \/ y.intent.kind = "Stopped" \/ y.intent.token = x.pending.token
  PROVE  Points(y)
  BY DEF Points, Counts, SameLoads

LEMMA PlayNextPoints ==
  ASSUME NEW x, NEW m, Good(x, m), Points(x), Whole(x)
  PROVE  Points(PlayNext(x))
<1> DEFINE y == RevertTransition(x)
           q == y.queue
           idx == NextPosition(y)
           advanced == [PushHistory(q) EXCEPT !.current = idx]
           quit == Send(CancelLoadTask(y), "Pause")
           z == [quit EXCEPT !.pending = None, !.intent = Stopped,
                             !.phase = IF @ = "Ended" THEN @ ELSE "Paused"]
<1>1. Good(y, m) /\ Points(y) /\ GoodQueue(q, Library)
  BY RevertIsGood, RevertPoints, RevertKeeps DEF Whole, Keeps
<1> HIDE DEF y
<1>2. advanced.current = idx
  <2>1. PushHistory(q) \in QueueRecord(Library)
    BY <1>1, PushHistoryIs DEF GoodQueue
  <2> HIDE DEF q, idx
  <2> QED
    BY <2>1 DEF QueueRecord
<1> HIDE DEF advanced
<1>3. Points(StartImmediateLoad(y, advanced, idx))
  BY <1>1, <1>2, ImmediatePoints
<1>4. Points(z)
  <2>1. Same(y, quit)
    BY <1>1, GoodGives, QuitsSame
  <2> HIDE DEF quit
  <2>2. SameLoads(y, z) /\ z.pending = None /\ z.intent = Stopped
    BY <2>1 DEF Same, SameLoads, Fields
  <2> HIDE DEF z
  <2> QED
    BY <1>1, <2>2, StoppedPoints
<1>5. PlayNext(x) = IF q.items = <<>> THEN y
                    ELSE IF idx # Nowhere THEN StartImmediateLoad(y, advanced, idx) ELSE z
  BY DEF PlayNext, y, advanced
<1> QED
  BY <1>1, <1>3, <1>4, <1>5

\* A load in the background that fails has a transition to fall back from.
LEMMA FailPoints ==
  ASSUME NEW x, NEW m, Sane(x, m), Points(x), NEW t,
         ~x.raced /\ x.intent.token = t /\ IsLoading(x) /\ x.intent.deferred => x.pending # None
  PROVE  Points(FailLoad(x, t))
<1> DEFINE armed == IF x.pending # None /\ x.pending.gapless THEN x.intent.from ELSE 0
           y == [x EXCEPT !.armed = armed, !.pending = None, !.intent = Committed(x.intent.from)]
           base == IF x.phase = "Ended" THEN Send(x, "Pause") ELSE x
           z == [base EXCEPT !.intent = Stopped]
<1>0. DOMAIN x = Fields
  BY DEF Sane, Shaped
<1>1. CASE x.intent.token # t
  BY <1>1 DEF FailLoad
<1>2. CASE x.intent.token = t /\ IsLoading(x) /\ x.intent.deferred
  <2>1. SameLoads(x, y) /\ y.queue = x.queue /\ y.pending = None
        /\ y.intent = Committed(x.intent.from) /\ y.raced = x.raced
    BY <1>0 DEF SameLoads, Fields
  <2>2. FailLoad(x, t) = y
    BY <1>2 DEF FailLoad
  <2> HIDE DEF y
  <2>3. CASE x.raced
    BY <2>1, <2>2, <2>3 DEF Points, Counts
  <2>4. CASE ~x.raced
    <3>1. x.pending # None
      BY <1>2, <2>4
    <3>2. x.intent = Loading(x.pending.token, TRUE, x.pending.from)
      <4>1. /\ Committed(x.pending.token).kind # "Loading" /\ Stopped.kind # "Loading"
        BY DEF Committed, Stopped
      <4> QED
        BY <1>2, <2>4, <3>1, <4>1 DEF Sane, Intended, IsLoading, Taken
    <3>3. FallsBack(x, y)
      BY <2>1, <3>1, <3>2 DEF FallsBack, Committed, Loading
    <3>4. Stands(x.queue, y.queue)
      BY <2>1 DEF Stands, StillThere
    <3> QED
      BY <2>1, <2>2, <3>3, <3>4, RestsPoint
  <2> QED
    BY <2>3, <2>4
<1>3. CASE x.intent.token = t /\ ~(IsLoading(x) /\ x.intent.deferred)
  <2>1. Same(x, base)
    BY <1>0, SendSame DEF Same, SameLoads
  <2>2. FailLoad(x, t) = z
    BY <1>3 DEF FailLoad
  <2> HIDE DEF base
  <2>3. SameLoads(x, z) /\ z.queue = x.queue /\ z.pending = x.pending /\ z.intent = Stopped
    BY <2>1 DEF Same, SameLoads, Fields
  <2> HIDE DEF z
  <2>4. FallsBack(x, z) \/ StaysIn(x, z)
    BY <2>3 DEF FallsBack, StaysIn, Stopped
  <2>5. Stands(x.queue, z.queue)
    BY <2>3 DEF Stands, StillThere
  <2> QED
    BY <2>2, <2>3, <2>4, <2>5, RestsPoint
<1> QED
  BY <1>1, <1>2, <1>3

LEMMA SeekPoints ==
  ASSUME NEW x, DOMAIN x = Fields, Points(x)
  PROVE  Points(Seek(x))
<1> DEFINE y == RevertTransition(x)
           k == [op |-> "Seek", token |-> IF x.pending = None THEN 0 ELSE x.pending.from]
<1>1. Points(y) /\ DOMAIN y = Fields
  BY RevertPoints, RevertSame DEF SameLoads
<1>2. Seek(x) = [[y EXCEPT !.out = Append(@, k)] EXCEPT !.armed = 0]
  BY DEF Seek, SendSeek
<1> HIDE DEF y, k
<1>3. Same(y, Seek(x))
  BY <1>1, <1>2 DEF Same, SameLoads, Fields
<1> QED
  BY <1>1, <1>3, SamePoints

LEMMA PreviousPoints ==
  ASSUME NEW x, NEW m, Good(x, m), Points(x), Whole(x), NEW rewind
  PROVE  Points(PlayPrevious(x, rewind))
<1> DEFINE y == RevertTransition(x)
           q == y.queue
           back == PreviousTarget(q)
           moved == [q EXCEPT !.current = back, !.history = IF @ = <<>> THEN @ ELSE Front(@)]
<1>1. Good(y, m) /\ Points(y) /\ GoodQueue(q, Library) /\ DOMAIN y = Fields
  BY GoodGives, RevertIsGood, RevertPoints, RevertKeeps DEF Whole, Keeps
<1> HIDE DEF y
<1>2. moved.current = back
  BY <1>1 DEF GoodQueue, QueueRecord
<1>3. Points(StartImmediateLoad(y, moved, back)) /\ Points(StartImmediateLoad(y, q, q.current))
  <2> HIDE DEF moved
  <2> QED
    BY <1>1, <1>2, ImmediatePoints
<1>4. Points(Seek(y))
  BY <1>1, SeekPoints
<1> HIDE DEF q, back, moved
<1> QED
  BY <1>1, <1>3, <1>4 DEF PlayPrevious, y, q, back, moved

LEMMA PausePoints ==
  ASSUME NEW x, DOMAIN x = Fields, Points(x)
  PROVE  Points(Pause(x))
<1> DEFINE queued == x.pending # None /\ x.pending.stage = "Queued"
           cancelled == CancelLoadTask(x)
           quit == [cancelled EXCEPT !.intent = Stopped]
           y == IF ~IsLoading(x) /\ ~queued THEN x
                ELSE IF x.pending # None THEN RevertTransition(x) ELSE quit
           told == Send(y, "Pause")
<1>1. Points(y) /\ DOMAIN y = Fields
  <2>1. Same(x, cancelled)
    BY CancelSame
  <2> HIDE DEF cancelled
  <2>2. SameLoads(x, quit) /\ quit.pending = x.pending /\ quit.intent = Stopped
    BY <2>1 DEF Same, SameLoads, Fields
  <2> HIDE DEF quit
  <2>3. x.pending = None => Points(quit)
    BY <2>2, StoppedPoints
  <2>4. Points(RevertTransition(x)) /\ DOMAIN RevertTransition(x) = Fields
    BY RevertPoints, RevertSame DEF SameLoads
  <2> QED
    BY <2>2, <2>3, <2>4 DEF SameLoads
<1> HIDE DEF y
<1>2. Same(y, told)
  BY <1>1, SendSame
<1>3. Pause(x) = [told EXCEPT !.phase = IF @ = "Ended" THEN @ ELSE "Paused"]
  BY DEF Pause, y
<1> HIDE DEF told
<1>4. Same(y, Pause(x))
  BY <1>2, <1>3 DEF Same, SameLoads, Fields
<1> QED
  BY <1>1, <1>4, SamePoints

\* What is resumed is what was intended, or the session raced.
LEMMA ResumePoints ==
  ASSUME NEW x, NEW m, Good(x, m), Points(x)
  PROVE  Points(Resume(x))
<1> DEFINE t == SessionToken(engine)
           idx == x.queue.current
           told == Send(x, "Resume")
           z == TakeUp(told, t)
           y == [z EXCEPT !.phase = "Playing"]
<1>1. Same(x, told)
  BY GoodGives, SendSame DEF Same, SameLoads
<1>2. Resume(x) = IF ~CanResume(engine)
                  THEN IF Playable(x, idx) THEN StartLoad(x, idx, "immediate")
                       ELSE IF HasTrack(x.queue, idx) THEN RefuseLoad(x) ELSE x
                  ELSE y
  BY DEF Resume
<1> HIDE DEF told
<1>3. Points(y)
  <2>1. CASE t = 0 \/ Committed(t) = told.intent
    <3>1. z = told
      BY <2>1 DEF TakeUp
    <3>2. Same(x, y)
      BY <1>1, <3>1 DEF Same, SameLoads, Fields
    <3> QED
      BY <3>2, SamePoints
  <2>2. CASE ~(t = 0 \/ Committed(t) = told.intent)
    <3> DEFINE forsaken == IF told.pending = None THEN told.forsaken
                           ELSE told.forsaken \cup {told.pending.token}
               pending == IF told.pending = None THEN None
                          ELSE [told.pending EXCEPT !.amid = @ \cup {"Play"}]
    <3>1. z = [told EXCEPT !.intent = Committed(t), !.raced = TRUE, !.forsaken = forsaken,
                           !.pending = pending]
      BY <1>1, <2>2 DEF TakeUp, Same, SameLoads, Fields
    <3> HIDE DEF forsaken, pending, z
    <3>2. DOMAIN z = Fields /\ z.raced
      BY <1>1, <3>1 DEF Same, SameLoads, Fields
    <3>3. y.raced
      BY <3>2 DEF Fields
    <3> QED
      BY <3>3 DEF Points, Counts
  <2> QED
    BY <2>1, <2>2
<1>4. SameLoads(x, x) /\ x.nextToken \in Nat /\ 0 < x.nextToken
  BY GoodGives DEF SameLoads
<1>5. Playable(x, idx) => Points(StartLoad(x, idx, "immediate"))
  BY <1>4, StartPoints DEF Playable
<1>6. Points(RefuseLoad(x))
  BY <1>4, RefusePoints
<1> QED
  BY <1>2, <1>3, <1>5, <1>6

LEMMA StopPoints ==
  ASSUME NEW w, Points(w), NEW x, SameLoads(w, x)
  PROVE  Points(Stop(x))
<1> DEFINE quit == Send(CancelLoadTask(x), "Stop")
<1>1. Same(x, quit)
  BY QuitsSame DEF SameLoads
<1>2. Stop(x) = [quit EXCEPT !.pending = None, !.armed = 0, !.intent = Stopped, !.phase = "Idle"]
  BY DEF Stop
<1> HIDE DEF quit
<1>3. SameLoads(w, Stop(x)) /\ Stop(x).pending = None /\ Stop(x).intent = Stopped
  BY <1>1, <1>2 DEF Same, SameLoads, Fields
<1> QED
  BY <1>3, StoppedPoints

\* An edit leaves the pointer on its track.
LEMMA StandsBy ==
  ASSUME NEW q, GoodQueue(q, Library), NEW r, GoodQueue(r, Library),
         q.items # <<>> => r.items # <<>> /\ CurrentTrack(r) = CurrentTrack(q)
  PROVE  Stands(q, r)
<1>1. /\ \A p \in Nat : HasTrack(q, p) <=> p < Len(q.items)
      /\ \A p \in Nat : HasTrack(r, p) <=> p < Len(r.items)
      /\ q.current \in Nat /\ r.current \in Nat
      /\ q.items \in Seq(Library) /\ r.items \in Seq(Library)
  BY SoundQueue DEF GoodQueue, QueueRecord
<1> SUFFICES ASSUME HasTrack(q, q.current)
             PROVE  HasTrack(r, r.current) /\ TrackAt(r, r.current) = TrackAt(q, q.current)
  BY DEF Stands, StillThere
<1>2. q.items # <<>>
  BY <1>1
<1>3. HasTrack(r, r.current)
  BY <1>1, <1>2 DEF GoodQueue, Pointing
<1> QED
  BY <1>2, <1>3 DEF CurrentTrack, TrackOrGone

LEMMA InsertStands ==
  ASSUME NEW q, GoodQueue(q, Library)
  PROVE  /\ Stands(q, InsertNext(q, <<NewTrack>>)) /\ Stands(q, Add(q, <<NewTrack>>))
         /\ \A i \in Nat : Stands(q, InsertAtReady(q, i, <<NewTrack>>))
<1> DEFINE t == <<NewTrack>>
           n == Len(q.items)
           next == IF q.current + 1 < n THEN q.current + 1 ELSE n
<1>1. t \in Seq(Library) /\ Len(t) = 1 /\ t # <<>>
  BY DEF Library
<1> HIDE DEF t
<1>2. n \in Nat /\ q.current \in Nat /\ q.items \in Seq(Library)
      /\ IF q.items = <<>> THEN q.current = 0 /\ n = 0 ELSE q.current < n
  BY SoundQueue DEF GoodQueue, QueueRecord, Pointing
<1>3. ASSUME NEW r, NEW at \in 0 .. n, Inserted(r, q, Library, at, t),
             r.current = IF at <= q.current /\ q.items # <<>> THEN q.current + 1 ELSE q.current
      PROVE  Stands(q, r)
  <2>1. q.items # <<>> => r.current = IF q.current < at THEN q.current ELSE q.current + Len(t)
    BY <1>1, <1>2, <1>3
  <2>2. q.items = <<>> => r.current = 0
    BY <1>2, <1>3
  <2>3. GoodQueue(r, Library) /\ (q.items # <<>> => CurrentTrack(r) = CurrentTrack(q))
    BY <1>1, <1>3, <2>1, <2>2, InsertedKeepsPointer
  <2>4. Len(r.items) = n + 1
    BY <1>1, <1>3 DEF Inserted
  <2>5. r.items # <<>>
    BY <1>2, <2>4
  <2> QED
    BY <2>3, <2>5, StandsBy
<1>4. Stands(q, InsertNext(q, t))
  <2>1. next \in 0 .. n /\ (q.items # <<>> => ~(next <= q.current))
    BY <1>2
  <2>2. Inserted(InsertNext(q, t), q, Library, next, t) /\ InsertNext(q, t).current = q.current
    BY <1>1, <2>1, InsertNextIs
  <2> HIDE DEF next
  <2> QED
    BY <1>3, <2>1, <2>2
<1>5. Stands(q, Add(q, t))
  <2>1. n \in 0 .. n /\ (q.items # <<>> => ~(n <= q.current))
    BY <1>2
  <2>2. Inserted(Add(q, t), q, Library, n, t) /\ Add(q, t).current = q.current
    BY <1>1, AddIs
  <2> HIDE DEF n
  <2> QED
    BY <1>3, <2>1, <2>2
<1>6. ASSUME NEW i \in Nat PROVE Stands(q, InsertAtReady(q, i, t))
  <2> DEFINE at == IF i < n THEN i ELSE n
  <2>1. at \in 0 .. n
    BY <1>2
  <2>2. /\ Inserted(InsertAtReady(q, i, t), q, Library, at, t)
        /\ InsertAtReady(q, i, t).current =
              IF at <= q.current /\ q.items # <<>> THEN q.current + Len(t) ELSE q.current
    BY <1>1, <2>1, InsertAtIs
  <2> HIDE DEF at
  <2> QED
    BY <1>1, <1>3, <2>1, <2>2
<1> QED
  BY <1>4, <1>5, <1>6 DEF t

LEMMA UpcomingStands ==
  ASSUME NEW q, GoodQueue(q, Library), NEW from \in Nat, q.current < from,
         NEW r \in DropFrom(q, from) \cup ReplaceFrom(q, from, <<NewTrack>>) \cup ShuffleFrom(q, from)
  PROVE  Stands(q, r)
<1> DEFINE n == Len(q.items)
           cut == IF from < n THEN from ELSE n
<1>1. /\ n \in Nat /\ q.current \in Nat /\ Ready(q) = {q} /\ QueueLen(q) = n
      /\ IF q.items = <<>> THEN q.current = 0 ELSE q.current < n
      /\ q \in QueueRecord(Library) /\ Sound(q)
  BY SoundQueue DEF GoodQueue, QueueRecord, Pointing
<1>2. cut \in 0 .. n /\ (q.items # <<>> => q.current < cut)
  BY <1>1
<1>3. ASSUME NEW d \in DropFrom(q, from) PROVE Stands(q, d) /\ GoodQueue(d, Library)
  <2>1. Truncated(d, q, Library, cut)
    <3>1. /\ DropFrom(q, from) = {DropFromReady(q, from)}
          /\ Truncated(DropFromReady(q, from), q, Library, cut)
      BY <1>1, <1>2, DropIs
    <3> QED
      BY <1>3, <3>1
  <2> HIDE DEF cut
  <2>2. /\ GoodQueue(d, Library)
        /\ q.items # <<>> => d.items # <<>> /\ CurrentTrack(d) = CurrentTrack(q)
    BY <1>2, <2>1, TruncatedKeepsPointer
  <2> QED
    BY <2>2, StandsBy
<1>4. CASE r \in DropFrom(q, from)
  BY <1>3, <1>4
<1>5. CASE r \in ReplaceFrom(q, from, <<NewTrack>>)
  <2>1. PICK d \in DropFrom(q, from) : r = Add(d, <<NewTrack>>)
    BY <1>5 DEF ReplaceFrom
  <2>2. Stands(q, d) /\ Stands(d, r)
    BY <1>3, <2>1, InsertStands
  <2> QED
    BY <2>2 DEF Stands, StillThere
<1>6. CASE r \in ShuffleFrom(q, from) /\ from + 1 >= n
  <2>1. r = q
    BY <1>1, <1>6 DEF ShuffleFrom
  <2> QED
    BY <2>1 DEF Stands, StillThere
<1>7. CASE r \in ShuffleFrom(q, from) /\ ~(from + 1 >= n)
  <2>1. PICK source \in SetToSeqs(from .. n - 1) : r = ShuffledTail(q, from, source)
    BY <1>1, <1>7 DEF ShuffleFrom
  <2>2. from \in 0 .. n
    BY <1>1, <1>7
  <2>3. TailShuffled(r, q, Library, from, source)
    BY <1>1, <2>1, <2>2, ShuffledTailIs
  <2>4. GoodQueue(r, Library) /\ (q.items # <<>> => CurrentTrack(r) = CurrentTrack(q))
    BY <2>2, <2>3, ShuffledTailKeepsPointer
  <2>5. Len(r.items) = n
    BY <2>3 DEF TailShuffled
  <2>6. r.items # <<>>
    BY <1>1, <1>7, <2>5
  <2> QED
    BY <2>4, <2>6, StandsBy
<1> QED
  BY <1>4, <1>5, <1>6, <1>7

LEMMA ToggleStands ==
  ASSUME NEW q, GoodQueue(q, Library), NEW r \in ToggleShuffle(q)
  PROVE  Stands(q, r)
<1>1. q.shuffle \in BOOLEAN /\ r \in SetShuffle(q, ~q.shuffle)
  BY DEF SetShuffle, GoodQueue, QueueRecord
<1>2. Toggled(r, q, Library, ~q.shuffle)
  BY <1>1, SetShuffleIs DEF GoodQueue
<1> QED
  BY <1>2, StandsBy DEF Toggled

LEMMA MoveStands ==
  ASSUME NEW q, GoodQueue(q, Library), NEW i \in IndexSet(q), NEW j \in IndexSet(q)
  PROVE  Stands(q, MoveItem(q, i, j))
<1> DEFINE r == MoveItem(q, i, j)
<1>1. CASE i = j
  <2>1. r = q
    BY <1>1 DEF MoveItem
  <2> QED
    BY <2>1 DEF Stands, StillThere
<1>2. CASE i # j
  <2>1. i \in 0 .. Len(q.items) - 1 /\ j \in 0 .. Len(q.items) - 1 /\ Len(q.items) \in Nat
    BY SoundQueue DEF IndexSet, GoodQueue
  <2>2. EntryMoved(r, q, Library, i, j)
    BY <1>2, <2>1, MoveItemIs DEF GoodQueue
  <2> HIDE DEF r
  <2>3. GoodQueue(r, Library) /\ CurrentTrack(r) = CurrentTrack(q)
    BY <2>1, <2>2, MovedKeepsPointer
  <2>4. Len(r.items) = Len(q.items)
    BY <2>2 DEF EntryMoved
  <2>5. r.items # <<>>
    BY <2>1, <2>4
  <2> QED
    BY <2>3, <2>5, StandsBy DEF r
<1> QED
  BY <1>1, <1>2

LEMMA RemoveStands ==
  ASSUME NEW q, GoodQueue(q, Library), NEW i \in IndexSet(q), i # q.current
  PROVE  Stands(q, RemoveEntry(q, i))
<1> DEFINE r == RemoveEntry(q, i)
           n == Len(q.items)
<1>1. /\ n \in Nat /\ q.current \in Nat /\ i \in 0 .. n - 1
      /\ q.items # <<>> => q.current < n
      /\ q.items = <<>> => n = 0
  BY SoundQueue DEF GoodQueue, QueueRecord, Pointing, IndexSet
<1>2. /\ EntryRemoved(r, q, Library, i)
      /\ r.current = LET left  == n - 1
                         moved == IF i < q.current THEN q.current - 1 ELSE q.current
                     IN  IF left = 0 THEN 0 ELSE IF moved >= left THEN left - 1 ELSE moved
  BY <1>1, RemoveEntryIs DEF GoodQueue
<1> HIDE DEF r
<1>3. GoodQueue(r, Library) /\ CurrentTrack(r) = CurrentTrack(q)
  BY <1>1, <1>2, RemovedKeepsPointer
<1>4. Len(r.items) = n - 1
  BY <1>2 DEF EntryRemoved
<1>5. r.items # <<>>
  BY <1>1, <1>4
<1> QED
  BY <1>3, <1>5, StandsBy DEF r

LEMMA QueuePoints ==
  ASSUME NEW x, DOMAIN x = Fields, Points(x), NEW queue, Stands(x.queue, queue)
  PROVE  Points(WithQueue(x, queue))
<1> DEFINE y == WithQueue(x, queue)
<1>1. /\ DOMAIN y = Fields /\ y.queue = queue /\ y.pending = x.pending /\ y.intent = x.intent
      /\ y.trackOf = x.trackOf /\ y.nextToken = x.nextToken /\ y.raced = x.raced
  BY DEF WithQueue, Fields
<1> HIDE DEF y
<1>2. SameLoads(x, y) /\ Stands(x.queue, y.queue)
  BY <1>1 DEF SameLoads
<1>3. FallsBack(x, y) \/ StaysIn(x, y)
  BY <1>1 DEF FallsBack, StaysIn
<1> QED
  BY <1>2, <1>3, RestsPoint DEF y

\* The transition goes along with the track it is to.
LEMMA MovedPoints ==
  ASSUME NEW x, NEW m, Good(x, m), Whole(x), Followed(x), Untouched(x), Points(x),
         x.pending # None, NEW queue, Stands(x.queue, queue), NEW to \in Nat
  PROVE  Points([WithQueue(x, queue) EXCEPT !.pending.to = to])
<1> DEFINE w == WithQueue(x, queue)
           y == [w EXCEPT !.pending.to = to]
           pending == [x.pending EXCEPT !.to = to]
           gapless == x.pending.gapless
           stage == x.pending.stage
           key == x.pending.key
           p == [to |-> to, key |-> key, token |-> x.pending.token, from |-> x.pending.from,
                 stage |-> stage, gapless |-> gapless, amid |-> x.pending.amid]
<1>1. /\ DOMAIN w = Fields /\ w.queue = queue /\ w.pending = x.pending /\ w.intent = x.intent
      /\ w.trackOf = x.trackOf /\ w.nextToken = x.nextToken /\ w.raced = x.raced
  BY DEF WithQueue, Whole, Fields
<1> HIDE DEF w
<1>2. /\ DOMAIN y = Fields /\ y.queue = queue /\ y.pending = pending /\ y.intent = x.intent
      /\ y.trackOf = x.trackOf /\ y.nextToken = x.nextToken /\ y.raced = x.raced
  BY <1>1 DEF Fields
<1> HIDE DEF y
<1>3. SameLoads(x, y)
  BY <1>2 DEF SameLoads
<1>4. CASE x.raced
  BY <1>3, <1>4, RacedPoints DEF y, w
<1>5. CASE ~x.raced
  <2>1. DOMAIN x.pending = PendingFields /\ x.pending.amid = {}
    BY <1>5 DEF Whole, Untouched
  <2>2. pending = p
    BY <2>1 DEF PendingFields
  <2>3. /\ x.pending.token \in Nat /\ x.pending.from \in Nat
        /\ stage \in {"Loading", "Fading", "Queued"} /\ gapless \in BOOLEAN
    BY <1>5 DEF Good, Sane, Shaped, Typed, Given, Session, Taken, Whole
  <2>4. key \in ToSet(Tracks) \cup {NewTrack}
    <3>1. TrackAt(x.queue, x.pending.to) \in Library
      BY <2>1, TrackIsListed DEF Whole, Followed
    <3> QED
      BY <2>1, <3>1 DEF Followed, Library
  <2> HIDE DEF pending, gapless, stage, key
  <2>5. p # None
    BY <2>1, <2>3, <2>4, NoneIsNothing
  <2>6. StaysIn(x, y) /\ Stands(x.queue, y.queue)
    BY <1>2, <2>2, <2>5 DEF StaysIn, key
  <2> QED
    BY <1>3, <2>6, RestsPoint DEF y, w
<1> QED
  BY <1>4, <1>5

LEMMA UpcomingPoints ==
  ASSUME NEW x, DOMAIN x = Fields, Points(x)
  PROVE  Points(UpcomingFrom(x).x) /\ DOMAIN UpcomingFrom(x).x = Fields
  BY RevertPoints, RevertSame DEF UpcomingFrom, SameLoads

LEMMA EditedPoints ==
  ASSUME NEW x, NEW m, Good(x, m), Firm(x), Untouched(x), Points(x),
         NEW kind \in Edits, NEW y \in Edited(x, kind)
  PROVE  Points(y)
<1> DEFINE q == x.queue
<1>0. /\ GoodQueue(q, Library) /\ DOMAIN x = Fields /\ Whole(x) /\ Followed(x)
      /\ x.pending # None => x.pending.to \in Nat /\ DOMAIN x.pending = PendingFields
  BY DEF Firm, Whole
<1>1. CASE kind = "Insert"
  <2>1. PICK i \in 0 .. QueueLen(q) : y = WithInsertion(x, InsertAtReady(q, i, <<NewTrack>>))
    BY <1>1 DEF Edited
  <2>2. i \in Nat
    BY <1>0, SoundQueue DEF GoodQueue
  <2> DEFINE w == WithQueue(x, InsertAtReady(q, i, <<NewTrack>>))
             pending == [x.pending EXCEPT !.amid = @ \cup {"Insert"}]
  <2>3. Points(w)
    BY <1>0, <2>2, InsertStands, QueuePoints
  <2>4. DOMAIN w = Fields /\ w.pending = x.pending
    BY <1>0 DEF WithQueue, Fields
  <2>5. y = IF x.pending = None THEN w ELSE [w EXCEPT !.pending = pending, !.raced = TRUE]
    BY <2>1, <2>4 DEF WithInsertion, Fields
  <2> HIDE DEF w, pending
  <2>6. x.pending # None => y.raced
    BY <2>4, <2>5 DEF Fields
  <2> QED
    BY <2>3, <2>5, <2>6 DEF Points, Counts
<1>2. CASE kind = "PlayNext"
  <2> DEFINE fading == x.pending # None /\ ~x.pending.gapless
             r == IF fading THEN InsertAtReady(q, x.pending.to + 1, <<NewTrack>>)
                  ELSE InsertNext(q, <<NewTrack>>)
  <2>1. y = WithQueue(x, r)
    BY <1>2 DEF Edited
  <2>2. fading => x.pending.to + 1 \in Nat
    BY <1>0
  <2>3. Stands(q, r)
    BY <1>0, <2>2, InsertStands
  <2> HIDE DEF r
  <2> QED
    BY <1>0, <2>1, <2>3, QueuePoints
<1>3. CASE kind = "Append"
  <2>1. y = WithQueue(x, Add(q, <<NewTrack>>))
    BY <1>3 DEF Edited
  <2> QED
    BY <1>0, <2>1, InsertStands, QueuePoints
<1>4. CASE kind \in {"ClearUpcoming", "ReplaceUpcoming", "ShuffleUpcoming"}
  <2> DEFINE u == UpcomingFrom(x)
  <2>1. Firm(u.x) /\ u.from \in Nat /\ u.x.queue.current < u.from
    BY UpcomingIs
  <2>2. \E r \in DropFrom(u.x.queue, u.from) \cup ReplaceFrom(u.x.queue, u.from, <<NewTrack>>)
                 \cup ShuffleFrom(u.x.queue, u.from) : y = WithQueue(u.x, r)
    <3>1. CASE kind = "ClearUpcoming"
      BY <3>1 DEF Edited
    <3>2. CASE kind = "ReplaceUpcoming"
      <4>1. Edited(x, kind) =
               LET new == {NewTrack} \ ToSet(x.queue.items)
               IN  {WithQueue(u.x, r) :
                      r \in UNION {ReplaceFrom(u.x.queue, u.from, <<track>>) : track \in new}}
        BY <3>2 DEF Edited
      <4> HIDE DEF u
      <4> QED
        BY <4>1
    <3>3. CASE kind = "ShuffleUpcoming"
      BY <3>3 DEF Edited
    <3> QED
      BY <1>4, <3>1, <3>2, <3>3
  <2>3. Points(u.x) /\ DOMAIN u.x = Fields
    BY <1>0, UpcomingPoints
  <2> HIDE DEF u
  <2>4. PICK r : /\ y = WithQueue(u.x, r)
                 /\ r \in DropFrom(u.x.queue, u.from) \cup ReplaceFrom(u.x.queue, u.from, <<NewTrack>>)
                          \cup ShuffleFrom(u.x.queue, u.from)
    BY <2>2
  <2>5. GoodQueue(u.x.queue, Library)
    BY <2>1 DEF Firm, Whole
  <2>6. Stands(u.x.queue, r)
    BY <2>1, <2>4, <2>5, UpcomingStands
  <2> QED
    BY <2>3, <2>4, <2>6, QueuePoints
<1>5. CASE kind = "Shuffle"
  <2>1. PICK r \in ToggleShuffle(q) : y = Reshuffled(x, r)
    BY <1>5 DEF Edited
  <2>2. Stands(q, r)
    BY <1>0, ToggleStands
  <2>3. CASE x.pending = None \/ ~HasTrack(q, x.pending.to)
    <3>1. y = WithQueue(x, r)
      BY <2>1, <2>3 DEF Reshuffled
    <3> QED
      BY <1>0, <2>2, <3>1, QueuePoints
  <2>4. CASE ~(x.pending = None \/ ~HasTrack(q, x.pending.to))
    <3> DEFINE to == PositionOf(r, PhysicalIndexOf(q, x.pending.to))
    <3>1. to \in Nat
      BY <1>0, <2>4, ShuffleKeeps
    <3>2. y = [WithQueue(x, r) EXCEPT !.pending.to = to]
      BY <2>1, <2>4 DEF Reshuffled
    <3> HIDE DEF to
    <3> QED
      BY <1>0, <2>2, <2>4, <3>1, <3>2, MovedPoints
  <2> QED
    BY <2>3, <2>4
<1>6. CASE kind = "Loop"
  <2>1. Edited(x, kind) = {WithQueue(x, [q EXCEPT !.loop = loop]) : loop \in LoopModes}
    BY <1>6 DEF Edited
  <2>2. PICK loop \in LoopModes : y = WithQueue(x, [q EXCEPT !.loop = loop])
    BY <2>1
  <2> DEFINE r == [q EXCEPT !.loop = loop]
  <2>3. r.items = q.items /\ r.order = q.order /\ r.shuffle = q.shuffle /\ r.current = q.current
    BY <1>0 DEF GoodQueue, QueueRecord
  <2> HIDE DEF r
  <2>4. Stands(q, r)
    BY <2>3 DEF Stands, StillThere, HasTrack, TrackAt, PhysicalIndexOf
  <2> QED
    BY <1>0, <2>2, <2>4, QueuePoints DEF r
<1>7. CASE kind = "Move"
  <2>1. PICK i \in IndexSet(q), j \in IndexSet(q) :
           y = Remapped(WithQueue(x, MoveItem(q, i, j)), i, j)
    BY <1>7 DEF Edited
  <2> DEFINE r == MoveItem(q, i, j)
             w == WithQueue(x, r)
             to == RemapQueueIndex(x.pending.to, i, j)
  <2>2. Stands(q, r)
    BY <1>0, MoveStands
  <2>3. w.pending = x.pending /\ DOMAIN w = Fields
    BY <1>0 DEF WithQueue, Fields
  <2>4. CASE x.pending = None
    <3>1. y = w
      BY <2>1, <2>3, <2>4 DEF Remapped
    <3> QED
      BY <1>0, <2>2, <3>1, QueuePoints
  <2>5. CASE x.pending # None
    <3>1. to \in Nat
      BY <1>0, <2>5, MoveKeeps
    <3> HIDE DEF r
    <3>2. y = [w EXCEPT !.pending.to = RemapQueueIndex(@, i, j)]
      BY <2>1, <2>3, <2>5 DEF Remapped, r
    <3> HIDE DEF w
    <3>3. y = [w EXCEPT !.pending.to = to]
      BY <1>0, <2>3, <2>5, <3>2 DEF Fields, PendingFields
    <3> HIDE DEF to
    <3> QED
      BY <1>0, <2>2, <2>5, <3>1, <3>3, MovedPoints DEF w
  <2> QED
    BY <2>4, <2>5
<1>8. CASE kind = "Remove"
  <2>1. PICK i \in IndexSet(q) :
           /\ i # q.current /\ ~(x.pending # None /\ ~x.pending.gapless /\ x.pending.to = i)
           /\ y = Closed(WithQueue(x, RemoveEntry(q, i)), i)
    BY <1>8 DEF Edited
  <2> DEFINE r == RemoveEntry(q, i)
             w == WithQueue(x, r)
             to == x.pending.to - 1
  <2>2. Stands(q, r)
    BY <1>0, <2>1, RemoveStands
  <2>3. w.pending = x.pending /\ DOMAIN w = Fields
    BY <1>0 DEF WithQueue, Fields
  <2> HIDE DEF r
  <2>4. CASE x.pending = None \/ ~(i < x.pending.to)
    <3>1. y = w
      BY <2>1, <2>3, <2>4 DEF Closed, r
    <3> QED
      BY <1>0, <2>2, <3>1, QueuePoints
  <2>5. CASE x.pending # None /\ i < x.pending.to
    <3>1. to \in Nat
      <4>1. i \in Nat
        BY <1>0, SoundQueue DEF IndexSet, GoodQueue
      <4> QED
        BY <1>0, <2>5, <4>1
    <3>2. y = [w EXCEPT !.pending.to = @ - 1]
      BY <2>1, <2>3, <2>5 DEF Closed, r
    <3> HIDE DEF w
    <3>3. y = [w EXCEPT !.pending.to = to]
      BY <1>0, <2>3, <2>5, <3>2 DEF Fields, PendingFields
    <3> HIDE DEF to
    <3> QED
      BY <1>0, <2>2, <2>5, <3>1, <3>3, MovedPoints DEF w
  <2> QED
    BY <2>4, <2>5
<1> QED
  BY <1>1, <1>2, <1>3, <1>4, <1>5, <1>6, <1>7, <1>8 DEF Edits

LEMMA JumpsPhysicalPoints ==
  ASSUME NEW x, NEW m, Good(x, m), Points(x), NEW queue
  PROVE  Points(JumpsPhysical(x, queue))
<1> DEFINE moved == WithQueue(x, queue)
<1>1. SameLoads(x, moved) /\ moved.queue = queue /\ moved.nextToken = x.nextToken
  BY GoodGives DEF SameLoads, WithQueue, Fields
<1> HIDE DEF moved
<1>2. Playable(moved, queue.current) => Points(StartLoad(moved, queue.current, "immediate"))
  BY <1>1, GoodGives, StartPoints DEF Playable
<1>3. Points(RefuseLoad(moved))
  BY <1>1, RefusePoints
<1> QED
  BY <1>2, <1>3 DEF JumpsPhysical, moved

LEMMA ReplacedPoints ==
  ASSUME NEW x, NEW m, Good(x, m), Points(x), NEW y \in Replaced(x)
  PROVE  Points(y)
<1>1. \/ \E queue : y = Stop(WithQueue(x, queue))
      \/ \E queue : y = StartImmediateLoad(x, queue, queue.current)
  BY DEF Replaced
<1>2. ASSUME NEW queue PROVE Points(Stop(WithQueue(x, queue)))
  <2>1. SameLoads(x, WithQueue(x, queue))
    BY GoodGives DEF SameLoads, WithQueue, Fields
  <2> QED
    BY <2>1, StopPoints
<1>3. ASSUME NEW queue PROVE Points(StartImmediateLoad(x, queue, queue.current))
  BY ImmediatePoints
<1> QED
  BY <1>1, <1>2, <1>3

LEMMA AskedPoints ==
  ASSUME NEW x, NEW m, Good(x, m), Firm(x), Untouched(x), Points(x),
         NEW c \in Requests \cup Edits, NEW near,
         c = "Play" => x.pending = None \/ "Play" \in Hasty, NEW y \in Asked(x, c, near)
  PROVE  Points(y)
<1>0. Whole(x) /\ DOMAIN x = Fields
  BY DEF Firm, Whole
<1>1. CASE c \in Edits
  <2>1. y \in {RearmGapless(z, near) : z \in Edited(x, c)}
    BY <1>1 DEF Edits, Asked
  <2>2. PICK z \in Edited(x, c) : y = RearmGapless(z, near)
    BY <2>1
  <2>3. Good(z, m) /\ Points(z)
    BY <1>1, <2>2, EditedIsGood, EditedPoints
  <2>4. Whole(z)
    BY <1>1, <2>2, EditedIsFirm DEF Edit
  <2> QED
    BY <2>2, <2>3, <2>4, RearmPoints
<1>2. \A queue : Points(StartImmediateLoad(x, queue, queue.current))
  BY ImmediatePoints
<1>3. CASE c = "Jump"
  <2>1. \E q \in UNION {JumpToPosition(x.queue, i) : i \in IndexSet(x.queue)} :
             y = StartImmediateLoad(x, q, q.current)
    BY <1>3 DEF Asked, Edits
  <2> QED
    BY <1>2, <2>1
<1>4. CASE c = "JumpPhysical"
  <2>1. \E queue : y = JumpsPhysical(x, queue)
    BY <1>4 DEF Asked, Edits
  <2> QED
    BY <2>1, JumpsPhysicalPoints
<1>5. CASE c = "Replace"
  BY <1>5, ReplacedPoints DEF Asked, Edits
<1>6. CASE c = "Play"
  BY <1>6, ResumePoints DEF Asked, Edits
<1>7. CASE c = "Previous"
  BY <1>0, <1>7, PreviousPoints DEF Asked, Edits
<1>8. CASE c = "Pause"
  BY <1>0, <1>8, PausePoints DEF Asked, Edits
<1>9. CASE c = "Next"
  BY <1>0, <1>9, PlayNextPoints DEF Asked, Edits
<1>10. CASE c = "Seek"
  BY <1>0, <1>10, SeekPoints DEF Asked, Edits
<1>11. CASE c = "Stop"
  <2>1. SameLoads(x, x)
    BY <1>0 DEF SameLoads
  <2> QED
    BY <1>11, <2>1, StopPoints DEF Asked, Edits
<1> QED
  BY <1>1, <1>3, <1>4, <1>5, <1>6, <1>7, <1>8, <1>9, <1>10, <1>11 DEF Requests

\* The load of the first message has its transition still.
LEMMA FailedLeaves ==
  ASSUME NEW x, NEW full, NEW m, NEW k, NEW v, Unpacked(x, full, m, k, v), x.intent.token = k.token,
         k.type = "PrepareFailed" \/ (k.type = "LoadFinished" /\ k.result = "failed"),
         ~x.raced, IsLoading(x), x.intent.deferred
  PROVE  x.pending # None
<1>1. Claims(x, full, To(x), engine, v)
  BY DEF Unpacked, Live
<1>2. /\ Finished(full, k.token, "crossfaded") =>
         k.type = "LoadFinished" /\ k.result = "crossfaded"
      /\ Finished(full, k.token, "gapless") => k.type = "LoadFinished" /\ k.result = "gapless"
  BY FinishedIsHead
<1>3. ~Finished(full, k.token, "crossfaded") /\ ~Finished(full, k.token, "gapless")
  BY <1>2
<1> QED
  BY <1>1, <1>3 DEF Claims, LateClaim

LEMMA LandedPoints ==
  ASSUME NEW x, NEW full, NEW m, NEW k, NEW v, Unpacked(x, full, m, k, v), x.intent.token = k.token,
         k.type = "LoadFinished", Whole(x), Followed(x), Untouched(x), Points(x)
  PROVE  Points(Landed(x, k))
<1> DEFINE y == [x EXCEPT !.intent = Committed(k.token), !.task = None]
           armed == x.pending # None /\ x.pending.token = k.token
           staged(stage) == [y EXCEPT !.pending.stage = stage]
<1>1. /\ Opened(x, m, k) /\ Sane(x, m) /\ Given(x, k.token)
      /\ Orderly(x, m, engine) /\ DOMAIN x = Fields
  BY TakenIsNear DEF Unpacked, Opened, Near, Loose, Whole
<1>2. /\ SameLoads(x, y) /\ y.queue = x.queue /\ y.pending = x.pending
      /\ y.intent = Committed(k.token)
  BY <1>1 DEF SameLoads, Fields
<1> HIDE DEF y
<1>3. ASSUME ~armed PROVE Points(y)
  <2> SUFFICES ASSUME ~x.raced PROVE Points(y)
    BY <1>2, RacedPoints
  <2>1. x.pending = None
    BY <1>1, <1>3 DEF Sane, Intended, Given, Loading, Committed, Stopped, Taken
  <2>2. x.intent.kind # "Stopped"
    BY <1>1 DEF Sane, Typed, Given, Stopped, Committed, Loading
  <2>3. FallsBack(x, y)
    BY <1>2, <2>1, <2>2 DEF FallsBack, Committed
  <2>4. Stands(x.queue, y.queue)
    BY <1>2 DEF Stands, StillThere
  <2> QED
    BY <1>2, <2>3, <2>4, RestsPoint
<1>4. ASSUME armed PROVE Points(CommitTransition(y))
  <2> DEFINE z == CommitTransition(y)
  <2>1. Whole(y) /\ Followed(y) /\ y.pending # None
    BY <1>2, <1>4 DEF Whole, Followed, SameLoads
  <2>2. SameLoads(y, z) /\ (x.raced \/ Heads(z.queue, x.pending.key))
    BY <1>2, <2>1, CommitHeads DEF Untouched
  <2>3. z.pending = None /\ z.intent = Committed(k.token)
    BY <1>2, <2>1, CommitEnds DEF Whole
  <2> HIDE DEF z
  <2>4. SameLoads(x, z)
    BY <1>2, <2>2 DEF SameLoads
  <2>5. z.intent.token = x.pending.token
    BY <1>4, <2>3 DEF Committed
  <2> QED
    BY <1>4, <2>2, <2>3, <2>4, <2>5, CommitPoints DEF z
<1>5. ASSUME armed, NEW stage \in {"Fading", "Queued"} PROVE Points(staged(stage))
  <2> DEFINE z == staged(stage)
             p == [x.pending EXCEPT !.stage = stage]
  <2>1. SameLoads(x, z) /\ z.queue = x.queue /\ z.pending = p
    BY <1>2 DEF SameLoads, Fields
  <2> SUFFICES ASSUME ~x.raced PROVE Points(z)
    BY <2>1, RacedPoints
  <2>2. p # None /\ p.token = x.pending.token /\ p.from = x.pending.from /\ p.key = x.pending.key
    BY <1>1, <1>5, StagedPending DEF Whole
  <2> HIDE DEF z, p
  <2>3. StaysIn(x, z) /\ Stands(x.queue, z.queue)
    BY <1>5, <2>1, <2>2 DEF StaysIn, Stands, StillThere
  <2> QED
    BY <2>1, <2>3, RestsPoint DEF z
<1>6. Landed(x, k) = IF ~armed THEN y
                     ELSE IF k.result = "crossfaded" THEN staged("Fading")
                     ELSE IF k.result = "gapless" THEN staged("Queued")
                     ELSE CommitTransition(y)
  BY DEF Landed, y
<1> HIDE DEF armed, staged
<1> QED
  BY <1>3, <1>4, <1>5, <1>6

LEMMA FinishedPoints ==
  ASSUME NEW x, NEW full, NEW m, NEW k, NEW v, Unpacked(x, full, m, k, v), x.intent.token = k.token,
         k.type = "LoadFinished", Firm(x), Untouched(x), Points(x), NEW near
  PROVE  Points(HandleLoadFinished(x, k, near))
<1> DEFINE idle == [x EXCEPT !.task = None]
           done == Landed(x, k)
<1>1. Opened(x, m, k) /\ Sane(x, m) /\ Given(x, k.token) /\ DOMAIN x = Fields
      /\ Whole(x) /\ Followed(x)
  BY DEF Unpacked, Opened, Firm, Whole
<1>2. /\ DOMAIN idle = Fields /\ idle.pending = x.pending /\ idle.intent = x.intent
      /\ idle.nextToken = x.nextToken /\ idle.task = None /\ idle.out = x.out
      /\ idle.phase = x.phase /\ idle.armed = x.armed /\ idle.raced = x.raced
      /\ idle.forsaken = x.forsaken /\ Same(x, idle)
  BY <1>1 DEF Same, SameLoads, Fields
<1>3. HandleLoadFinished(x, k, near) = IF k.result = "dropped" THEN idle
                                       ELSE IF k.result = "failed" THEN FailLoad(idle, k.token)
                                       ELSE ArmGaplessNow(done, near)
  BY DEF HandleLoadFinished, Landed
<1> HIDE DEF idle
<1>4. Points(idle)
  BY <1>2, SamePoints
<1>5. CASE k.result = "failed"
  <2>1. Sane(idle, m)
    <3>1. More(x.out, x.out, Others) /\ x.phase \in Phases /\ Before(x, x.armed)
      BY <1>1, MoreSelf DEF Sane, Fresh, Typed
    <3>2. Marks(x, idle)
      BY <1>2 DEF Marks
    <3> QED
      BY <1>1, <1>2, <3>1, <3>2, KeepsSane
  <2>2. ~idle.raced /\ IsLoading(idle) /\ idle.intent.deferred => idle.pending # None
    BY <1>2, <1>5, FailedLeaves DEF IsLoading
  <2>3. Points(FailLoad(idle, k.token))
    BY <1>4, <2>1, <2>2, FailPoints
  <2> QED
    BY <1>3, <1>5, <2>3
<1>6. Points(ArmGaplessNow(done, near))
  <2>1. Good(done, m) /\ done.intent = Committed(k.token)
    BY <1>1, LandedIsGood
  <2>2. GoodQueue(done.queue, Library)
    BY LandedIsFirm DEF Firm, Whole
  <2>3. Points(done)
    BY <1>1, LandedPoints
  <2> HIDE DEF done
  <2>4. done.intent.token # 0
    BY <1>1, <2>1 DEF Committed, Given
  <2> QED
    BY <2>1, <2>2, <2>3, <2>4, ArmNowPoints
<1> QED
  BY <1>3, <1>4, <1>5, <1>6

LEMMA MailPoints ==
  ASSUME NEW x, NEW full, NEW m, NEW k, NEW v, Unpacked(x, full, m, k, v), Firm(x),
         Untouched(x), Points(x), NEW near
  PROVE  Points(HandleMail(x, k, near))
<1>1. k.type \in {"LoadPrepared", "PrepareFailed", "LoadFinished"} /\ Sane(x, m) /\ DOMAIN x = Fields
  BY DEF Unpacked, Opened, Firm, Whole
<1>2. CASE x.intent.token # k.token
  <2>1. HandleMail(x, k, near) = x
    BY <1>1, <1>2 DEF HandleMail, HandlePreparedLoad, FailLoad, HandleLoadFinished
  <2> QED
    BY <2>1
<1>3. CASE x.intent.token = k.token /\ k.type = "LoadPrepared"
  <2> DEFINE task == [token |-> k.token, stage |-> "reply", transition |-> k.transition]
             load == [op |-> "Load", token |-> k.token, transition |-> k.transition]
             y == [[x EXCEPT !.task = task] EXCEPT !.out = Append(@, load)]
  <2>1. HandleMail(x, k, near) = y
    BY <1>3 DEF HandleMail, HandlePreparedLoad, SendLoad
  <2> HIDE DEF task, load
  <2>2. Same(x, y)
    BY <1>1 DEF Same, SameLoads, Fields
  <2> HIDE DEF y
  <2> QED
    BY <2>1, <2>2, SamePoints
<1>4. CASE x.intent.token = k.token /\ k.type = "PrepareFailed"
  <2>1. ~x.raced /\ IsLoading(x) /\ x.intent.deferred => x.pending # None
    BY <1>4, FailedLeaves
  <2> QED
    BY <1>1, <1>4, <2>1, FailPoints DEF HandleMail
<1>5. CASE x.intent.token = k.token /\ k.type = "LoadFinished"
  BY <1>5, FinishedPoints DEF HandleMail
<1> QED
  BY <1>1, <1>2, <1>3, <1>4, <1>5

LEMMA PhasedPoints ==
  ASSUME NEW x, DOMAIN x = Fields, Points(x), NEW phase
  PROVE  Points([x EXCEPT !.phase = phase])
<1>1. Same(x, [x EXCEPT !.phase = phase])
  BY DEF Same, SameLoads, Fields
<1> QED
  BY <1>1, SamePoints

LEMMA StalePoints ==
  ASSUME NEW x, DOMAIN x = Fields, Points(x)
  PROVE  Points(StopStale(x))
<1> DEFINE told == Send(x, "Stop")
           forsaken == told.forsaken \cup {x.intent.token}
           y == [told EXCEPT !.raced = TRUE, !.forsaken = forsaken]
<1>1. Same(x, told)
  BY SendSame
<1>2. StopStale(x) = told \/ StopStale(x) = y
  BY DEF StopStale
<1> HIDE DEF told, forsaken
<1>3. Same(x, y)
  BY <1>1 DEF Same, SameLoads, Fields
<1> HIDE DEF y
<1> QED
  BY <1>1, <1>2, <1>3, SamePoints

LEMMA EndedPoints ==
  ASSUME NEW x, NEW m, Good(x, m), Whole(x), Followed(x), Untouched(x), Points(x), NEW t
  PROVE  Points(HandleEnded(x, t))
<1> DEFINE model == CommitModel(x)
           late == [model EXCEPT !.intent = Loading(x.pending.token, FALSE, t), !.phase = "Ended"]
           base == IF t # x.intent.token THEN RevertTransition(x) ELSE x
           y == [base EXCEPT !.phase = "Ended"]
<1>1. /\ DOMAIN x = Fields
      /\ HandleEnded(x, t) = IF t # x.intent.token /\ ~WaitingFrom(x, t) THEN x
                             ELSE IF IsOutgoing(x, t) /\ x.pending.stage = "Loading" THEN late
                             ELSE PlayNext(y)
  BY DEF HandleEnded, Whole
<1>2. ASSUME x.pending # None PROVE Points(late)
  <2>1. SameLoads(x, model) /\ (x.raced \/ Heads(model.queue, x.pending.key))
        /\ model.pending = None
    BY <1>1, <1>2, CommitHeads, CommitEnds DEF Untouched
  <2> HIDE DEF model
  <2>2. /\ SameLoads(x, late) /\ (x.raced \/ Heads(late.queue, x.pending.key))
        /\ late.pending = None
        /\ late.intent = Loading(x.pending.token, FALSE, t)
    BY <2>1 DEF SameLoads, Fields
  <2> HIDE DEF late
  <2>3. late.intent.token = x.pending.token
    BY <2>2 DEF Loading
  <2> QED
    BY <1>2, <2>2, <2>3, CommitPoints
<1>3. Points(PlayNext(y))
  <2>1. Good(base, m) /\ Points(base) /\ Whole(base)
    BY <1>1, RevertIsGood, RevertPoints, RevertKeeps DEF Whole, Keeps
  <2> HIDE DEF base
  <2>2. Good(y, m) /\ Points(y)
    BY <2>1, PhaseIsGood, PhasedPoints DEF Phases, Whole
  <2>3. Whole(y)
    BY <2>1 DEF Whole, Fields
  <2> HIDE DEF y
  <2> QED
    BY <2>2, <2>3, PlayNextPoints
<1> HIDE DEF late, y
<1> QED
  BY <1>1, <1>2, <1>3 DEF IsOutgoing

LEMMA SwitchedPoints ==
  ASSUME NEW x, NEW m, Good(x, m), Whole(x), Followed(x), Untouched(x), Points(x), NEW t,
         NEW near
  PROVE  Points(HandleSwitched(x, t, near))
<1> DEFINE y == CommitTransition(x)
           z == [y EXCEPT !.phase = "Playing"]
<1>1. CASE x.pending = None \/ x.pending.token # t
  BY <1>1 DEF HandleSwitched
<1>2. CASE ~(x.pending = None \/ x.pending.token # t)
  <2>1. /\ Good(y, m) /\ y.intent = x.intent /\ y.pending = None /\ DOMAIN y = Fields
        /\ SameLoads(x, y) /\ (x.raced \/ Heads(y.queue, x.pending.key))
    BY <1>2, CommitIsGood, CommitEnds, CommitHeads DEF Whole, Untouched
  <2>2. GoodQueue(y.queue, Library)
    BY <1>2, CommitIsWhole DEF Firm, Whole
  <2> HIDE DEF y
  <2>3. x.raced \/ x.intent.kind = "Stopped" \/ x.intent.token = x.pending.token
    BY <1>2 DEF Good, Sane, Intended, Loading, Committed, Stopped, Taken
  <2>4. Points(y)
    BY <1>2, <2>1, <2>3, CommitPoints
  <2>5. Good(z, m) /\ z.intent = x.intent /\ Points(z) /\ (x.raced => z.raced)
    BY <2>1, <2>4, PhaseIsGood, PhasedPoints DEF Phases, SameLoads, Fields
  <2>6. GoodQueue(z.queue, Library)
    BY <2>1, <2>2 DEF Fields
  <2> HIDE DEF z
  <2>7. Given(x, x.pending.token)
    BY <1>2 DEF Good, Sane, Typed
  <2>8. mode = "gapless" => x.intent.token # 0 \/ x.raced
    BY <1>2, <2>7 DEF Good, Sane, Shaped, Intended, Typed, Loading, Committed, Given, Taken
  <2>9. Points(ArmGaplessNow(z, near))
    BY <2>5, <2>6, <2>8, ArmNowPoints
  <2> QED
    BY <1>2, <2>9 DEF HandleSwitched, y, z
<1> QED
  BY <1>1, <1>2

LEMMA ErrorPoints ==
  ASSUME NEW x, NEW v, NEW w, NEW k, Hears(x, v, w, k), k.type = "Error", Points(x)
  PROVE  Points(HandleError(x, k.token))
<1> DEFINE r == RevertTransition(x)
           y == [r EXCEPT !.armed = x.pending.from]
           t == k.token
<1>1. Good(x, mail) /\ DOMAIN x = Fields /\ ErrorIn(v, t)
  BY PoppedEvents, GoodGives DEF Hears
<1>2. Points(y)
  <2>1. Points(r) /\ DOMAIN r = Fields
    BY <1>1, RevertPoints, RevertSame DEF SameLoads
  <2> HIDE DEF r
  <2>2. Same(r, y)
    BY <2>1 DEF Same, SameLoads, Fields
  <2> HIDE DEF y
  <2> QED
    BY <2>1, <2>2, SamePoints
<1>3. Points(FailLoad(x, t))
  <2>1. ~x.raced /\ x.intent.token = t /\ IsLoading(x) /\ x.intent.deferred => x.pending # None
    BY <1>1 DEF Hears, Live, Claims, LateClaim
  <2> QED
    BY <1>1, <2>1, FailPoints DEF Good
<1> HIDE DEF y
<1> QED
  BY <1>2, <1>3 DEF HandleError, y

LEMMA EventPoints ==
  ASSUME NEW x, NEW v, NEW w, NEW k, Hears(x, v, w, k), Firm(x), Untouched(x),
         Points(x), Sensible(k), NEW near
  PROVE  Points(HandleEvent(x, k, near))
<1> DEFINE t == k.token
<1>1. Good(x, mail) /\ Whole(x) /\ Followed(x) /\ DOMAIN x = Fields /\ GoodQueue(x.queue, Library)
  BY DEF Hears, Firm, Whole
<1>2. Points(StopStale(x)) /\ \A phase : Points([x EXCEPT !.phase = phase])
  BY <1>1, StalePoints, PhasedPoints
<1>3. k.type = "PhaseChanged" /\ k.phase \in {"Playing", "Paused"} => Points(HandlePhase(x, k, near))
  <2> SUFFICES ASSUME k.type = "PhaseChanged", k.phase \in {"Playing", "Paused"}
               PROVE  Points(HandlePhase(x, k, near))
    OBVIOUS
  <2> DEFINE y == [x EXCEPT !.phase = k.phase]
  <2>1. Good(y, mail) /\ y.intent = x.intent /\ y.phase = k.phase
    BY <1>1, PhaseIsGood DEF Phases
  <2>2. GoodQueue(y.queue, Library) /\ Points(y)
    BY <1>1, <1>2 DEF Fields
  <2> HIDE DEF y
  <2>3. k.token = x.intent.token => Points(ArmGaplessNow(y, near))
    BY <2>1, <2>2, ArmNowPoints DEF Sensible
  <2> QED
    BY <1>2, <2>3 DEF HandlePhase, y
<1>4. Points(HandleEnded(x, t)) /\ Points(HandleSwitched(x, t, near))
  BY <1>1, EndedPoints, SwitchedPoints
<1>5. k.type = "Error" => Points(HandleError(x, t))
  BY ErrorPoints
<1>6. k.type = "Position" => Points(HandlePosition(x, t))
  BY <1>1, ArmPoints DEF HandlePosition, ShouldArm, Sensible
<1> QED
  BY <1>2, <1>3, <1>4, <1>5, <1>6 DEF HandleEvent

PointNow == Points(s)

\* What a handler sent leaves the pointer alone.
LEMMA HandledPoints ==
  ASSUME NEW x, DOMAIN x = Fields, Points(x), Handled(x)
  PROVE  PointNow'
<1>1. s' = [x EXCEPT !.out = <<>>]
  BY DEF Handled
<1>2. Same(x, s')
  BY <1>1 DEF Same, SameLoads, Fields
<1>3. Points(s')
  BY <1>2, SamePoints
<1> QED
  BY <1>3 DEF PointNow, Points, Counts, Heads

LEMMA SessionPoints ==
  ASSUME Inv, FirmInv, LiveNow, PointNow, Client \/ HandleOneMail \/ HandleOneEvent
  PROVE  PointNow'
<1>1. /\ Good(s, mail) /\ Firm(s) /\ Untouched(s) /\ To(s) = sent /\ Points(s)
      /\ events \in Seq(ToSet(events)) /\ mail \in Seq(ToSet(mail))
      /\ Live(s, mail, To(s), engine, events)
  BY InvGives DEF FirmInv, LiveNow, PointNow, Untouched, Live, Orderly
<1>2. CASE Client
  <2>1. PICK c \in IF Unhurried THEN Commands ELSE Hasty, near \in BOOLEAN :
           \E x \in Asked(s, c, near) : Handled(x)
    BY <1>2 DEF Client
  <2>2. PICK x \in Asked(s, c, near) : Handled(x)
    BY <2>1
  <2>3. c \in Requests \cup Edits /\ (c = "Play" => s.pending = None \/ "Play" \in Hasty)
    BY PlaybackBounds DEF Unhurried
  <2>4. Before(s, SessionToken(engine))
    BY DEF Inv, Good, Sane, Fresh, EngineTyped, SessionToken
  <2>5. Good(x, mail)
    BY <2>3, <2>4, AskedIsGood DEF Inv
  <2>6. Points(x)
    BY <1>1, <2>2, <2>3, AskedPoints
  <2> QED
    BY <2>2, <2>5, <2>6, GoodGives, HandledPoints
<1>3. CASE HandleOneMail
  <2>1. PICK near \in BOOLEAN : Handled(HandleMail(s, Head(mail), near))
    BY <1>3 DEF HandleOneMail
  <2>2. mail # <<>>
    BY <1>3 DEF HandleOneMail
  <2>3. Opened(s, Tail(mail), Head(mail))
    BY <1>1, <2>2, FirstMail
  <2>4. Good(HandleMail(s, Head(mail), near), Tail(mail))
    BY <2>3, MailIsGood
  <2>5. Unpacked(s, mail, Tail(mail), Head(mail), events)
    BY <1>1, <2>2, <2>3, TailIsPopped DEF Unpacked
  <2>6. Points(HandleMail(s, Head(mail), near))
    BY <1>1, <2>5, MailPoints
  <2> QED
    BY <2>1, <2>4, <2>6, GoodGives, HandledPoints
<1>4. CASE HandleOneEvent
  <2>1. PICK near \in BOOLEAN : Handled(HandleEvent(s, Head(events), near))
    BY <1>4 DEF HandleOneEvent
  <2>2. events # <<>>
    BY <1>4 DEF HandleOneEvent
  <2>3. Popped(events, Tail(events), Head(events))
    BY <1>1, <2>2, TailIsPopped
  <2>4. Sensible(Head(events))
    <3>1. \A i \in DOMAIN events : Sensible(events[i])
      BY DEF Inv, Heard
    <3> QED
      BY <2>3, <3>1 DEF Popped
  <2>5. Good(HandleEvent(s, Head(events), near), mail)
    BY <2>4, EventIsGood DEF Inv
  <2>6. Hears(s, events, Tail(events), Head(events))
    BY <1>1, <2>3 DEF Hears
  <2>7. Points(HandleEvent(s, Head(events), near))
    BY <1>1, <2>4, <2>6, EventPoints
  <2> QED
    BY <2>1, <2>5, <2>7, GoodGives, HandledPoints
<1> QED
  BY <1>2, <1>3, <1>4

\* The engine and the load task move nothing but the task, and the mark of a race.
LEMMA ElsewherePoints ==
  ASSUME PointNow, NEW x, Same(s, x), s' = x \/ s' = [x EXCEPT !.task = None]
  PROVE  PointNow'
<1>1. Same(s, s')
  BY DEF Same, SameLoads, Fields
<1>2. Points(s')
  BY <1>1, SamePoints DEF PointNow
<1> QED
  BY <1>2 DEF PointNow, Points, Counts, Heads

LEMMA RacedSame ==
  ASSUME DOMAIN s = Fields, NEW race, s.raced => race
  PROVE  Same(s, [s EXCEPT !.raced = race]) /\ Same(s, s)
  BY DEF Same, SameLoads, Fields

LEMMA EnginePoints == ASSUME DOMAIN s = Fields, PointNow, EngineActs PROVE PointNow'
<1>1. ASSUME NEW x, Same(s, x), NEW r, EngineSteps(x, r) PROVE PointNow'
  BY <1>1, ElsewherePoints DEF EngineSteps
<1>2. CASE EngineTakesCommand
  <2> DEFINE race == s.raced \/ Surprises(Head(sent))
  <2>1. EngineSteps([s EXCEPT !.raced = race], Commanded(engine, Head(sent)))
    BY <1>2 DEF EngineTakesCommand
  <2>2. s.raced => race
    OBVIOUS
  <2> HIDE DEF race
  <2> QED
    BY <1>1, <2>1, <2>2, RacedSame
<1>3. ASSUME NEW r, EngineMoves(r) PROVE PointNow'
  <2>1. EngineSteps(s, r) /\ Same(s, s)
    BY <1>3 DEF EngineMoves, Same, SameLoads
  <2> QED
    BY <1>1, <2>1
<1>4. CASE EngineStarts \/ EngineLoadFails \/ EngineEnds \/ EngineSwitches
  BY <1>3, <1>4 DEF EngineStarts, EngineLoadFails, EngineEnds, EngineSwitches
<1>5. ASSUME NEW kind, NEW race, s.raced => race, NEW r,
             Trouble(kind, [s EXCEPT !.raced = race], r)
      PROVE  PointNow'
  BY <1>1, <1>5, RacedSame DEF Trouble
<1>6. CASE EngineRebuilds
  <2> DEFINE race == s.raced \/ (engine.next # 0 /\ ~QueuedKnown)
                       \/ (engine.cur # None /\ engine.cur.ended)
  <2>1. PICK hold \in BOOLEAN :
           Trouble("rebuild", [s EXCEPT !.raced = race], Rebuilds(engine, hold))
    BY <1>6 DEF EngineRebuilds
  <2>2. s.raced => race
    OBVIOUS
  <2> HIDE DEF race
  <2> QED
    BY <1>5, <2>1, <2>2
<1>7. CASE EngineLosesOutput \/ EngineWorkerFails
  <2> DEFINE race == s.raced \/ UnderWay
             cut == IF IsLoading(s) /\ engine.pend # None
                    THEN Crossed.forsaken \cup {engine.pend.token} ELSE Crossed.forsaken
  <2>1. Crossed = [s EXCEPT !.raced = race] /\ (s.raced => race)
    BY DEF Crossed
  <2>2. Cut = [Crossed EXCEPT !.forsaken = cut]
    BY <2>1 DEF Cut, Fields
  <2> HIDE DEF race, cut
  <2>3. Same(s, Crossed)
    BY <2>1, RacedSame
  <2>4. Same(s, Cut)
    BY <2>2, <2>3 DEF Same, SameLoads, Fields
  <2>5. \/ EngineSteps(Cut, OutputLost(engine))
        \/ \E t \in Playing(engine) : EngineSteps(Crossed, Fails(engine, t))
    BY <1>7 DEF EngineLosesOutput, EngineWorkerFails, Trouble
  <2> QED
    BY <1>1, <2>3, <2>4, <2>5
<1>8. CASE EnginePosition
  BY <1>8 DEF EnginePosition, PointNow, Points, Counts, Heads
<1> QED
  BY <1>2, <1>4, <1>6, <1>7, <1>8 DEF EngineActs

LEMMA TaskPoints == ASSUME DOMAIN s = Fields, PointNow, TaskPrepares PROVE PointNow'
<1>1. Same(s, s) /\ s' = [s EXCEPT !.task = None]
  BY DEF TaskPrepares, Same, SameLoads
<1> QED
  BY <1>1, ElsewherePoints

LEMMA BeginsPointing == Init => PointNow
<1> SUFFICES ASSUME Init PROVE PointNow
  OBVIOUS
<1>1. /\ s.pending = None /\ s.intent.kind = "Stopped"
      /\ DOMAIN s.trackOf = 1 .. MaxToken + 1
  BY DEF Init, Stopped
<1> QED
  BY <1>1 DEF PointNow, Points

LEMMA NextPoints ==
  ASSUME Inv, FirmInv, LiveNow, PointNow, [Next]_vars
  PROVE  PointNow'
<1>1. DOMAIN s = Fields
  BY InvGives
<1>2. CASE Next
  BY <1>1, <1>2, SessionPoints, EnginePoints, TaskPoints DEF Next
<1>3. CASE UNCHANGED vars
  BY <1>3 DEF vars, PointNow, Points, Counts, Heads
<1> QED
  BY <1>2, <1>3

LEMMA PointerAgrees == ASSUME Inv, PointNow PROVE PointerFollows
<1> SUFFICES ASSUME s.intent.kind # "Stopped", ~s.raced
             PROVE  CurrentTrack(s.queue) = s.trackOf[IF s.pending = None THEN s.intent.token
                                                                        ELSE s.pending.from]
  BY DEF PointerFollows
<1>1. Counts(s)
  BY DEF Inv, Counts
<1>2. Heads(s.queue, s.trackOf[IF s.pending = None THEN s.intent.token ELSE s.pending.from])
  BY <1>1 DEF PointNow, Points
<1> QED
  BY <1>2 DEF Heads, CurrentTrack, TrackOrGone

\* The queue points at the track of the session intended, and at the outgoing
\* one while a transition is under way, through every edit, revert, failure and
\* late answer, unless two moves crossed.
THEOREM PointerStays == Spec => []PointerFollows
<1>1. Inv /\ FirmInv /\ LiveNow /\ [Next]_vars => LiveNow'
  BY NextIsLive
<1>2. Inv /\ FirmInv /\ LiveNow /\ PointNow /\ [Next]_vars => PointNow'
  BY NextPoints
<1>3. Inv /\ PointNow => PointerFollows
  BY PointerAgrees
<1> QED
  BY BeginsLive, BeginsPointing, InvHolds, FirmHolds, <1>1, <1>2, <1>3, PTL DEF Spec

==============================================================================

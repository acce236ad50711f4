-------------------------- MODULE PlaybackTheorems --------------------------
(***************************************************************************)
(* What is proved about the session for every queue, setting and bound,    *)
(* whatever is pressed when: that an armed transition is what the session  *)
(* intends (TransitionIsIntended), that no load but a forsaken one is left *)
(* hanging (LoadSettles), that a track readied for a gapless switch is the *)
(* next one (GaplessIsNext), and that the armed position is that of the    *)
(* track being loaded (TargetFollowed); and, as long as Play is not        *)
(* pressed with a load or a transition under way, the types (TypeOK).      *)
(*                                                                         *)
(* The handlers keep four fields together: intent, pending, task and       *)
(* nextToken.  The first invariant (Inv) adds to the properties            *)
(*   - that every load has one task or one message in the mail, never      *)
(*     both, and that a transition which has left its Loading stage has    *)
(*     neither (OnePlace): without that a second answer could fail a       *)
(*     transition that is already queued;                                  *)
(*   - that the engine has not heard of a load before the session sends it *)
(*     (Fresh), so that no answer is about another load of the same token; *)
(*   - where the load that is waited for is (Somewhere): with the task, in *)
(*     the mail, on its way to the engine or pending there, and then with  *)
(*     no command behind it that would drop it; or that it is forsaken.    *)
(* A transition Play took the intent from (Taken) is carried along: it may *)
(* even be left by a session nobody intended, so that the next one would   *)
(* start from none (Session).  That is why the types are proved without.   *)
(* The second (FirmInv) ties the armed position to the queue.  It needs    *)
(* the queue to be one that QueueTheorems speaks of, and of every edit     *)
(* that the entry at the armed position is found again at the position it  *)
(* is remapped to (StillThere).                                            *)
(***************************************************************************)
EXTENDS Playback, QueueTheorems

Fields == {"queue", "intent", "pending", "armed", "phase", "nextToken", "task",
           "trackOf", "out", "raced", "forsaken"}
PendingFields == {"to", "key", "token", "from", "stage", "gapless", "amid"}
Shaped(x) == /\ DOMAIN x = Fields /\ (x.raced \/ x.forsaken = {})
             /\ x.pending # None => /\ DOMAIN x.pending = PendingFields
                                    /\ x.pending.stage \in {"Loading", "Fading", "Queued"}

\* A transition is the intent, unless Play took the intent from it: nobody waits
\* for its load then.
Taken(x) == x.raced /\ "Play" \in Hasty
Intended(x) ==
    x.pending # None =>
        \/ x.intent = IF x.pending.stage = "Loading"
                      THEN Loading(x.pending.token, TRUE, x.pending.from)
                      ELSE Committed(x.pending.token)
        \/ x.intent = Stopped /\ x.pending.stage = "Fading"
        \/ /\ Taken(x) /\ "Play" \in x.pending.amid
           /\ x.pending.stage = "Loading" => x.pending.token \in x.forsaken

Past(x) == x.pending # None /\ x.pending.stage # "Loading"

\* Nothing that is under way is about token t.
Answered(x, m, t) == /\ \A i \in DOMAIN m : m[i].token # t
                     /\ x.task # None => x.task.token # t

\* A load fades in crossfade mode only: with a fade, and with nothing else, the
\* session moves to an incoming session that can still fail before it is heard.
Fades(transition) == /\ transition \in Transitions
                     /\ transition = "crossfade" => mode = "crossfade"

\* Loads under way have tokens of the past, and each is in one place; the task
\* is that of the load that is intended.
Given(x, t) == t \in Nat /\ 0 < t /\ t < x.nextToken
OnePlace(x, m) ==
    /\ x.nextToken \in Nat /\ 0 < x.nextToken
    /\ x.task # None => /\ Given(x, x.task.token) /\ Fades(x.task.transition)
                        /\ IsLoading(x) => \/ x.task.token = x.intent.token
                                           \/ x.intent.token \in x.forsaken
    /\ \A i \in DOMAIN m : /\ m[i].type \in {"LoadPrepared", "PrepareFailed", "LoadFinished"}
                           /\ Given(x, m[i].token)
                           /\ x.task # None => x.task.token # m[i].token
                           /\ \A j \in DOMAIN m : m[i].token = m[j].token => i = j
                           /\ m[i].type = "LoadPrepared" => Fades(m[i].transition)
                           /\ m[i].type = "LoadFinished" /\ m[i].result = "crossfaded"
                                 => mode = "crossfade"

Phases == {"Idle", "Playing", "Paused", "Ended"}
Before(x, t) == t \in Nat /\ t < x.nextToken
\* A transition nobody intends may be heard with no session intended: the next
\* one then starts from none.
Session(x, t) == Given(x, t) \/ (t = 0 /\ Taken(x))
Typed(x) ==
    /\ x.phase \in Phases /\ Before(x, x.armed)
    /\ \/ x.intent = Stopped
       \/ Session(x, x.intent.token) /\ x.intent = Committed(x.intent.token)
       \/ /\ Given(x, x.intent.token) /\ Before(x, x.intent.from)
          /\ x.intent.deferred \in BOOLEAN /\ (x.intent.deferred => Session(x, x.intent.from))
          /\ x.intent = Loading(x.intent.token, x.intent.deferred, x.intent.from)
    /\ x.pending # None => /\ Given(x, x.pending.token) /\ Session(x, x.pending.from)
                           /\ x.pending.stage = "Fading" => mode = "crossfade"

\* Commands that leave the pending load alone, and those that are no loads.
Tame == {"Pause", "Resume", "Seek"}
Others == Tame \cup {"Cancel", "Stop"}

\* The engine knows of a load only once the session has sent it, and each load
\* is sent once.
To(x) == sent \o x.out
Unsaid(x, m, t) == \/ x.task # None /\ x.task.token = t /\ x.task.stage = "prepare"
                   \/ \E i \in DOMAIN m : m[i].token = t /\ m[i].type = "LoadPrepared"
Known(x, m, t) == Given(x, t) /\ ~Unsaid(x, m, t)
FreshIn(x, m, c) ==
    /\ \A i \in DOMAIN c : c[i].op \in Others \cup {"Load"}
    /\ \A i \in DOMAIN c : c[i].op = "Load" =>
          /\ Known(x, m, c[i].token) /\ Fades(c[i].transition)
          /\ engine.pend # None => engine.pend.token # c[i].token
          /\ \A j \in DOMAIN c : c[j].op = "Load" /\ c[j].token = c[i].token => i = j
    /\ engine.pend # None => Known(x, m, engine.pend.token) /\ Fades(engine.pend.transition)
EngineFields == {"cur", "fade", "next", "pend", "held", "last"}
EngineTyped(e, x) ==
    /\ DOMAIN e = EngineFields
    /\ Before(x, e.fade) /\ Before(x, e.next) /\ Before(x, e.last)
    /\ e.cur # None => /\ DOMAIN e.cur = {"token", "ended"}
                       /\ e.cur.token = e.last /\ e.last # 0
Fresh(x, m) == /\ sent \in Seq(ToSet(sent)) /\ x.out \in Seq(ToSet(x.out))
               /\ FreshIn(x, m, To(x)) /\ EngineTyped(engine, x)

\* Where the load that is waited for is.
Coming(x, m, t) ==
    \/ x.task # None /\ x.task.token = t /\ x.task.stage = "prepare"
    \/ \E i \in DOMAIN m : /\ m[i].token = t
                           /\ m[i].type = "LoadFinished" => m[i].result # "dropped"
Standing(c, t) == \E i \in DOMAIN c : /\ c[i].op = "Load" /\ c[i].token = t
                                      /\ \A j \in DOMAIN c : j > i => c[j].op \in Tame
Held(c, t) == /\ engine.pend # None /\ engine.pend.token = t
              /\ \A i \in DOMAIN c : c[i].op \in Tame
SentFor(x, c, t) == /\ x.task # None /\ x.task.token = t /\ x.task.stage = "reply"
                    /\ Standing(c, t) \/ Held(c, t)
Somewhere(x, m) == IsLoading(x) => \/ x.intent.token \in x.forsaken
                                   \/ Coming(x, m, x.intent.token)
                                   \/ SentFor(x, To(x), x.intent.token)

Sane(x, m) == /\ Shaped(x) /\ Intended(x) /\ Typed(x)
              /\ m \in Seq(ToSet(m)) /\ OnePlace(x, m)
              /\ Past(x) => Answered(x, m, x.pending.token)
              /\ Fresh(x, m)
Good(x, m) == Sane(x, m) /\ Somewhere(x, m)

-----------------------------------------------------------------------------
(* Sequences: the mail, and the commands a handler adds.                     *)

LEMMA OwnElements == ASSUME NEW S, NEW q \in Seq(S) PROVE q \in Seq(ToSet(q))
<1>1. \A i \in 1 .. Len(q) : q[i] \in ToSet(q)
  BY DEF ToSet
<1>2. Len(q) \in Nat /\ q = [i \in 1 .. Len(q) |-> q[i]]
  OBVIOUS
<1> QED
  BY <1>1, <1>2

LEMMA AppendMail ==
  ASSUME NEW m, m \in Seq(ToSet(m)), NEW e
  PROVE  /\ Append(m, e) \in Seq(ToSet(Append(m, e)))
         /\ Len(m) \in Nat
         /\ Len(Append(m, e)) = Len(m) + 1
         /\ DOMAIN Append(m, e) = 1 .. Len(m) + 1
         /\ DOMAIN m = 1 .. Len(m)
         /\ \A i \in 1 .. Len(m) : Append(m, e)[i] = m[i]
         /\ Append(m, e)[Len(m) + 1] = e
<1> DEFINE S == ToSet(m) \cup {e}
<1>1. m \in Seq(S)
  OBVIOUS
<1>2. Append(m, e) \in Seq(S) /\ Len(Append(m, e)) = Len(m) + 1
  BY <1>1
<1>3. \A i \in 1 .. Len(m) : Append(m, e)[i] = m[i]
  BY <1>1
<1>4. Append(m, e)[Len(m) + 1] = e
  BY <1>1
<1>5. DOMAIN Append(m, e) = 1 .. Len(m) + 1 /\ DOMAIN m = 1 .. Len(m) /\ Len(m) \in Nat
  BY <1>1, <1>2
<1>6. Append(m, e) \in Seq(ToSet(Append(m, e)))
  BY <1>2, <1>5, OwnElements
<1> QED
  BY <1>2, <1>3, <1>4, <1>5, <1>6

LEMMA TailMail ==
  ASSUME NEW m, m \in Seq(ToSet(m)), m # <<>>
  PROVE  /\ Tail(m) \in Seq(ToSet(Tail(m)))
         /\ Len(m) \in Nat /\ Len(m) > 0
         /\ DOMAIN m = 1 .. Len(m)
         /\ DOMAIN Tail(m) = 1 .. Len(m) - 1
         /\ \A i \in 1 .. Len(m) - 1 : Tail(m)[i] = m[i + 1]
         /\ Head(m) = m[1]
<1>1. Tail(m) \in Seq(ToSet(m)) /\ Len(Tail(m)) = Len(m) - 1 /\ Len(m) > 0
  OBVIOUS
<1>2. \A i \in 1 .. Len(m) - 1 : Tail(m)[i] = m[i + 1]
  OBVIOUS
<1>3. Tail(m) \in Seq(ToSet(Tail(m)))
  BY <1>1, OwnElements
<1>4. DOMAIN Tail(m) = 1 .. Len(m) - 1 /\ DOMAIN m = 1 .. Len(m) /\ Len(m) \in Nat
  BY <1>1
<1> QED
  BY <1>1, <1>2, <1>3, <1>4

\* b is a with commands of the kinds ops after it.
More(a, b, ops) == /\ a \in Seq(ToSet(a)) /\ b \in Seq(ToSet(b)) /\ Len(a) <= Len(b)
                   /\ \A i \in 1 .. Len(a) : b[i] = a[i]
                   /\ \A i \in Len(a) + 1 .. Len(b) : b[i].op \in ops

LEMMA MoreSelf == ASSUME NEW a, a \in Seq(ToSet(a)), NEW ops PROVE More(a, a, ops)
<1>1. Len(a) \in Nat
  OBVIOUS
<1> QED
  BY <1>1 DEF More

LEMMA MoreAppend ==
  ASSUME NEW a, NEW b, NEW ops, More(a, b, ops), NEW k, k.op \in ops
  PROVE  More(a, Append(b, k), ops)
<1>1. /\ Append(b, k) \in Seq(ToSet(Append(b, k))) /\ Len(b) \in Nat
      /\ Len(Append(b, k)) = Len(b) + 1
      /\ \A i \in 1 .. Len(b) : Append(b, k)[i] = b[i]
      /\ Append(b, k)[Len(b) + 1] = k
  BY AppendMail DEF More
<1>2. a \in Seq(ToSet(a)) => Len(a) \in Nat
  OBVIOUS
<1> QED
  BY <1>1, <1>2 DEF More

LEMMA MoreAfter ==
  ASSUME NEW a, NEW b, NEW c, NEW ops, More(a, b, ops), More(b, c, ops)
  PROVE  More(a, c, ops)
<1>1. /\ a \in Seq(ToSet(a)) => Len(a) \in Nat
      /\ b \in Seq(ToSet(b)) => Len(b) \in Nat
      /\ c \in Seq(ToSet(c)) => Len(c) \in Nat
  OBVIOUS
<1> QED
  BY <1>1 DEF More

LEMMA MoreWide ==
  ASSUME NEW a, NEW b, More(a, b, Tame)
  PROVE  More(a, b, Others)
  BY DEF More, Others

LEMMA Concat ==
  ASSUME NEW a, NEW b, a \in Seq(ToSet(a)), b \in Seq(ToSet(b))
  PROVE  /\ a \o b \in Seq(ToSet(a \o b))
         /\ Len(a) \in Nat /\ Len(b) \in Nat
         /\ Len(a \o b) = Len(a) + Len(b)
         /\ DOMAIN (a \o b) = 1 .. Len(a) + Len(b)
         /\ \A i \in 1 .. Len(a) : (a \o b)[i] = a[i]
         /\ \A i \in Len(a) + 1 .. Len(a) + Len(b) : (a \o b)[i] = b[i - Len(a)]
<1> DEFINE S == ToSet(a) \cup ToSet(b)
<1>1. a \in Seq(S) /\ b \in Seq(S)
  OBVIOUS
<1> HIDE DEF S
<1>2. a \o b \in Seq(S) /\ Len(a \o b) = Len(a) + Len(b) /\ Len(a) \in Nat /\ Len(b) \in Nat
  BY <1>1
<1>3. a \o b \in Seq(ToSet(a \o b))
  BY <1>2, OwnElements
<1>4. DOMAIN (a \o b) = 1 .. Len(a) + Len(b)
  BY <1>2
<1>5. \A i \in 1 .. Len(a) : (a \o b)[i] = a[i]
  BY <1>1
<1>6. \A i \in Len(a) + 1 .. Len(a) + Len(b) : (a \o b)[i] = b[i - Len(a)]
  BY <1>1
<1> QED
  BY <1>2, <1>3, <1>4, <1>5, <1>6

LEMMA MoreConcat ==
  ASSUME NEW c, c \in Seq(ToSet(c)), NEW a, NEW b, NEW ops, More(a, b, ops)
  PROVE  More(c \o a, c \o b, ops)
<1>1. /\ c \o a \in Seq(ToSet(c \o a)) /\ Len(c) \in Nat /\ Len(a) \in Nat
      /\ Len(c \o a) = Len(c) + Len(a)
      /\ \A i \in 1 .. Len(c) : (c \o a)[i] = c[i]
      /\ \A i \in Len(c) + 1 .. Len(c) + Len(a) : (c \o a)[i] = a[i - Len(c)]
  BY Concat DEF More
<1>2. /\ c \o b \in Seq(ToSet(c \o b)) /\ Len(b) \in Nat
      /\ Len(c \o b) = Len(c) + Len(b)
      /\ \A i \in 1 .. Len(c) : (c \o b)[i] = c[i]
      /\ \A i \in Len(c) + 1 .. Len(c) + Len(b) : (c \o b)[i] = b[i - Len(c)]
  BY Concat DEF More
<1> HIDE DEF ToSet
<1>3. \A i \in 1 .. Len(c) + Len(a) : (c \o b)[i] = (c \o a)[i]
  <2> TAKE i \in 1 .. Len(c) + Len(a)
  <2>1. CASE i <= Len(c)
    BY <1>1, <1>2, <2>1
  <2>2. CASE i > Len(c)
    <3>1. i - Len(c) \in 1 .. Len(a) /\ i \in Len(c) + 1 .. Len(c) + Len(b)
      BY <1>1, <1>2, <2>2 DEF More
    <3> QED
      BY <1>1, <1>2, <2>2, <3>1 DEF More
  <2>3. i <= Len(c) \/ i > Len(c)
    BY <1>1
  <2> QED
    BY <2>1, <2>2, <2>3
<1>4. \A i \in Len(c) + Len(a) + 1 .. Len(c) + Len(b) : (c \o b)[i].op \in ops
  <2> TAKE i \in Len(c) + Len(a) + 1 .. Len(c) + Len(b)
  <2>1. i - Len(c) \in Len(a) + 1 .. Len(b) /\ i \in Len(c) + 1 .. Len(c) + Len(b)
    BY <1>1, <1>2
  <2> QED
    BY <1>2, <2>1 DEF More
<1>5. Len(a) <= Len(b)
  BY DEF More
<1> QED
  BY <1>1, <1>2, <1>3, <1>4, <1>5 DEF More

-----------------------------------------------------------------------------
(* What a handler may do.                                                    *)

\* Commands that are no loads are added, and no token is readied for the
\* engine that is not new.
LEMMA StaysFresh ==
  ASSUME NEW x, NEW y, NEW m, Fresh(x, m), More(x.out, y.out, Others),
         x.nextToken \in Nat, y.nextToken \in Nat, x.nextToken <= y.nextToken,
         y.task = x.task \/ y.task = None
            \/ (y.task.token \notin 1 .. x.nextToken - 1 \/ y.task.stage # "prepare")
  PROVE  Fresh(y, m)
<1>1. More(To(x), To(y), Others)
  BY MoreConcat DEF Fresh, To
<1>2. /\ Len(To(x)) \in Nat /\ DOMAIN To(x) = 1 .. Len(To(x))
      /\ Len(To(y)) \in Nat /\ DOMAIN To(y) = 1 .. Len(To(y))
  BY <1>1 DEF More
<1>3. \A t : Known(x, m, t) => Known(y, m, t)
  BY DEF Known, Given, Unsaid
<1>4. \A i \in DOMAIN To(y) : To(y)[i].op = "Load" => i \in DOMAIN To(x) /\ To(y)[i] = To(x)[i]
  <2> TAKE i \in DOMAIN To(y)
  <2>1. i \in Len(To(x)) + 1 .. Len(To(y)) => To(y)[i].op \in Others
    BY <1>1 DEF More
  <2>2. i \in 1 .. Len(To(x)) => To(y)[i] = To(x)[i]
    BY <1>1 DEF More
  <2>3. i \in 1 .. Len(To(x)) \/ i \in Len(To(x)) + 1 .. Len(To(y))
    BY <1>2
  <2> QED
    BY <1>2, <2>1, <2>2, <2>3 DEF Others, Tame
<1>5. \A i \in DOMAIN To(y) : To(y)[i].op \in Others \cup {"Load"}
  BY <1>1, <1>2 DEF Fresh, FreshIn, More
<1>6. FreshIn(y, m, To(y))
  BY <1>3, <1>4, <1>5 DEF Fresh, FreshIn
<1>7. EngineTyped(engine, y)
  BY DEF Fresh, EngineTyped, Before
<1> QED
  BY <1>6, <1>7 DEF Fresh, More

LEMMA SameIsFresh ==
  ASSUME NEW x, NEW y, NEW m, Fresh(x, m), x.nextToken \in Nat,
         y.out = x.out, y.nextToken = x.nextToken, y.task = x.task
  PROVE  Fresh(y, m)
<1>1. More(x.out, y.out, Others)
  BY MoreSelf DEF Fresh
<1> QED
  BY <1>1, StaysFresh

LEMMA StaysSent ==
  ASSUME NEW x, NEW y, NEW m, Fresh(x, m), More(x.out, y.out, Tame), NEW t,
         SentFor(x, To(x), t), y.task = x.task
  PROVE  SentFor(y, To(y), t)
<1>1. More(To(x), To(y), Tame)
  BY MoreConcat DEF Fresh, To
<1>2. /\ Len(To(x)) \in Nat /\ DOMAIN To(x) = 1 .. Len(To(x))
      /\ Len(To(y)) \in Nat /\ DOMAIN To(y) = 1 .. Len(To(y))
  BY <1>1 DEF More
<1>3. \A i \in DOMAIN To(y) : \/ i \in DOMAIN To(x) /\ To(y)[i] = To(x)[i]
                              \/ i \notin DOMAIN To(x) /\ To(y)[i].op \in Tame
  BY <1>1, <1>2 DEF More
<1>4. \A i \in DOMAIN To(x) : i \in DOMAIN To(y) /\ To(y)[i] = To(x)[i]
  BY <1>1, <1>2 DEF More
<1>5. ASSUME Standing(To(x), t) PROVE Standing(To(y), t)
  <2>1. PICK i \in DOMAIN To(x) : /\ To(x)[i].op = "Load" /\ To(x)[i].token = t
                                  /\ \A j \in DOMAIN To(x) : j > i => To(x)[j].op \in Tame
    BY <1>5 DEF Standing
  <2>2. \A j \in DOMAIN To(y) : j > i => To(y)[j].op \in Tame
    BY <1>3, <2>1
  <2> QED
    BY <1>4, <2>1, <2>2 DEF Standing
<1>6. Held(To(x), t) => Held(To(y), t)
  BY <1>3 DEF Held
<1> QED
  BY <1>5, <1>6 DEF SentFor

\* What was undone, and the loads nobody waits for, stay so.
Marks(x, y) == /\ x.raced => y.raced
               /\ x.forsaken \subseteq y.forsaken /\ (y.raced \/ y.forsaken = x.forsaken)

\* It leaves the fields alone.  A command that drops the load it waits for is
\* sent only with the load not yet sent, or the load is forsaken.
LEMMA KeepsSane ==
  ASSUME NEW x, NEW y, NEW m, Sane(x, m), DOMAIN y = Fields,
         y.pending = x.pending, y.intent = x.intent, y.nextToken = x.nextToken,
         y.task = x.task \/ y.task = None,
         y.phase \in Phases, Before(x, y.armed), More(x.out, y.out, Others), Marks(x, y)
  PROVE  Sane(y, m)
<1>1. Fresh(y, m)
  BY StaysFresh DEF Sane, OnePlace
<1>2. Shaped(y) /\ Intended(y)
  BY DEF Sane, Shaped, Intended, Taken, Marks
<1>3. Typed(y)
  BY DEF Sane, Typed, Before, Given, Session, Taken, Marks
<1>4. OnePlace(y, m) /\ (Past(y) => Answered(y, m, y.pending.token))
  BY DEF Sane, OnePlace, Given, IsLoading, Past, Answered, Marks
<1> QED
  BY <1>1, <1>2, <1>3, <1>4 DEF Sane

LEMMA KeepsGood ==
  ASSUME NEW x, NEW y, NEW m, Good(x, m), DOMAIN y = Fields,
         y.pending = x.pending, y.intent = x.intent, y.nextToken = x.nextToken,
         y.task = x.task, y.phase \in Phases, Before(x, y.armed),
         More(x.out, y.out, Others), Marks(x, y),
         \/ More(x.out, y.out, Tame) \/ x.intent.token \in y.forsaken
         \/ ~IsLoading(x) \/ Coming(x, m, x.intent.token)
  PROVE  Good(y, m)
<1>1. Sane(y, m)
  BY KeepsSane DEF Good
<1>2. Coming(x, m, x.intent.token) => Coming(y, m, y.intent.token)
  BY DEF Coming
<1>3. More(x.out, y.out, Tame) /\ SentFor(x, To(x), x.intent.token)
         => SentFor(y, To(y), y.intent.token)
  BY StaysSent DEF Good, Sane
<1> QED
  BY <1>1, <1>2, <1>3 DEF Good, Somewhere, IsLoading, Marks

\* It ends the transition, and waits for no load.
LEMMA EndsGood ==
  ASSUME NEW x, NEW y, NEW m, Sane(x, m), DOMAIN y = Fields,
         y.pending = None, y.nextToken = x.nextToken,
         y.task = x.task \/ y.task = None,
         y.phase \in Phases, Before(x, y.armed), More(x.out, y.out, Others), x.raced => y.raced,
         y.forsaken = x.forsaken,
         \/ y.intent = Stopped
         \/ \E t : Session(x, t) /\ y.intent = Committed(t)
  PROVE  Good(y, m)
<1>1. Fresh(y, m)
  BY StaysFresh DEF Sane, OnePlace
<1>2. ~IsLoading(y)
  <2>1. ASSUME NEW t, y.intent = Committed(t) PROVE ~IsLoading(y)
    BY <2>1 DEF IsLoading, Committed
  <2>2. y.intent = Stopped => ~IsLoading(y)
    BY DEF IsLoading, Stopped
  <2> QED
    BY <2>1, <2>2
<1>5. Typed(y)
  <2>1. ASSUME NEW t, Session(x, t), y.intent = Committed(t)
        PROVE  Session(y, y.intent.token) /\ y.intent = Committed(y.intent.token)
    BY <2>1 DEF Session, Taken, Given, Committed
  <2> QED
    BY <2>1 DEF Typed, Before
<1>3. Shaped(y) /\ Intended(y) /\ ~Past(y)
  BY DEF Sane, Shaped, Intended, Past
<1>4. OnePlace(y, m)
  BY <1>2 DEF Sane, OnePlace, Given
<1> QED
  BY <1>1, <1>2, <1>3, <1>4, <1>5 DEF Good, Sane, Somewhere

\* It starts a load: a new task, of the next token.
LEMMA LoadsGood ==
  ASSUME NEW x, NEW y, NEW m, Sane(x, m), Shaped(y), Intended(y), ~Past(y), Typed(y),
         y.nextToken = x.nextToken + 1, y.task # None, y.task.token = x.nextToken,
         y.task.stage = "prepare", Fades(y.task.transition),
         y.intent.token = x.nextToken, More(x.out, y.out, Others)
  PROVE  Good(y, m)
<1>1. Fresh(y, m)
  BY StaysFresh DEF Sane, OnePlace
<1>2. OnePlace(y, m)
  BY DEF Sane, OnePlace, Given
<1>3. Somewhere(y, m)
  BY DEF Somewhere, Coming
<1> QED
  BY <1>1, <1>2, <1>3 DEF Good, Sane

LEMMA IntentTypes ==
  ASSUME NEW x, Typed(x)
  PROVE  /\ IsLoading(x) => /\ Given(x, x.intent.token) /\ Before(x, x.intent.from)
                            /\ x.intent.deferred => Session(x, x.intent.from)
         /\ x.nextToken \in Nat /\ 0 < x.nextToken => Before(x, x.intent.token)
<1>1. CASE x.intent = Stopped
  BY <1>1 DEF IsLoading, Stopped, Before
<1>2. CASE Session(x, x.intent.token) /\ x.intent = Committed(x.intent.token)
  BY <1>2 DEF IsLoading, Committed, Before, Given, Session
<1>3. CASE /\ Given(x, x.intent.token) /\ Before(x, x.intent.from)
           /\ x.intent.deferred \in BOOLEAN /\ (x.intent.deferred => Session(x, x.intent.from))
  BY <1>3 DEF Before, Given
<1> QED
  BY <1>1, <1>2, <1>3 DEF Typed

-----------------------------------------------------------------------------
(* The pieces of the handlers.                                               *)

LEMMA SendIsMore ==
  ASSUME NEW x, DOMAIN x = Fields, x.out \in Seq(ToSet(x.out)), NEW op, NEW ops, op \in ops
  PROVE  LET y == Send(x, op)
         IN  /\ DOMAIN y = Fields /\ More(x.out, y.out, ops)
             /\ y.pending = x.pending /\ y.intent = x.intent /\ y.nextToken = x.nextToken
             /\ y.task = x.task /\ y.phase = x.phase /\ y.armed = x.armed /\ y.raced = x.raced /\ y.forsaken = x.forsaken
<1> DEFINE k == [op |-> op, token |-> 0]
           y == Send(x, op)
<1>1. k.op \in ops
  OBVIOUS
<1> HIDE DEF k
<1>2. More(x.out, Append(x.out, k), ops)
  BY <1>1, MoreSelf, MoreAppend
<1>3. y = [x EXCEPT !.out = Append(@, k)]
  BY DEF Send, k
<1> HIDE DEF y
<1> QED
  BY <1>2, <1>3 DEF Fields, y

LEMMA CancelIsMore ==
  ASSUME NEW x, DOMAIN x = Fields, x.out \in Seq(ToSet(x.out))
  PROVE  LET y == CancelLoadTask(x)
         IN  /\ DOMAIN y = Fields /\ More(x.out, y.out, Others) /\ y.task = None
             /\ y.pending = x.pending /\ y.intent = x.intent /\ y.nextToken = x.nextToken
             /\ y.phase = x.phase /\ y.armed = x.armed /\ y.raced = x.raced /\ y.forsaken = x.forsaken
<1> DEFINE idle == [x EXCEPT !.task = None]
<1>1. /\ DOMAIN idle = Fields /\ idle.out = x.out /\ idle.task = None
      /\ idle.pending = x.pending /\ idle.intent = x.intent /\ idle.nextToken = x.nextToken
      /\ idle.phase = x.phase /\ idle.armed = x.armed /\ idle.raced = x.raced /\ idle.forsaken = x.forsaken
  BY DEF Fields
<1> HIDE DEF idle
<1>2. "Cancel" \in Others
  BY DEF Others
<1> QED
  BY <1>1, <1>2, SendIsMore DEF CancelLoadTask, idle

\* It gives up the load task and stops, or pauses.
LEMMA QuitsIsMore ==
  ASSUME NEW x, DOMAIN x = Fields, x.out \in Seq(ToSet(x.out)), NEW op \in Others
  PROVE  LET y == Send(CancelLoadTask(x), op)
         IN  /\ DOMAIN y = Fields /\ More(x.out, y.out, Others) /\ y.task = None
             /\ y.pending = x.pending /\ y.intent = x.intent /\ y.nextToken = x.nextToken
             /\ y.phase = x.phase /\ y.armed = x.armed /\ y.raced = x.raced /\ y.forsaken = x.forsaken
<1> DEFINE c == CancelLoadTask(x)
<1>1. /\ DOMAIN c = Fields /\ More(x.out, c.out, Others) /\ c.task = None
      /\ c.pending = x.pending /\ c.intent = x.intent /\ c.nextToken = x.nextToken
      /\ c.phase = x.phase /\ c.armed = x.armed /\ c.raced = x.raced /\ c.forsaken = x.forsaken
  BY CancelIsMore
<1> HIDE DEF c
<1>2. c.out \in Seq(ToSet(c.out))
  BY <1>1 DEF More
<1>3. LET y == Send(c, op)
      IN  /\ DOMAIN y = Fields /\ More(c.out, y.out, Others)
          /\ y.pending = c.pending /\ y.intent = c.intent /\ y.nextToken = c.nextToken
          /\ y.task = c.task /\ y.phase = c.phase /\ y.armed = c.armed /\ y.raced = c.raced /\ y.forsaken = c.forsaken
  BY <1>1, <1>2, SendIsMore
<1> QED
  BY <1>1, <1>3, MoreAfter DEF c

LEMMA StartLoadIsGood ==
  ASSUME NEW x, NEW m, Sane(x, m), NEW idx, NEW transition, Fades(transition),
         transition # "immediate" => x.intent.token # 0 \/ Taken(x)
  PROVE  Good(StartLoad(x, idx, transition), m)
<1> DEFINE y == StartLoad(x, idx, transition)
           quieted == IF transition = "immediate" /\ TrackAt(x.queue, idx) \in Remote
                      THEN [Send(CancelLoadTask(x), "Stop") EXCEPT !.phase = "Idle"]
                      ELSE CancelLoadTask(x)
           pending == IF transition = "immediate" THEN None
                      ELSE [to |-> idx, key |-> TrackAt(x.queue, idx), token |-> x.nextToken,
                            from |-> x.intent.token, stage |-> "Loading",
                            gapless |-> transition = "gapless", amid |-> {}]
           task == [token |-> x.nextToken, stage |-> "prepare", transition |-> transition]
           intent == Loading(x.nextToken, transition # "immediate", x.intent.token)
<1>1. DOMAIN x = Fields /\ x.out \in Seq(ToSet(x.out)) /\ "Stop" \in Others
  BY DEF Sane, Shaped, Fresh, Others
<1>2. /\ DOMAIN quieted = Fields /\ More(x.out, quieted.out, Others)
      /\ quieted.phase \in {x.phase, "Idle"} /\ quieted.armed = x.armed
      /\ quieted.raced = x.raced /\ quieted.forsaken = x.forsaken
  <2> DEFINE stopped == Send(CancelLoadTask(x), "Stop")
  <2>1. /\ DOMAIN stopped = Fields /\ More(x.out, stopped.out, Others)
        /\ stopped.armed = x.armed /\ stopped.raced = x.raced
        /\ stopped.forsaken = x.forsaken
    BY <1>1, QuitsIsMore
  <2> HIDE DEF stopped
  <2>2. /\ DOMAIN [stopped EXCEPT !.phase = "Idle"] = Fields
        /\ [stopped EXCEPT !.phase = "Idle"].out = stopped.out
        /\ [stopped EXCEPT !.phase = "Idle"].phase = "Idle"
        /\ [stopped EXCEPT !.phase = "Idle"].armed = stopped.armed
        /\ [stopped EXCEPT !.phase = "Idle"].raced = stopped.raced
        /\ [stopped EXCEPT !.phase = "Idle"].forsaken = stopped.forsaken
    BY <2>1 DEF Fields
  <2>3. /\ DOMAIN CancelLoadTask(x) = Fields /\ More(x.out, CancelLoadTask(x).out, Others)
        /\ CancelLoadTask(x).phase = x.phase /\ CancelLoadTask(x).armed = x.armed
        /\ CancelLoadTask(x).raced = x.raced /\ CancelLoadTask(x).forsaken = x.forsaken
    BY <1>1, CancelIsMore
  <2>4. quieted = [stopped EXCEPT !.phase = "Idle"] \/ quieted = CancelLoadTask(x)
    BY DEF stopped
  <2> QED
    BY <2>1, <2>2, <2>3, <2>4
<1> HIDE DEF quieted
<1>3. y = [quieted EXCEPT !.pending = pending, !.intent = intent,
                          !.nextToken = x.nextToken + 1, !.task = task,
                          !.trackOf[x.nextToken] = TrackAt(x.queue, idx)]
  BY DEF StartLoad, quieted
<1> HIDE DEF y, pending, task, intent
<1>4. /\ DOMAIN y = Fields /\ y.pending = pending /\ y.intent = intent
      /\ y.nextToken = x.nextToken + 1 /\ y.task = task
      /\ y.out = quieted.out /\ y.phase = quieted.phase /\ y.armed = quieted.armed
      /\ y.raced = x.raced /\ y.forsaken = x.forsaken
  BY <1>2, <1>3 DEF Fields
<1>5. y.task # None /\ y.task.token = x.nextToken /\ y.task.stage = "prepare"
      /\ y.task.transition = transition
  <2>1. x.nextToken \in Nat
    BY DEF Sane, OnePlace
  <2> QED
    BY <1>4, <2>1, NoneIsNothing DEF task, Fades
<1>6. /\ intent.token = x.nextToken /\ intent.from = x.intent.token
      /\ transition = "immediate" => intent = Loading(x.nextToken, FALSE, x.intent.token)
      /\ transition # "immediate" => intent = Loading(x.nextToken, TRUE, x.intent.token)
  BY DEF intent, Loading
<1>7. x.nextToken \in Nat /\ 0 < x.nextToken /\ Before(x, x.intent.token)
  BY IntentTypes DEF Sane, OnePlace
<1>8. /\ transition = "immediate" => pending = None
      /\ transition # "immediate" =>
            /\ DOMAIN pending = PendingFields /\ pending.stage = "Loading"
            /\ pending.token = x.nextToken /\ pending.from = x.intent.token
  BY DEF pending, PendingFields
<1>9. Shaped(y) /\ Intended(y) /\ ~Past(y)
  BY <1>4, <1>6, <1>8 DEF Sane, Shaped, Intended, Past
<1>11. transition # "immediate" => Session(y, x.intent.token)
  BY <1>4, <1>7 DEF Session, Taken, Given, Before
<1>10. Typed(y)
  <2>1. y.phase \in Phases /\ Before(y, y.armed)
    BY <1>2, <1>4, <1>7 DEF Sane, Typed, Phases, Before
  <2>2. /\ Given(y, y.intent.token) /\ Before(y, y.intent.from)
        /\ y.intent.deferred \in BOOLEAN /\ (y.intent.deferred => Session(y, y.intent.from))
        /\ y.intent = Loading(y.intent.token, y.intent.deferred, y.intent.from)
    <3>1. /\ Given(y, y.intent.token) /\ Before(y, y.intent.from)
          /\ y.intent.token = x.nextToken /\ y.intent.from = x.intent.token
      BY <1>4, <1>6, <1>7 DEF Given, Before
    <3>2. CASE transition = "immediate"
      <4>1. y.intent = Loading(x.nextToken, FALSE, x.intent.token)
        BY <1>4, <1>6, <3>2
      <4>2. y.intent.deferred = FALSE
        BY <4>1 DEF Loading
      <4> QED
        BY <3>1, <4>1, <4>2
    <3>3. CASE transition # "immediate"
      <4>1. y.intent = Loading(x.nextToken, TRUE, x.intent.token)
        BY <1>4, <1>6, <3>3
      <4>2. y.intent.deferred = TRUE
        BY <4>1 DEF Loading
      <4> QED
        BY <1>11, <3>1, <3>3, <4>1, <4>2
    <3> QED
      BY <3>2, <3>3
  <2>3. y.pending # None => /\ Given(y, y.pending.token) /\ Session(y, y.pending.from)
                            /\ y.pending.stage = "Fading" => mode = "crossfade"
    BY <1>4, <1>7, <1>8, <1>11 DEF Given, Before
  <2> QED
    BY <2>1, <2>2, <2>3 DEF Typed
<1> QED
  BY <1>2, <1>4, <1>5, <1>6, <1>9, <1>10, LoadsGood DEF y

\* A transition that is undone leaves the outgoing session intended.
LEMMA RevertIsGood ==
  ASSUME NEW x, NEW m, Good(x, m)
  PROVE  /\ Good(RevertTransition(x), m) /\ RevertTransition(x).pending = None
         /\ x.pending # None => \/ RevertTransition(x).intent.token # 0
                               \/ Taken(RevertTransition(x))
         /\ Marks(x, RevertTransition(x))
<1> DEFINE y == RevertTransition(x)
<1>1. CASE x.pending = None
  BY <1>1 DEF RevertTransition, Marks
<1>2. CASE x.pending # None
  <2> DEFINE base == IF x.pending.stage # "Fading" THEN CancelLoadTask(x) ELSE x
             race == base.raced \/ (x.pending.stage # "Fading" /\ ~Unsent(x))
  <2>1. DOMAIN x = Fields /\ x.out \in Seq(ToSet(x.out))
    BY DEF Good, Sane, Shaped, Fresh
  <2>2. /\ DOMAIN base = Fields /\ More(x.out, base.out, Others)
        /\ base.nextToken = x.nextToken /\ (base.task = x.task \/ base.task = None)
        /\ base.phase = x.phase /\ base.raced = x.raced /\ base.forsaken = x.forsaken
    BY <2>1, CancelIsMore, MoreSelf
  <2>8. x.raced => race
    BY <2>2
  <2> HIDE DEF base
  <2>3. y = [base EXCEPT !.pending = None, !.armed = 0, !.intent = Committed(x.pending.from),
                         !.raced = race]
    BY <1>2 DEF RevertTransition, base
  <2> HIDE DEF y, race
  <2>4. /\ DOMAIN y = Fields /\ y.pending = None /\ y.nextToken = x.nextToken
        /\ y.task = base.task /\ y.out = base.out /\ y.phase = x.phase /\ y.armed = 0
        /\ y.intent = Committed(x.pending.from) /\ y.raced = race
        /\ y.forsaken = x.forsaken
    BY <2>2, <2>3 DEF Fields
  <2>5. Session(x, x.pending.from) /\ Before(x, 0) /\ x.phase \in Phases
    <3>1. Session(x, x.pending.from) /\ x.phase \in Phases
      BY <1>2 DEF Good, Sane, Typed
    <3> QED
      BY <3>1 DEF Good, Sane, OnePlace, Before, Given
  <2>9. Marks(x, y)
    BY <2>4, <2>8 DEF Marks
  <2>6. Good(y, m)
    BY <2>2, <2>4, <2>5, <2>9, EndsGood DEF Good, Marks
  <2>7. y.intent.token # 0 \/ Taken(y)
    BY <2>4, <2>5, <2>9 DEF Session, Taken, Marks, Given, Committed
  <2> QED
    BY <2>4, <2>6, <2>7, <2>9 DEF y
<1> QED
  BY <1>1, <1>2

LEMMA QueueIsGood ==
  ASSUME NEW x, NEW m, Good(x, m), NEW queue
  PROVE  /\ Good(WithQueue(x, queue), m)
         /\ WithQueue(x, queue).pending = x.pending
         /\ WithQueue(x, queue).raced = x.raced
<1> DEFINE y == WithQueue(x, queue)
<1>1. /\ DOMAIN y = Fields /\ y.pending = x.pending /\ y.intent = x.intent
      /\ y.nextToken = x.nextToken /\ y.task = x.task /\ y.out = x.out
      /\ y.phase = x.phase /\ y.armed = x.armed /\ y.raced = x.raced /\ y.forsaken = x.forsaken
  BY DEF Good, Sane, Shaped, Fields, WithQueue
<1>2. x.phase \in Phases /\ Before(x, x.armed)
  BY DEF Good, Sane, Typed
<1>3. More(x.out, x.out, Tame) /\ More(x.out, x.out, Others)
  BY MoreSelf DEF Good, Sane, Fresh
<1> HIDE DEF y
<1>5. Marks(x, y)
  BY <1>1 DEF Marks
<1>4. Good(y, m)
  BY <1>1, <1>2, <1>3, <1>5, KeepsGood
<1> QED
  BY <1>1, <1>4 DEF y

LEMMA RefuseIsGood == ASSUME NEW x, NEW m, Sane(x, m) PROVE Good(RefuseLoad(x), m)
<1> DEFINE stopped == Send(CancelLoadTask(x), "Stop")
           y == RefuseLoad(x)
<1>1. /\ DOMAIN stopped = Fields /\ More(x.out, stopped.out, Others)
      /\ stopped.task = None /\ stopped.nextToken = x.nextToken /\ stopped.armed = x.armed
      /\ stopped.raced = x.raced /\ stopped.forsaken = x.forsaken
  BY QuitsIsMore DEF Sane, Shaped, Fresh, Others
<1>2. y = [stopped EXCEPT !.pending = None, !.intent = Stopped, !.phase = "Idle"]
  BY DEF RefuseLoad
<1> HIDE DEF stopped, y
<1>3. /\ DOMAIN y = Fields /\ y.pending = None /\ y.nextToken = x.nextToken
      /\ y.task = None /\ y.out = stopped.out /\ y.phase = "Idle" /\ y.armed = x.armed
      /\ y.intent = Stopped /\ y.raced = x.raced /\ y.forsaken = x.forsaken
  BY <1>1, <1>2 DEF Fields
<1>4. Good(y, m)
  BY <1>1, <1>3, EndsGood DEF Sane, Typed, Phases
<1> QED
  BY <1>4 DEF y

LEMMA ImmediateIsGood ==
  ASSUME NEW x, NEW m, Good(x, m), NEW queue, NEW idx
  PROVE  Good(StartImmediateLoad(x, queue, idx), m)
<1> DEFINE moved == WithQueue(x, queue)
<1>1. Good(moved, m)
  BY QueueIsGood
<1>2. StartImmediateLoad(x, queue, idx) \in {StartLoad(moved, idx, "immediate"), RefuseLoad(x), x}
  BY DEF StartImmediateLoad, WithQueue
<1> HIDE DEF moved
<1>3. Good(StartLoad(moved, idx, "immediate"), m)
  BY <1>1, StartLoadIsGood DEF Good, Fades, Transitions
<1> QED
  BY <1>2, <1>3, RefuseIsGood DEF Good

LEMMA ArmIsGood ==
  ASSUME NEW x, NEW m, Good(x, m), x.intent.token # 0 \/ Taken(x)
  PROVE  Good(ArmTransition(x), m)
<1>1. Fades(IF ShouldCrossfade(x) THEN "crossfade" ELSE "gapless")
  BY DEF Fades, Transitions, ShouldCrossfade
<1> QED
  BY <1>1, StartLoadIsGood DEF Good, ArmTransition

LEMMA ArmNowIsGood ==
  ASSUME NEW x, NEW m, Good(x, m), NEW near,
         mode = "gapless" /\ x.phase = "Playing" => x.intent.token # 0 \/ Taken(x)
  PROVE  Good(ArmGaplessNow(x, near), m)
  BY ArmIsGood DEF ArmGaplessNow, ShouldPlayGapless

LEMMA RearmIsGood ==
  ASSUME NEW x, NEW m, Good(x, m), NEW near
  PROVE  Good(RearmGapless(x, near), m)
  BY ArmIsGood, RevertIsGood DEF RearmGapless

LEMMA CommitEnds ==
  ASSUME NEW x, DOMAIN x = Fields
  PROVE  /\ DOMAIN CommitModel(x) = Fields /\ CommitModel(x).pending = None
         /\ CommitModel(x).nextToken = x.nextToken /\ CommitModel(x).task = x.task
         /\ CommitModel(x).out = x.out /\ CommitModel(x).intent = x.intent
         /\ CommitModel(x).armed = x.armed /\ CommitModel(x).phase = x.phase
         /\ CommitModel(x).raced = x.raced /\ CommitModel(x).forsaken = x.forsaken
         /\ DOMAIN CommitTransition(x) = Fields /\ CommitTransition(x).pending = None
         /\ CommitTransition(x).nextToken = x.nextToken /\ CommitTransition(x).task = x.task
         /\ CommitTransition(x).out = x.out /\ CommitTransition(x).intent = x.intent
         /\ CommitTransition(x).armed = x.pending.from /\ CommitTransition(x).phase = x.phase
         /\ CommitTransition(x).raced = x.raced /\ CommitTransition(x).forsaken = x.forsaken
  BY DEF Fields, CommitModel, CommitTransition

LEMMA PlayNextIsGood ==
  ASSUME NEW x, NEW m, Good(x, m)
  PROVE  Good(PlayNext(x), m)
<1> DEFINE y == RevertTransition(x)
           quit == Send(CancelLoadTask(y), "Pause")
           z == [quit EXCEPT !.pending = None, !.intent = Stopped,
                             !.phase = IF @ = "Ended" THEN @ ELSE "Paused"]
<1>1. Good(y, m)
  BY RevertIsGood
<1>2. \A queue, idx : Good(StartImmediateLoad(y, queue, idx), m)
  BY <1>1, ImmediateIsGood
<1>3. PlayNext(x) = y \/ PlayNext(x) = z
        \/ \E queue, idx : PlayNext(x) = StartImmediateLoad(y, queue, idx)
  BY DEF PlayNext
<1> HIDE DEF y
<1>4. Good(z, m)
  <2>1. /\ DOMAIN quit = Fields /\ More(y.out, quit.out, Others)
        /\ quit.task = None /\ quit.nextToken = y.nextToken /\ quit.armed = y.armed
        /\ quit.raced = y.raced /\ quit.forsaken = y.forsaken
    BY <1>1, QuitsIsMore DEF Good, Sane, Shaped, Fresh, Others, Tame
  <2> HIDE DEF quit
  <2>2. /\ DOMAIN z = Fields /\ z.pending = None /\ z.nextToken = y.nextToken
        /\ z.task = None /\ z.out = quit.out /\ z.phase \in {"Ended", "Paused"}
        /\ z.armed = y.armed /\ z.intent = Stopped /\ z.raced = y.raced /\ z.forsaken = y.forsaken
    BY <2>1 DEF Fields
  <2> HIDE DEF z
  <2> QED
    BY <1>1, <2>1, <2>2, EndsGood DEF Good, Sane, Typed, Phases
<1> QED
  BY <1>1, <1>2, <1>3, <1>4

\* A load fails, or the session of token t does: the transition goes with it,
\* unless it is a fade, whose incoming session is already current.
LEMMA FailIsGood ==
  ASSUME NEW x, NEW m, Sane(x, m), NEW t, x.intent.token # t => Good(x, m),
         x.pending # None /\ x.pending.token = t => x.pending.stage # "Queued"
  PROVE  Good(FailLoad(x, t), m)
<1>1. ASSUME x.intent.token = t, IsLoading(x) /\ x.intent.deferred
      PROVE  Good(FailLoad(x, t), m)
  <2> DEFINE armed == IF x.pending # None /\ x.pending.gapless THEN x.intent.from ELSE 0
             y == [x EXCEPT !.armed = armed, !.pending = None,
                            !.intent = Committed(x.intent.from)]
  <2>1. FailLoad(x, t) = y
    BY <1>1 DEF FailLoad
  <2>2. Session(x, x.intent.from) /\ Before(x, x.intent.from) /\ Before(x, 0)
    BY <1>1, IntentTypes DEF Sane, OnePlace, Before
  <2>3. Before(x, armed)
    BY <2>2 DEF Given, Before
  <2> HIDE DEF armed
  <2>4. /\ DOMAIN y = Fields /\ y.pending = None /\ y.nextToken = x.nextToken
        /\ y.task = x.task /\ y.out = x.out /\ y.phase = x.phase /\ y.armed = armed
        /\ y.intent = Committed(x.intent.from) /\ y.raced = x.raced /\ y.forsaken = x.forsaken
    BY DEF Sane, Shaped, Fields
  <2> HIDE DEF y
  <2>5. More(x.out, x.out, Others) /\ x.phase \in Phases
    BY MoreSelf DEF Sane, Fresh, Typed
  <2>6. Good(y, m)
    BY <2>2, <2>3, <2>4, <2>5, EndsGood
  <2> QED
    BY <2>1, <2>6
<1>2. ASSUME x.intent.token = t, ~(IsLoading(x) /\ x.intent.deferred)
      PROVE  Good(FailLoad(x, t), m)
  <2> DEFINE base == IF x.phase = "Ended" THEN Send(x, "Pause") ELSE x
             z == [base EXCEPT !.intent = Stopped]
  <2>1. FailLoad(x, t) = z
    BY <1>2 DEF FailLoad
  <2>2. /\ DOMAIN base = Fields /\ More(x.out, base.out, Others) /\ base.pending = x.pending
        /\ base.nextToken = x.nextToken /\ base.task = x.task /\ base.phase = x.phase
        /\ base.armed = x.armed /\ base.raced = x.raced /\ base.forsaken = x.forsaken
    BY SendIsMore, MoreSelf DEF Sane, Shaped, Fresh, Others, Tame
  <2> HIDE DEF base
  <2>3. /\ DOMAIN z = Fields /\ z.pending = x.pending /\ z.nextToken = x.nextToken
        /\ z.task = x.task /\ z.intent = Stopped /\ z.out = base.out /\ z.phase = x.phase
        /\ z.armed = x.armed /\ z.raced = x.raced /\ z.forsaken = x.forsaken
    BY <2>2 DEF Fields
  <2> HIDE DEF z
  <2>4. \/ x.pending = None \/ x.pending.stage = "Fading"
        \/ /\ Taken(x) /\ "Play" \in x.pending.amid
           /\ x.pending.stage = "Loading" => x.pending.token \in x.forsaken
    BY <1>2 DEF Sane, Shaped, Intended, IsLoading, Loading, Committed
  <2>5. Fresh(z, m)
    BY <2>2, <2>3, StaysFresh DEF Sane, OnePlace
  <2>6. ~IsLoading(z)
    BY <2>3 DEF IsLoading, Stopped
  <2>7. Shaped(z) /\ Intended(z) /\ Typed(z)
    BY <2>3, <2>4 DEF Sane, Shaped, Intended, Typed, Before, Given, Session, Taken
  <2>8. OnePlace(z, m) /\ (Past(z) => Answered(z, m, z.pending.token))
    BY <2>3, <2>6 DEF Sane, OnePlace, Given, Past, Answered
  <2> QED
    BY <2>1, <2>5, <2>6, <2>7, <2>8 DEF Good, Sane, Somewhere
<1> QED
  BY <1>1, <1>2 DEF FailLoad

-----------------------------------------------------------------------------
(* Client commands.                                                          *)

LEMMA SeekIsGood == ASSUME NEW x, NEW m, Good(x, m) PROVE Good(Seek(x), m)
<1> DEFINE y == RevertTransition(x)
           k == [op |-> "Seek", token |-> IF x.pending = None THEN 0 ELSE x.pending.from]
<1>1. Good(y, m)
  BY RevertIsGood
<1> HIDE DEF y
<1>2. k.op \in Tame
  BY DEF Tame
<1> HIDE DEF k
<1>3. More(y.out, Append(y.out, k), Tame)
  BY <1>1, <1>2, MoreSelf, MoreAppend DEF Good, Sane, Fresh
<1>4. Seek(x) = [[y EXCEPT !.out = Append(@, k)] EXCEPT !.armed = 0]
  BY DEF Seek, SendSeek, y, k
<1>5. /\ DOMAIN Seek(x) = Fields /\ Seek(x).pending = y.pending /\ Seek(x).intent = y.intent
      /\ Seek(x).nextToken = y.nextToken /\ Seek(x).task = y.task /\ Seek(x).phase = y.phase
      /\ Seek(x).armed = 0 /\ Seek(x).raced = y.raced /\ Seek(x).forsaken = y.forsaken /\ Seek(x).out = Append(y.out, k)
  BY <1>1, <1>4 DEF Good, Sane, Shaped, Fields
<1>6. Before(y, 0) /\ y.phase \in Phases
  BY <1>1 DEF Good, Sane, OnePlace, Typed, Before
<1>7. Marks(y, Seek(x))
  BY <1>5 DEF Marks
<1> QED
  BY <1>1, <1>3, <1>5, <1>6, <1>7, KeepsGood, MoreWide

LEMMA PreviousIsGood ==
  ASSUME NEW x, NEW m, Good(x, m), NEW rewind
  PROVE  Good(PlayPrevious(x, rewind), m)
<1> DEFINE y == RevertTransition(x)
<1>1. Good(y, m)
  BY RevertIsGood
<1>2. \A queue, idx : Good(StartImmediateLoad(y, queue, idx), m)
  BY <1>1, ImmediateIsGood
<1>3. Good(Seek(y), m)
  BY <1>1, SeekIsGood
<1> QED
  BY <1>1, <1>2, <1>3 DEF PlayPrevious

\* A command of the kind that drops nothing, and a phase.
LEMMA TellsGood ==
  ASSUME NEW x, NEW m, Good(x, m), NEW op \in Tame, NEW phase \in Phases
  PROVE  Good([Send(x, op) EXCEPT !.phase = phase], m)
<1> DEFINE y == Send(x, op)
           z == [y EXCEPT !.phase = phase]
<1>1. /\ DOMAIN y = Fields /\ More(x.out, y.out, Tame)
      /\ y.pending = x.pending /\ y.intent = x.intent /\ y.nextToken = x.nextToken
      /\ y.task = x.task /\ y.armed = x.armed /\ y.raced = x.raced /\ y.forsaken = x.forsaken
  BY SendIsMore DEF Good, Sane, Shaped, Fresh
<1> HIDE DEF y
<1>2. /\ DOMAIN z = Fields /\ z.out = y.out /\ z.phase = phase
      /\ z.pending = x.pending /\ z.intent = x.intent /\ z.nextToken = x.nextToken
      /\ z.task = x.task /\ z.armed = x.armed /\ z.raced = x.raced /\ z.forsaken = x.forsaken
  BY <1>1 DEF Fields
<1> HIDE DEF z
<1>3. Good(z, m)
  BY <1>1, <1>2, KeepsGood, MoreWide DEF Good, Sane, Typed, Marks
<1> QED
  BY <1>3 DEF y, z

LEMMA PauseIsGood == ASSUME NEW x, NEW m, Good(x, m) PROVE Good(Pause(x), m)
<1> DEFINE queued == x.pending # None /\ x.pending.stage = "Queued"
           cancelled == CancelLoadTask(x)
           quit == [cancelled EXCEPT !.intent = Stopped]
           y == IF ~IsLoading(x) /\ ~queued THEN x
                ELSE IF x.pending # None THEN RevertTransition(x) ELSE quit
           phase == IF y.phase = "Ended" THEN y.phase ELSE "Paused"
<1>1. Good(y, m)
  <2>1. CASE x.pending = None
    <3>1. /\ DOMAIN cancelled = Fields /\ More(x.out, cancelled.out, Others)
          /\ cancelled.pending = x.pending /\ cancelled.nextToken = x.nextToken
          /\ cancelled.task = None /\ cancelled.phase = x.phase /\ cancelled.armed = x.armed
          /\ cancelled.raced = x.raced /\ cancelled.forsaken = x.forsaken
      BY CancelIsMore DEF Good, Sane, Shaped, Fresh
    <3> HIDE DEF cancelled
    <3>2. /\ DOMAIN quit = Fields /\ quit.pending = None /\ quit.nextToken = x.nextToken
          /\ quit.task = None /\ quit.out = cancelled.out /\ quit.phase = x.phase
          /\ quit.armed = x.armed /\ quit.intent = Stopped /\ quit.raced = x.raced
          /\ quit.forsaken = x.forsaken
      BY <2>1, <3>1 DEF Fields
    <3> HIDE DEF quit
    <3>3. Good(quit, m)
      BY <3>1, <3>2, EndsGood DEF Good, Sane, Typed
    <3> QED
      BY <2>1, <3>3
  <2>2. CASE x.pending # None
    BY <2>2, RevertIsGood
  <2> QED
    BY <2>1, <2>2
<1>2. Pause(x) = [Send(y, "Pause") EXCEPT !.phase = IF @ = "Ended" THEN @ ELSE "Paused"]
  BY DEF Pause
<1> HIDE DEF y
<1>3. Send(y, "Pause").phase = y.phase
  BY <1>1, SendIsMore DEF Good, Sane, Shaped, Fresh
<1>4. Pause(x) = [Send(y, "Pause") EXCEPT !.phase = phase]
  BY <1>2, <1>3
<1>5. phase \in Phases
  BY DEF Phases
<1> HIDE DEF phase
<1> QED
  BY <1>1, <1>4, <1>5, TellsGood DEF Tame

\* What Play takes the intent from is forsaken.
LEMMA TakeUpIsGood ==
  ASSUME NEW x, NEW m, Good(x, m), NEW t, Before(x, t),
         x.pending = None \/ "Play" \in Hasty
  PROVE  Good(TakeUp(x, t), m)
<1> DEFINE y == TakeUp(x, t)
           pending == IF x.pending = None THEN None
                      ELSE [x.pending EXCEPT !.amid = @ \cup {"Play"}]
           forsaken == IF x.pending = None THEN x.forsaken
                       ELSE x.forsaken \cup {x.pending.token}
<1>1. CASE t = 0 \/ Committed(t) = x.intent
  BY <1>1 DEF TakeUp
<1>2. CASE ~(t = 0 \/ Committed(t) = x.intent)
  <2>1. y = [x EXCEPT !.intent = Committed(t), !.raced = TRUE, !.forsaken = forsaken,
                      !.pending = pending]
    BY <1>2 DEF TakeUp
  <2>2. /\ x.pending = None => pending = None
        /\ x.pending # None =>
              /\ DOMAIN pending = PendingFields
              /\ pending.stage = x.pending.stage /\ pending.token = x.pending.token
              /\ pending.from = x.pending.from /\ "Play" \in pending.amid
              /\ x.pending.token \in forsaken
    BY DEF Good, Sane, Shaped, PendingFields
  <2>3. x.forsaken \subseteq forsaken
    OBVIOUS
  <2> HIDE DEF y, pending, forsaken
  <2>4. /\ DOMAIN y = Fields /\ y.pending = pending /\ y.intent = Committed(t) /\ y.raced
        /\ y.forsaken = forsaken /\ y.nextToken = x.nextToken /\ y.task = x.task
        /\ y.out = x.out /\ y.phase = x.phase /\ y.armed = x.armed
    BY <2>1 DEF Good, Sane, Shaped, Fields
  <2>5. Given(y, t) /\ y.intent.token = t /\ ~IsLoading(y)
    BY <1>2, <2>4 DEF Given, Before, Committed, IsLoading
  <2>6. Fresh(y, m)
    BY <2>4, SameIsFresh DEF Good, Sane, OnePlace
  <2>7. Shaped(y) /\ Intended(y)
    BY <2>2, <2>4 DEF Good, Sane, Shaped, Intended, Taken
  <2>8. Typed(y)
    BY <2>2, <2>4, <2>5 DEF Good, Sane, Typed, Before, Given, Session, Taken
  <2>9. OnePlace(y, m) /\ (Past(y) => Answered(y, m, y.pending.token))
    BY <2>2, <2>4, <2>5 DEF Good, Sane, OnePlace, Given, Past, Answered
  <2> QED
    BY <2>5, <2>6, <2>7, <2>8, <2>9 DEF Good, Sane, Somewhere, y
<1> QED
  BY <1>1, <1>2

LEMMA ResumeIsGood ==
  ASSUME NEW x, NEW m, Good(x, m), x.pending = None \/ "Play" \in Hasty,
         Before(x, SessionToken(engine))
  PROVE  Good(Resume(x), m)
<1> DEFINE t == SessionToken(engine)
           y == Send(x, "Resume")
           told == [y EXCEPT !.phase = x.phase]
           taken == TakeUp(told, t)
           resumed == [taken EXCEPT !.phase = "Playing"]
<1>1. Good(told, m)
  BY TellsGood DEF Good, Sane, Typed, Tame
<1>2. told = y /\ told.pending = x.pending /\ told.nextToken = x.nextToken
  <2>1. DOMAIN y = Fields /\ y.phase = x.phase /\ y.pending = x.pending
        /\ y.nextToken = x.nextToken
    BY SendIsMore DEF Good, Sane, Shaped, Fresh, Tame
  <2>2. y = [y EXCEPT !.out = @]
    BY DEF Send
  <2> HIDE DEF y
  <2> QED
    BY <2>1, <2>2 DEF Fields
<1>3. Resume(x) \in {StartLoad(x, x.queue.current, "immediate"), RefuseLoad(x), x, resumed}
  BY <1>2 DEF Resume
<1> HIDE DEF told, y
<1>4. Good(taken, m)
  BY <1>1, <1>2, TakeUpIsGood DEF Before
<1> HIDE DEF taken
<1>5. Good(resumed, m)
  <2>1. /\ DOMAIN resumed = Fields /\ resumed.pending = taken.pending
        /\ resumed.intent = taken.intent /\ resumed.nextToken = taken.nextToken
        /\ resumed.task = taken.task /\ resumed.out = taken.out /\ resumed.phase = "Playing"
        /\ resumed.armed = taken.armed /\ resumed.raced = taken.raced
        /\ resumed.forsaken = taken.forsaken
    BY <1>4 DEF Good, Sane, Shaped, Fields
  <2>2. More(taken.out, taken.out, Tame) /\ More(taken.out, taken.out, Others)
    BY <1>4, MoreSelf DEF Good, Sane, Fresh
  <2>3. Before(taken, taken.armed)
    BY <1>4 DEF Good, Sane, Typed
  <2> HIDE DEF resumed
  <2> QED
    BY <1>4, <2>1, <2>2, <2>3, KeepsGood DEF Marks, Phases
<1>6. Good(StartLoad(x, x.queue.current, "immediate"), m)
  BY StartLoadIsGood DEF Good, Fades, Transitions
<1> QED
  BY <1>3, <1>5, <1>6, RefuseIsGood DEF Good

LEMMA StopIsGood == ASSUME NEW x, NEW m, Good(x, m) PROVE Good(Stop(x), m)
<1> DEFINE quit == Send(CancelLoadTask(x), "Stop")
           y == Stop(x)
<1>1. /\ DOMAIN quit = Fields /\ More(x.out, quit.out, Others)
      /\ quit.task = None /\ quit.nextToken = x.nextToken /\ quit.raced = x.raced
      /\ quit.forsaken = x.forsaken
  BY QuitsIsMore DEF Good, Sane, Shaped, Fresh, Others
<1>2. y = [quit EXCEPT !.pending = None, !.armed = 0, !.intent = Stopped, !.phase = "Idle"]
  BY DEF Stop
<1> HIDE DEF quit, y
<1>3. /\ DOMAIN y = Fields /\ y.pending = None /\ y.nextToken = x.nextToken
      /\ y.task = None /\ y.out = quit.out /\ y.phase = "Idle" /\ y.armed = 0
      /\ y.intent = Stopped /\ y.raced = x.raced /\ y.forsaken = x.forsaken
  BY <1>1, <1>2 DEF Fields
<1>4. Before(x, 0) /\ y.phase \in Phases
  BY <1>3 DEF Good, Sane, OnePlace, Before, Phases
<1>5. Good(y, m)
  BY <1>1, <1>3, <1>4, EndsGood DEF Good
<1> QED
  BY <1>5 DEF y

\* An edit may move the armed position, and nothing else of a transition.
LEMMA MovesGood ==
  ASSUME NEW x, NEW m, Good(x, m), x.pending # None, NEW to
  PROVE  Good([x EXCEPT !.pending.to = to], m)
<1> DEFINE y == [x EXCEPT !.pending.to = to]
<1>1. /\ DOMAIN y = Fields /\ y.intent = x.intent /\ y.nextToken = x.nextToken
      /\ y.task = x.task /\ y.out = x.out /\ y.phase = x.phase /\ y.armed = x.armed
      /\ y.raced = x.raced /\ y.forsaken = x.forsaken /\ y.pending = [x.pending EXCEPT !.to = to]
  BY DEF Good, Sane, Shaped, Fields
<1>2. /\ DOMAIN y.pending = PendingFields /\ y.pending.stage = x.pending.stage
      /\ y.pending.token = x.pending.token /\ y.pending.from = x.pending.from
      /\ y.pending.amid = x.pending.amid
  BY <1>1 DEF Good, Sane, Shaped, PendingFields
<1> HIDE DEF y
<1>3. Fresh(y, m)
  BY <1>1, SameIsFresh DEF Good, Sane, OnePlace
<1>4. Shaped(y) /\ Intended(y) /\ Typed(y)
  BY <1>1, <1>2 DEF Good, Sane, Shaped, Intended, Typed, Given, Before, Session, Taken
<1>5. OnePlace(y, m) /\ (Past(y) => Answered(y, m, y.pending.token))
  BY <1>1, <1>2 DEF Good, Sane, OnePlace, Given, IsLoading, Past, Answered
<1>6. Somewhere(y, m)
  BY <1>1 DEF Good, Somewhere, IsLoading, Coming, SentFor, To
<1> QED
  BY <1>3, <1>4, <1>5, <1>6 DEF Good, Sane, y

LEMMA InsertedIsGood ==
  ASSUME NEW x, NEW m, Good(x, m), NEW queue
  PROVE  Good(WithInsertion(x, queue), m)
<1> DEFINE z == WithQueue(x, queue)
           y == [z EXCEPT !.pending.amid = @ \cup {"Insert"}, !.raced = TRUE]
<1>1. Good(z, m) /\ z.pending = x.pending
  BY QueueIsGood
<1> HIDE DEF z
<1>2. CASE x.pending # None
  <2>1. /\ DOMAIN y = Fields /\ y.intent = z.intent /\ y.nextToken = z.nextToken
        /\ y.task = z.task /\ y.out = z.out /\ y.phase = z.phase /\ y.armed = z.armed
        /\ y.raced /\ y.forsaken = z.forsaken
        /\ y.pending = [z.pending EXCEPT !.amid = @ \cup {"Insert"}]
    BY <1>1 DEF Good, Sane, Shaped, Fields
  <2>2. /\ DOMAIN y.pending = PendingFields /\ y.pending.stage = z.pending.stage
        /\ y.pending.token = z.pending.token /\ y.pending.from = z.pending.from
        /\ z.pending.amid \subseteq y.pending.amid
    BY <1>1, <1>2, <2>1 DEF Good, Sane, Shaped, PendingFields
  <2> HIDE DEF y
  <2>3. Fresh(y, m)
    BY <1>1, <2>1, SameIsFresh DEF Good, Sane, OnePlace
  <2>4. Shaped(y) /\ Intended(y) /\ Typed(y)
    BY <1>1, <1>2, <2>1, <2>2
       DEF Good, Sane, Shaped, Intended, Typed, Given, Before, Session, Taken
  <2>5. OnePlace(y, m) /\ (Past(y) => Answered(y, m, y.pending.token))
    BY <1>1, <1>2, <2>1, <2>2 DEF Good, Sane, OnePlace, Given, IsLoading, Past, Answered
  <2>6. Somewhere(y, m)
    BY <1>1, <2>1 DEF Good, Somewhere, IsLoading, Coming, SentFor, To
  <2> QED
    BY <1>2, <2>3, <2>4, <2>5, <2>6 DEF Good, Sane, WithInsertion, y, z
<1> QED
  BY <1>1, <1>2 DEF WithInsertion, z

LEMMA EditedIsGood ==
  ASSUME NEW x, NEW m, Good(x, m), NEW kind \in Edits, NEW y \in Edited(x, kind)
  PROVE  Good(y, m)
<1>1. \A queue : Good(WithQueue(x, queue), m) /\ WithQueue(x, queue).pending = x.pending
  BY QueueIsGood
<1>2. CASE kind \in {"Insert", "PlayNext", "Append"}
  BY <1>1, <1>2, InsertedIsGood DEF Edited
<1>3. CASE kind \in {"ClearUpcoming", "ReplaceUpcoming", "ShuffleUpcoming"}
  <2> DEFINE u == UpcomingFrom(x)
  <2>1. Good(u.x, m)
    BY RevertIsGood DEF UpcomingFrom
  <2>2. \A queue : Good(WithQueue(u.x, queue), m)
    BY <2>1, QueueIsGood
  <2> HIDE DEF u
  <2>3. \E queue : y = WithQueue(UpcomingFrom(x).x, queue)
    BY <1>3 DEF Edited
  <2> QED
    BY <2>2, <2>3 DEF u
<1>4. CASE kind = "Move"
  BY <1>1, <1>4, MovesGood DEF Edited, Remapped
<1>5. CASE kind = "Remove"
  BY <1>1, <1>5, MovesGood DEF Edited, Closed
<1>6. CASE kind = "Shuffle"
  <2>1. PICK queue : y = Reshuffled(x, queue)
    BY <1>6 DEF Edited
  <2> DEFINE z == WithQueue(x, queue)
  <2>2. Good(z, m) /\ z.pending = x.pending
    BY <1>1
  <2> HIDE DEF z
  <2>3. x.pending # None => \A to : Good([z EXCEPT !.pending.to = to], m)
    BY <2>2, MovesGood
  <2>4. CASE x.pending = None \/ ~HasTrack(x.queue, x.pending.to)
    BY <2>1, <2>2, <2>4 DEF Reshuffled, z
  <2>5. CASE ~(x.pending = None \/ ~HasTrack(x.queue, x.pending.to))
    <3> DEFINE to == PositionOf(queue, PhysicalIndexOf(x.queue, x.pending.to))
    <3> HIDE DEF to
    <3>1. y = [z EXCEPT !.pending.to = to]
      BY <2>1, <2>5 DEF Reshuffled, z, to
    <3> QED
      BY <2>3, <2>5, <3>1
  <2> QED
    BY <2>4, <2>5
<1>7. CASE kind = "Loop"
  <2>1. Edited(x, kind) = {WithQueue(x, [x.queue EXCEPT !.loop = loop]) : loop \in LoopModes}
    BY <1>7 DEF Edited
  <2>2. \E queue : y = WithQueue(x, queue)
    BY <2>1
  <2> QED
    BY <1>1, <2>2
<1> QED
  BY <1>2, <1>3, <1>4, <1>5, <1>6, <1>7 DEF Edits

LEMMA JumpsPhysicalIsGood ==
  ASSUME NEW x, NEW m, Good(x, m), NEW queue
  PROVE  Good(JumpsPhysical(x, queue), m)
<1> DEFINE moved == WithQueue(x, queue)
<1>1. Good(moved, m)
  BY QueueIsGood
<1> HIDE DEF moved
<1>2. Good(StartLoad(moved, queue.current, "immediate"), m)
  BY <1>1, StartLoadIsGood DEF Good, Fades, Transitions
<1>3. Good(RefuseLoad(moved), m)
  BY <1>1, RefuseIsGood DEF Good
<1> QED
  BY <1>2, <1>3 DEF JumpsPhysical, moved

LEMMA AskedIsGood ==
  ASSUME NEW x, NEW m, Good(x, m), Before(x, SessionToken(engine)),
         NEW c \in Requests \cup Edits, NEW near,
         c = "Play" => x.pending = None \/ "Play" \in Hasty, NEW y \in Asked(x, c, near)
  PROVE  Good(y, m)
<1>1. CASE c \in Edits
  <2>1. y \in {RearmGapless(z, near) : z \in Edited(x, c)}
    BY <1>1 DEF Edits, Asked
  <2> QED
    BY <1>1, <2>1, EditedIsGood, RearmIsGood
<1>2. CASE c \in Requests
  <2>1. \A queue, idx : Good(StartImmediateLoad(x, queue, idx), m)
    BY ImmediateIsGood
  <2>2. CASE c = "Jump"
    <3>1. \E q \in UNION {JumpToPosition(x.queue, i) : i \in IndexSet(x.queue)} :
             y = StartImmediateLoad(x, q, q.current)
      BY <2>2 DEF Asked, Edits
    <3> QED
      BY <2>1, <3>1
  <2>3. CASE c = "Play"
    BY <2>3, ResumeIsGood DEF Asked, Edits
  <2>4. CASE c = "Previous"
    BY <2>4, PreviousIsGood DEF Asked, Edits
  <2>6. CASE c = "JumpPhysical"
    <3>1. \E queue : y = JumpsPhysical(x, queue)
      BY <2>6 DEF Asked, Edits
    <3> QED
      BY <3>1, JumpsPhysicalIsGood
  <2>7. CASE c = "Replace"
    <3>1. \/ \E queue : y = Stop(WithQueue(x, queue))
          \/ \E queue : y = StartImmediateLoad(x, queue, queue.current)
      BY <2>7 DEF Asked, Edits, Replaced
    <3> QED
      BY <2>1, <3>1, QueueIsGood, StopIsGood
  <2>5. CASE c \in {"Pause", "Next", "Stop", "Seek"}
    BY <2>5, PauseIsGood, PlayNextIsGood, StopIsGood, SeekIsGood DEF Asked, Edits
  <2> QED
    BY <1>2, <2>2, <2>3, <2>4, <2>5, <2>6, <2>7 DEF Requests
<1> QED
  BY <1>1, <1>2

-----------------------------------------------------------------------------
(* The mail and the engine's events.                                         *)

LEMMA PhaseIsGood ==
  ASSUME NEW x, NEW m, Good(x, m), NEW phase \in Phases
  PROVE  /\ Good([x EXCEPT !.phase = phase], m)
         /\ [x EXCEPT !.phase = phase].intent = x.intent
         /\ [x EXCEPT !.phase = phase].phase = phase
         /\ [x EXCEPT !.phase = phase].raced = x.raced
<1> DEFINE y == [x EXCEPT !.phase = phase]
<1>1. /\ DOMAIN y = Fields /\ y.pending = x.pending /\ y.intent = x.intent
      /\ y.nextToken = x.nextToken /\ y.task = x.task /\ y.phase = phase
      /\ y.armed = x.armed /\ y.raced = x.raced /\ y.forsaken = x.forsaken /\ y.out = x.out
  BY DEF Good, Sane, Shaped, Fields
<1>2. /\ More(x.out, x.out, Others) /\ More(x.out, x.out, Tame) /\ Before(x, x.armed)
  BY MoreSelf DEF Good, Sane, Fresh, Typed
<1>4. Marks(x, y)
  BY <1>1 DEF Marks
<1> HIDE DEF y
<1>3. Good(y, m)
  BY <1>1, <1>2, <1>4, KeepsGood
<1> QED
  BY <1>1, <1>3 DEF y

\* k was the first message of the mail, m is the rest: nothing else is about
\* its load, and the engine has not heard of one that is only prepared.
Opened(x, m, k) ==
    /\ Sane(x, m)
    /\ k.type \in {"LoadPrepared", "PrepareFailed", "LoadFinished"}
    /\ Given(x, k.token) /\ Answered(x, m, k.token)
    /\ Past(x) => x.pending.token # k.token
    /\ k.type = "LoadPrepared" =>
          /\ Fades(k.transition)
          /\ \A i \in DOMAIN To(x) : To(x)[i].op = "Load" => To(x)[i].token # k.token
          /\ engine.pend # None => engine.pend.token # k.token
    /\ k.type = "LoadFinished" /\ k.result = "crossfaded" => mode = "crossfade"
    /\ x.intent.token # k.token => Good(x, m)
    /\ (k.type = "LoadFinished" /\ k.result = "dropped" /\ IsLoading(x) /\ x.intent.token = k.token)
          => x.intent.token \in x.forsaken

LEMMA ToAppend ==
  ASSUME NEW x, NEW y, NEW k, sent \in Seq(ToSet(sent)), x.out \in Seq(ToSet(x.out)),
         y.out = Append(x.out, k)
  PROVE  /\ To(x) \in Seq(ToSet(To(x))) /\ To(y) = Append(To(x), k)
         /\ y.out \in Seq(ToSet(y.out))
<1> DEFINE S == ToSet(sent) \cup ToSet(x.out) \cup {k}
<1>1. sent \in Seq(S) /\ x.out \in Seq(S) /\ k \in S
  OBVIOUS
<1> HIDE DEF S
<1>2. To(x) \in Seq(S) /\ y.out \in Seq(S)
  BY <1>1 DEF To
<1>3. To(y) = Append(To(x), k)
  BY <1>1, <1>2 DEF To
<1> QED
  BY <1>2, <1>3, OwnElements

LEMMA PreparedIsGood ==
  ASSUME NEW x, NEW m, NEW k, Opened(x, m, k), k.type = "LoadPrepared"
  PROVE  Good(HandlePreparedLoad(x, k), m)
<1> DEFINE task == [token |-> k.token, stage |-> "reply", transition |-> k.transition]
           load == [op |-> "Load", token |-> k.token, transition |-> k.transition]
           y == [[x EXCEPT !.task = task] EXCEPT !.out = Append(@, load)]
<1>1. CASE x.intent.token # k.token
  BY <1>1 DEF Opened, HandlePreparedLoad
<1>2. CASE x.intent.token = k.token
  <2>1. HandlePreparedLoad(x, k) = y
    BY <1>2 DEF HandlePreparedLoad, SendLoad
  <2>2. /\ task # None /\ task.token = k.token /\ task.stage = "reply"
        /\ task.transition = k.transition
    BY NoneIsNothing DEF Opened, Given, Fades
  <2>3. load.op = "Load" /\ load.token = k.token /\ load.transition = k.transition
    OBVIOUS
  <2> HIDE DEF task, load
  <2>4. /\ DOMAIN y = Fields /\ y.pending = x.pending /\ y.intent = x.intent
        /\ y.nextToken = x.nextToken /\ y.task = task /\ y.phase = x.phase
        /\ y.armed = x.armed /\ y.out = Append(x.out, load)
        /\ y.raced = x.raced /\ y.forsaken = x.forsaken
    BY DEF Opened, Sane, Shaped, Fields
  <2> HIDE DEF y
  <2>5. /\ To(y) = Append(To(x), load) /\ Len(To(x)) \in Nat
        /\ DOMAIN To(y) = 1 .. Len(To(x)) + 1 /\ DOMAIN To(x) = 1 .. Len(To(x))
        /\ \A i \in 1 .. Len(To(x)) : To(y)[i] = To(x)[i]
        /\ To(y)[Len(To(x)) + 1] = load
        /\ y.out \in Seq(ToSet(y.out)) /\ sent \in Seq(ToSet(sent))
    <3>1. /\ sent \in Seq(ToSet(sent)) /\ x.out \in Seq(ToSet(x.out))
      BY DEF Opened, Sane, Fresh
    <3>2. /\ To(x) \in Seq(ToSet(To(x))) /\ To(y) = Append(To(x), load)
          /\ y.out \in Seq(ToSet(y.out))
      BY <2>4, <3>1, ToAppend
    <3> QED
      BY <3>1, <3>2, AppendMail
  <2>6. \A i \in DOMAIN To(y) : \/ i \in DOMAIN To(x) /\ To(y)[i] = To(x)[i]
                                \/ i = Len(To(x)) + 1 /\ To(y)[i] = load
    BY <2>5
  <2>7. \A t : Known(x, m, t) => Known(y, m, t)
    BY <2>2, <2>4 DEF Known, Given, Unsaid
  <2>8. Known(y, m, k.token)
    BY <2>2, <2>4 DEF Opened, Known, Given, Unsaid, Answered
  <2>9. Fresh(y, m)
    <3>1. \A i \in DOMAIN To(y) : To(y)[i].op = "Load" =>
             /\ Known(y, m, To(y)[i].token) /\ Fades(To(y)[i].transition)
             /\ engine.pend # None => engine.pend.token # To(y)[i].token
      BY <2>3, <2>6, <2>7, <2>8 DEF Opened, Sane, Fresh, FreshIn
    <3>2. \A i, j \in DOMAIN To(y) :
             To(y)[i].op = "Load" /\ To(y)[j].op = "Load" /\ To(y)[j].token = To(y)[i].token
                => i = j
      BY <2>3, <2>6 DEF Opened, Sane, Fresh, FreshIn
    <3>3. engine.pend # None => Known(y, m, engine.pend.token) /\ Fades(engine.pend.transition)
      BY <2>7 DEF Opened, Sane, Fresh, FreshIn
    <3>4. \A i \in DOMAIN To(y) : To(y)[i].op \in Others \cup {"Load"}
      BY <2>3, <2>6 DEF Opened, Sane, Fresh, FreshIn
    <3>5. EngineTyped(engine, y)
      BY <2>4 DEF Opened, Sane, Fresh, EngineTyped, Before
    <3> QED
      BY <2>5, <3>1, <3>2, <3>3, <3>4, <3>5 DEF Fresh, FreshIn
  <2>10. Shaped(y) /\ Intended(y) /\ Typed(y)
    BY <2>4 DEF Opened, Sane, Shaped, Intended, Typed, Given, Before, Session, Taken
  <2>11. OnePlace(y, m)
    BY <1>2, <2>2, <2>4 DEF Opened, Sane, OnePlace, Given, IsLoading, Answered
  <2>12. Past(y) => Answered(y, m, y.pending.token)
    BY <2>2, <2>4 DEF Opened, Sane, Past, Answered
  <2>13. Somewhere(y, m)
    <3>1. \A j \in DOMAIN To(y) : ~(j > Len(To(x)) + 1)
      BY <2>5
    <3>2. Len(To(x)) + 1 \in DOMAIN To(y)
      BY <2>5
    <3>3. Standing(To(y), k.token)
      BY <2>3, <2>5, <3>1, <3>2 DEF Standing
    <3> QED
      BY <1>2, <2>2, <2>4, <3>3 DEF Somewhere, SentFor
  <2> QED
    BY <2>1, <2>9, <2>10, <2>11, <2>12, <2>13 DEF Opened, Sane, Good
<1> QED
  BY <1>1, <1>2

\* Where a load that has finished leaves the session.
Landed(x, k) ==
    LET y == [x EXCEPT !.intent = Committed(k.token), !.task = None]
    IN  IF ~(x.pending # None /\ x.pending.token = k.token) THEN y
        ELSE IF k.result = "crossfaded" THEN [y EXCEPT !.pending.stage = "Fading"]
        ELSE IF k.result = "gapless" THEN [y EXCEPT !.pending.stage = "Queued"]
        ELSE CommitTransition(y)

LEMMA LandedIsGood ==
  ASSUME NEW x, NEW m, NEW k, Opened(x, m, k), k.type = "LoadFinished", x.intent.token = k.token
  PROVE  Good(Landed(x, k), m) /\ Landed(x, k).intent = Committed(k.token)
<1> DEFINE y == [x EXCEPT !.intent = Committed(k.token), !.task = None]
           armed == x.pending # None /\ x.pending.token = k.token
           staged(stage) == [y EXCEPT !.pending.stage = stage]
<1>1. Sane(x, m) /\ Given(x, k.token) /\ More(x.out, x.out, Others)
      /\ x.phase \in Phases /\ Before(x, x.armed)
  BY MoreSelf DEF Opened, Sane, Fresh, Typed
<1>2. /\ DOMAIN y = Fields /\ y.pending = x.pending /\ y.intent = Committed(k.token)
      /\ y.nextToken = x.nextToken /\ y.task = None /\ y.out = x.out
      /\ y.phase = x.phase /\ y.armed = x.armed
      /\ y.raced = x.raced /\ y.forsaken = x.forsaken
  BY <1>1 DEF Sane, Shaped, Fields
<1> HIDE DEF y
<1>7. Session(x, k.token)
  BY <1>1 DEF Session
<1>3. ASSUME ~armed PROVE Good(y, m)
  <2>1. CASE x.pending = None
    BY <1>1, <1>2, <1>7, <2>1, EndsGood
  <2>2. CASE x.pending # None
    <3>1. /\ Taken(x) /\ "Play" \in x.pending.amid
          /\ x.pending.stage = "Loading" => x.pending.token \in x.forsaken
      BY <1>1, <1>3, <2>2 DEF Sane, Intended, Given, Loading, Committed, Stopped
    <3>2. Fresh(y, m)
      BY <1>1, <1>2, StaysFresh DEF Sane, OnePlace
    <3>3. y.intent.token = k.token /\ ~IsLoading(y)
      BY <1>2 DEF IsLoading, Committed
    <3>4. Shaped(y) /\ Intended(y)
      BY <1>1, <1>2, <3>1 DEF Sane, Shaped, Intended, Taken
    <3>5. Typed(y)
      BY <1>1, <1>2, <1>7, <3>3 DEF Sane, Typed, Given, Before, Session, Taken
    <3>6. OnePlace(y, m) /\ (Past(y) => Answered(y, m, y.pending.token))
      BY <1>1, <1>2, <3>3 DEF Sane, OnePlace, Given, Past, Answered
    <3> QED
      BY <1>1, <3>2, <3>3, <3>4, <3>5, <3>6 DEF Good, Sane, Somewhere
  <2> QED
    BY <2>1, <2>2
<1>4. ASSUME armed PROVE Good(CommitTransition(y), m)
                         /\ CommitTransition(y).intent = Committed(k.token)
  <2> DEFINE z == CommitTransition(y)
  <2>1. /\ DOMAIN z = Fields /\ z.pending = None /\ z.nextToken = x.nextToken
        /\ z.task = None /\ z.out = x.out /\ z.intent = Committed(k.token)
        /\ z.phase = x.phase /\ z.armed = x.pending.from /\ z.raced = x.raced
        /\ z.forsaken = x.forsaken
    BY <1>2, CommitEnds
  <2> HIDE DEF z
  <2>2. Before(x, z.armed)
    BY <1>1, <1>4, <2>1 DEF Sane, Typed, Given, Before, Session, OnePlace
  <2>3. Good(z, m)
    BY <1>1, <1>7, <2>1, <2>2, EndsGood
  <2> QED
    BY <2>1, <2>3 DEF z
<1>5. ASSUME armed, NEW stage \in {"Fading", "Queued"}, stage = "Fading" => mode = "crossfade"
      PROVE  Good(staged(stage), m) /\ staged(stage).intent = Committed(k.token)
  <2> DEFINE z == staged(stage)
  <2>1. /\ DOMAIN z = Fields /\ z.pending = [x.pending EXCEPT !.stage = stage]
        /\ z.intent = Committed(k.token) /\ z.nextToken = x.nextToken /\ z.task = None
        /\ z.out = x.out /\ z.phase = x.phase /\ z.armed = x.armed /\ z.raced = x.raced
        /\ z.forsaken = x.forsaken
    BY <1>2 DEF Fields
  <2>2. /\ DOMAIN z.pending = PendingFields /\ z.pending.stage = stage
        /\ z.pending.token = k.token /\ z.pending.from = x.pending.from
    BY <1>1, <1>5, <2>1 DEF Sane, Shaped, PendingFields
  <2> HIDE DEF z
  <2>3. Fresh(z, m)
    BY <1>1, <2>1, StaysFresh DEF Sane, OnePlace
  <2>4. z.intent.token = k.token /\ ~IsLoading(z)
    BY <2>1 DEF IsLoading, Committed
  <2>5. Typed(z)
    BY <1>1, <1>5, <1>7, <2>1, <2>2, <2>4 DEF Sane, Typed, Given, Before, Session, Taken
  <2>6. Shaped(z) /\ Intended(z)
    BY <1>1, <2>1, <2>2 DEF Sane, Shaped, Intended
  <2>7. OnePlace(z, m) /\ (Past(z) => Answered(z, m, z.pending.token))
    BY <1>1, <2>1, <2>2, <2>4 DEF Opened, Sane, OnePlace, Given, Past, Answered
  <2>8. Good(z, m)
    BY <1>1, <2>3, <2>4, <2>5, <2>6, <2>7 DEF Good, Sane, Somewhere
  <2> QED
    BY <2>1, <2>8 DEF z
<1>6. Landed(x, k) = IF ~armed THEN y
                     ELSE IF k.result = "crossfaded" THEN staged("Fading")
                     ELSE IF k.result = "gapless" THEN staged("Queued")
                     ELSE CommitTransition(y)
  BY DEF Landed, y
<1> QED
  BY <1>2, <1>3, <1>4, <1>5, <1>6 DEF Opened

LEMMA FinishedIsGood ==
  ASSUME NEW x, NEW m, NEW k, Opened(x, m, k), k.type = "LoadFinished", NEW near
  PROVE  Good(HandleLoadFinished(x, k, near), m)
<1>1. CASE x.intent.token # k.token
  BY <1>1 DEF Opened, HandleLoadFinished
<1>2. CASE x.intent.token = k.token
  <2> DEFINE idle == [x EXCEPT !.task = None]
             done == Landed(x, k)
  <2>1. Sane(x, m) /\ Given(x, k.token) /\ More(x.out, x.out, Others)
        /\ x.phase \in Phases /\ Before(x, x.armed)
    BY MoreSelf DEF Opened, Sane, Fresh, Typed
  <2>2. /\ DOMAIN idle = Fields /\ idle.pending = x.pending /\ idle.intent = x.intent
        /\ idle.nextToken = x.nextToken /\ idle.task = None /\ idle.out = x.out
        /\ idle.phase = x.phase /\ idle.armed = x.armed /\ idle.raced = x.raced /\ idle.forsaken = x.forsaken
    BY <2>1 DEF Sane, Shaped, Fields
  <2>3. HandleLoadFinished(x, k, near) = IF k.result = "dropped" THEN idle
                                         ELSE IF k.result = "failed" THEN FailLoad(idle, k.token)
                                         ELSE ArmGaplessNow(done, near)
    BY <1>2 DEF HandleLoadFinished, Landed
  <2> HIDE DEF done, idle
  <2>4. Sane(idle, m)
    BY <2>1, <2>2, KeepsSane DEF Marks
  <2>5. k.result = "dropped" => Good(idle, m)
    BY <1>2, <2>2, <2>4 DEF Opened, Good, Somewhere, IsLoading
  <2>6. Good(FailLoad(idle, k.token), m)
    BY <1>2, <2>2, <2>4, FailIsGood DEF Opened, Past
  <2>7. Good(done, m) /\ done.intent = Committed(k.token)
    BY <1>2, LandedIsGood DEF done
  <2>8. done.intent.token # 0
    BY <2>1, <2>7 DEF Committed, Given
  <2>9. Good(ArmGaplessNow(done, near), m)
    BY <2>7, <2>8, ArmNowIsGood
  <2> QED
    BY <2>3, <2>5, <2>6, <2>9
<1> QED
  BY <1>1, <1>2

LEMMA MailIsGood ==
  ASSUME NEW x, NEW m, NEW k, Opened(x, m, k), NEW near
  PROVE  Good(HandleMail(x, k, near), m)
<1>1. Good(FailLoad(x, k.token), m)
  BY FailIsGood DEF Opened, Past
<1> QED
  BY <1>1, PreparedIsGood, FinishedIsGood DEF Opened, HandleMail

LEMMA EndedIsGood ==
  ASSUME NEW x, NEW m, Good(x, m), NEW t
  PROVE  Good(HandleEnded(x, t), m)
<1> DEFINE model == CommitModel(x)
           late == [model EXCEPT !.intent = Loading(x.pending.token, FALSE, t),
                                 !.phase = "Ended"]
           base == IF t # x.intent.token THEN RevertTransition(x) ELSE x
           y == [base EXCEPT !.phase = "Ended"]
<1>1. ASSUME IsOutgoing(x, t), x.pending.stage = "Loading" PROVE Good(late, m)
  <2>1. /\ DOMAIN model = Fields /\ model.pending = None /\ model.nextToken = x.nextToken
        /\ model.task = x.task /\ model.out = x.out /\ model.armed = x.armed
        /\ model.raced = x.raced /\ model.forsaken = x.forsaken
    BY CommitEnds DEF Good, Sane, Shaped
  <2> HIDE DEF model
  <2>2. /\ DOMAIN late = Fields /\ late.pending = None /\ late.nextToken = x.nextToken
        /\ late.task = x.task /\ late.out = x.out /\ late.armed = x.armed
        /\ late.raced = x.raced /\ late.forsaken = x.forsaken /\ late.phase = "Ended"
        /\ late.intent = Loading(x.pending.token, FALSE, t)
    BY <2>1 DEF Fields
  <2>3. x.pending # None /\ t = x.pending.from
    BY <1>1 DEF IsOutgoing
  <2>4. \/ IsLoading(x) /\ x.intent.token = x.pending.token
        \/ x.pending.token \in x.forsaken
    <3>1. \/ x.intent = Loading(x.pending.token, TRUE, x.pending.from)
          \/ x.pending.token \in x.forsaken
      BY <1>1, <2>3 DEF Good, Sane, Intended
    <3> QED
      BY <3>1 DEF IsLoading, Loading
  <2> HIDE DEF late
  <2>5. /\ late.intent.token = x.pending.token /\ late.intent.from = t
        /\ late.intent.deferred = FALSE
    BY <2>2 DEF Loading
  <2>6. Fresh(late, m)
    BY <2>2, SameIsFresh DEF Good, Sane, OnePlace
  <2>7. Typed(late)
    <3>1. Given(x, x.pending.token) /\ Before(x, t)
      BY <2>3 DEF Good, Sane, Typed, Given, Before, Session, OnePlace
    <3>3. Given(late, late.intent.token) /\ Before(late, late.intent.from)
      BY <2>2, <2>5, <3>1 DEF Given, Before
    <3>2. late.phase \in Phases /\ Before(late, late.armed)
      BY <2>2 DEF Good, Sane, Typed, Phases, Before
    <3> QED
      BY <2>2, <2>5, <3>2, <3>3 DEF Typed
  <2>8. Shaped(late) /\ Intended(late) /\ ~Past(late)
    BY <2>2 DEF Good, Sane, Shaped, Intended, Past
  <2>9. OnePlace(late, m)
    BY <2>2, <2>4, <2>5 DEF Good, Sane, OnePlace, Given, IsLoading
  <2>10. Somewhere(late, m)
    BY <2>2, <2>4, <2>5 DEF Good, Somewhere, Coming, SentFor, To
  <2> QED
    BY <2>6, <2>7, <2>8, <2>9, <2>10 DEF Good, Sane
<1>2. Good(PlayNext(y), m)
  <2>1. Good(base, m)
    BY RevertIsGood
  <2> HIDE DEF base
  <2>2. Good(y, m)
    BY <2>1, PhaseIsGood DEF Phases
  <2> HIDE DEF y
  <2> QED
    BY <2>2, PlayNextIsGood
<1> QED
  BY <1>1, <1>2 DEF HandleEnded

\* The transition is over: the pointer follows it.
LEMMA CommitIsGood ==
  ASSUME NEW x, NEW m, Good(x, m), x.pending # None
  PROVE  Good(CommitTransition(x), m)
<1> DEFINE y == CommitTransition(x)
<1>1. /\ DOMAIN y = Fields /\ y.pending = None /\ y.nextToken = x.nextToken
      /\ y.task = x.task /\ y.out = x.out /\ y.intent = x.intent
      /\ y.phase = x.phase /\ y.armed = x.pending.from /\ y.raced = x.raced /\ y.forsaken = x.forsaken
  BY CommitEnds DEF Good, Sane, Shaped
<1> HIDE DEF y
<1>2. Before(x, x.pending.from)
  BY DEF Good, Sane, Typed, OnePlace, Session, Given, Before
<1>3. Shaped(y) /\ Intended(y) /\ ~Past(y)
  BY <1>1 DEF Good, Sane, Shaped, Intended, Past
<1>4. Typed(y)
  BY <1>1, <1>2 DEF Good, Sane, Typed, Given, Before, Session, Taken
<1>5. Fresh(y, m)
  BY <1>1, SameIsFresh DEF Good, Sane, OnePlace
<1>6. OnePlace(y, m)
  BY <1>1 DEF Good, Sane, OnePlace, Given, IsLoading
<1>7. Somewhere(y, m)
  BY <1>1 DEF Good, Somewhere, IsLoading, Coming, SentFor, To
<1>8. Good(y, m)
  BY <1>3, <1>4, <1>5, <1>6, <1>7 DEF Good, Sane
<1> QED
  BY <1>8 DEF y

LEMMA SwitchedIsGood ==
  ASSUME NEW x, NEW m, Good(x, m), NEW t, NEW near
  PROVE  Good(HandleSwitched(x, t, near), m)
<1> DEFINE y == CommitTransition(x)
           z == [y EXCEPT !.phase = "Playing"]
<1>1. CASE x.pending = None \/ x.pending.token # t
  BY <1>1 DEF HandleSwitched
<1>2. CASE ~(x.pending = None \/ x.pending.token # t)
  <2>1. Good(y, m) /\ y.intent = x.intent /\ y.raced = x.raced
    BY <1>2, CommitIsGood, CommitEnds DEF Good, Sane, Shaped
  <2> HIDE DEF y
  <2>2. Good(z, m) /\ z.intent = x.intent /\ z.raced = x.raced
    BY <2>1, PhaseIsGood DEF Phases
  <2> HIDE DEF z
  <2>3. Given(x, x.pending.token)
    BY <1>2 DEF Good, Sane, Typed
  <2>4. mode = "gapless" => z.intent.token # 0 \/ Taken(z)
    BY <1>2, <2>2, <2>3 DEF Good, Sane, Shaped, Intended, Typed, Loading, Committed, Given, Taken
  <2>5. Good(ArmGaplessNow(z, near), m)
    BY <2>2, <2>4, ArmNowIsGood
  <2> QED
    BY <1>2, <2>5 DEF HandleSwitched, y, z
<1> QED
  BY <1>1, <1>2

LEMMA ErrorIsGood ==
  ASSUME NEW x, NEW m, Good(x, m), NEW t
  PROVE  Good(HandleError(x, t), m)
<1>1. CASE x.pending # None /\ x.pending.stage = "Queued" /\ x.pending.token = t
  <2> DEFINE r == RevertTransition(x)
             y == [r EXCEPT !.armed = x.pending.from]
  <2>1. Good(r, m)
    BY RevertIsGood
  <2>2. Before(r, x.pending.from)
    <3>1. r.nextToken = x.nextToken
      BY CancelIsMore DEF Good, Sane, Shaped, Fresh, Fields, RevertTransition
    <3> QED
      BY <1>1, <3>1 DEF Good, Sane, Typed, Given, Before, Session, OnePlace
  <2> HIDE DEF r
  <2>3. /\ DOMAIN y = Fields /\ y.pending = r.pending /\ y.intent = r.intent
        /\ y.nextToken = r.nextToken /\ y.task = r.task /\ y.phase = r.phase
        /\ y.armed = x.pending.from /\ y.out = r.out /\ y.raced = r.raced /\ y.forsaken = r.forsaken
    BY <2>1 DEF Good, Sane, Shaped, Fields
  <2>4. /\ More(r.out, r.out, Others) /\ More(r.out, r.out, Tame) /\ r.phase \in Phases
    BY <2>1, MoreSelf DEF Good, Sane, Fresh, Typed
  <2> HIDE DEF y
  <2>5. Good(y, m)
    BY <2>1, <2>2, <2>3, <2>4, KeepsGood DEF Marks
  <2> QED
    BY <1>1, <2>5 DEF HandleError, r, y
<1>2. CASE ~(x.pending # None /\ x.pending.stage = "Queued" /\ x.pending.token = t)
  BY <1>2, FailIsGood DEF Good, HandleError
<1> QED
  BY <1>1, <1>2

\* A stale session is stopped: the load that is waited for is not yet sent, or
\* it is forsaken.
LEMMA StaleIsGood ==
  ASSUME NEW x, Good(x, mail)
  PROVE  Good(StopStale(x), mail)
<1> DEFINE told == Send(x, "Stop")
           hits == IsLoading(x) /\ ~Unsent(x)
           race == told.raced \/ hits
           forsaken == IF hits THEN told.forsaken \cup {x.intent.token} ELSE told.forsaken
           y == [told EXCEPT !.raced = race, !.forsaken = forsaken]
<1>1. /\ DOMAIN told = Fields /\ More(x.out, told.out, Others)
      /\ told.pending = x.pending /\ told.intent = x.intent /\ told.nextToken = x.nextToken
      /\ told.task = x.task /\ told.phase = x.phase /\ told.armed = x.armed
      /\ told.raced = x.raced /\ told.forsaken = x.forsaken
  BY SendIsMore DEF Good, Sane, Shaped, Fresh, Others
<1>2. StopStale(x) = IF hits THEN [told EXCEPT !.raced = TRUE,
                                               !.forsaken = @ \cup {x.intent.token}]
                     ELSE told
  BY DEF StopStale
<1>3. /\ x.raced => race
      /\ x.forsaken \subseteq forsaken /\ (race \/ forsaken = x.forsaken)
      /\ x.intent.token \in forsaken \/ ~IsLoading(x) \/ Unsent(x)
  BY <1>1
<1>8. CASE ~hits
  <2>1. \/ ~IsLoading(x) \/ Coming(x, mail, x.intent.token)
        \/ x.intent.token \in x.forsaken
    BY <1>8 DEF Unsent, Coming, Good, Sane, OnePlace
  <2>2. x.phase \in Phases /\ Before(x, x.armed)
    BY DEF Good, Sane, Typed
  <2>3. Good(told, mail)
    BY <1>1, <2>1, <2>2, KeepsGood DEF Marks
  <2> QED
    BY <1>2, <1>8, <2>3
<1> SUFFICES ASSUME hits PROVE Good(StopStale(x), mail)
  BY <1>8
<1>9. StopStale(x) = y
  BY <1>2
<1> HIDE DEF told, race, forsaken, hits
<1>4. /\ DOMAIN y = Fields /\ y.out = told.out /\ y.raced = race /\ y.forsaken = forsaken
      /\ y.pending = x.pending /\ y.intent = x.intent /\ y.nextToken = x.nextToken
      /\ y.task = x.task /\ y.phase = x.phase /\ y.armed = x.armed
  BY <1>1 DEF Fields
<1> HIDE DEF y
<1>5. IsLoading(x) /\ Unsent(x) => \/ Coming(x, mail, x.intent.token)
                                   \/ x.intent.token \in x.forsaken
  BY DEF Unsent, Coming, Good, Sane, OnePlace
<1>6. x.phase \in Phases /\ Before(x, x.armed)
  BY DEF Good, Sane, Typed
<1>7. Good(y, mail)
  BY <1>1, <1>3, <1>4, <1>5, <1>6, KeepsGood DEF Marks
<1> QED
  BY <1>9, <1>7

\* What plays, or is heard of, is a session.
Sensible(e) ==
    /\ e.type = "PhaseChanged" /\ e.phase = "Playing" => e.token # 0
    /\ e.type = "Position" => e.token # 0

LEMMA EventIsGood ==
  ASSUME NEW x, Good(x, mail), NEW e, Sensible(e), NEW near
  PROVE  Good(HandleEvent(x, e, near), mail)
<1>1. Good(StopStale(x), mail)
  BY StaleIsGood
<1>2. ASSUME e.type = "PhaseChanged", e.phase \in {"Playing", "Paused"}
      PROVE  Good(HandlePhase(x, e, near), mail)
  <2> DEFINE y == [x EXCEPT !.phase = e.phase]
  <2>1. Good(y, mail) /\ y.intent = x.intent /\ y.phase = e.phase
    BY <1>2, PhaseIsGood DEF Phases
  <2> HIDE DEF y
  <2>2. e.token = x.intent.token => Good(ArmGaplessNow(y, near), mail)
    BY <1>2, <2>1, ArmNowIsGood DEF Sensible
  <2> QED
    BY <1>1, <2>2 DEF HandlePhase, y
<1>3. Good([x EXCEPT !.phase = "Idle"], mail)
  BY PhaseIsGood DEF Phases
<1>4. e.type = "Position" => Good(HandlePosition(x, e.token), mail)
  BY ArmIsGood DEF HandlePosition, Sensible
<1>5. /\ Good(HandleEnded(x, e.token), mail) /\ Good(HandleSwitched(x, e.token, near), mail)
      /\ Good(HandleError(x, e.token), mail)
  BY EndedIsGood, SwitchedIsGood, ErrorIsGood
<1> QED
  BY <1>1, <1>2, <1>3, <1>4, <1>5 DEF HandleEvent

-----------------------------------------------------------------------------
(* The engine's steps keep its types, and what they emit makes sense.        *)

Heard(v) == v \in Seq(ToSet(v)) /\ \A i \in DOMAIN v : Sensible(v[i])

LEMMA HeardConcat ==
  ASSUME NEW v, NEW w, Heard(v), Heard(w) PROVE Heard(v \o w)
<1>1. /\ v \o w \in Seq(ToSet(v \o w)) /\ Len(v) \in Nat /\ Len(w) \in Nat
      /\ DOMAIN (v \o w) = 1 .. Len(v) + Len(w)
      /\ \A i \in 1 .. Len(v) : (v \o w)[i] = v[i]
      /\ \A i \in Len(v) + 1 .. Len(v) + Len(w) : (v \o w)[i] = w[i - Len(v)]
  BY Concat DEF Heard
<1>2. DOMAIN v = 1 .. Len(v) /\ DOMAIN w = 1 .. Len(w)
  BY DEF Heard
<1>3. \A i \in 1 .. Len(v) + Len(w) : Sensible((v \o w)[i])
  <2> TAKE i \in 1 .. Len(v) + Len(w)
  <2>1. CASE i <= Len(v)
    BY <1>1, <1>2, <2>1 DEF Heard
  <2>2. CASE ~(i <= Len(v))
    <3>1. i - Len(v) \in DOMAIN w /\ i \in Len(v) + 1 .. Len(v) + Len(w)
      BY <1>1, <1>2, <2>2
    <3> QED
      BY <1>1, <3>1 DEF Heard
  <2> QED
    BY <2>1, <2>2
<1> QED
  BY <1>1, <1>3 DEF Heard

LEMMA HeardNone == Heard(<<>>)
  BY DEF Heard, ToSet

LEMMA HeardOne == ASSUME NEW e, Sensible(e) PROVE Heard(<<e>>)
<1>1. <<e>> \in Seq({e}) /\ DOMAIN <<e>> = 1 .. 1 /\ <<e>>[1] = e
  OBVIOUS
<1>2. \A i \in DOMAIN <<e>> : <<e>>[i] = e
  BY <1>1
<1> QED
  BY <1>1, <1>2, OwnElements DEF Heard

LEMMA PhasesAreSensible ==
  ASSUME NEW e, NEW new, NEW x, EngineTyped(new, x)
  PROVE  Heard(PhaseEvents(e, new))
<1> DEFINE k == [type |-> "PhaseChanged", token |-> new.last, phase |-> EnginePhase(new)]
<1>1. EnginePhase(new) = "Playing" => new.cur # None
  BY DEF EnginePhase
<1>2. Sensible(k)
  BY <1>1 DEF Sensible, EngineTyped
<1> HIDE DEF k
<1>3. Heard(<<k>>)
  BY <1>2, HeardOne
<1> QED
  BY <1>3, HeardNone DEF PhaseEvents, k

\* A step keeps the engine's types, and what it emits makes sense.
StepTyped(r, x) == EngineTyped(r.eng, x) /\ Heard(r.events)

LEMMA StepIsTyped ==
  ASSUME NEW e, NEW new, NEW x, EngineTyped(new, x), NEW before, NEW after, NEW reply,
         Heard(before), Heard(after)
  PROVE  /\ StepTyped(Step(e, new, before, after, reply), x)
         /\ Step(e, new, before, after, reply).eng = new
         /\ Step(e, new, before, after, reply).reply = reply
<1>1. Heard(before \o PhaseEvents(e, new))
  BY PhasesAreSensible, HeardConcat
<1>2. Heard(before \o PhaseEvents(e, new) \o after)
  BY <1>1, HeardConcat
<1> QED
  BY <1>2 DEF StepTyped, Step

LEMMA EventsAreSensible ==
  ASSUME NEW type \in {"Loaded", "Error", "Ended", "TrackSwitched"}, NEW t
  PROVE  Heard(<<Event(type, t)>>)
<1>1. Sensible(Event(type, t))
  BY DEF Event, Sensible
<1> QED
  BY <1>1, HeardOne

LEMMA CommandedIsTyped ==
  ASSUME NEW e, NEW x, x.nextToken \in Nat, 0 < x.nextToken, EngineTyped(e, x), NEW c,
         c.op \in Others \cup {"Load"}
  PROVE  /\ StepTyped(Commanded(e, c), x)
         /\ c.op = "Load" =>
               /\ Commanded(e, c).eng.pend = [token |-> c.token, transition |-> c.transition]
               /\ Commanded(e, c).reply = Dropped(e)
         /\ c.op \in {"Cancel", "Stop"} =>
               Commanded(e, c).eng.pend = None /\ Commanded(e, c).reply = Dropped(e)
         /\ c.op \in Tame =>
               Commanded(e, c).eng.pend = e.pend /\ Commanded(e, c).reply = NoReply
<1>1. CASE c.op = "Load"
  <2> DEFINE pend == [token |-> c.token, transition |-> c.transition]
             new == [e EXCEPT !.pend = pend]
  <2>1. Commanded(e, c) = Step(e, new, <<>>, <<>>, Dropped(e))
    BY <1>1 DEF Commanded
  <2> HIDE DEF pend
  <2>2. EngineTyped(new, x) /\ new.pend = pend
    BY DEF EngineTyped, EngineFields
  <2> HIDE DEF new
  <2>3. StepTyped(Step(e, new, <<>>, <<>>, Dropped(e)), x)
    BY <2>2, StepIsTyped, HeardNone
  <2> QED
    BY <1>1, <2>1, <2>2, <2>3 DEF Step, Tame, pend
<1>2. CASE c.op = "Cancel"
  <2> DEFINE new == [e EXCEPT !.pend = None, !.next = 0]
  <2>1. Commanded(e, c) = Step(e, new, <<>>, <<>>, Dropped(e))
    BY <1>2 DEF Commanded
  <2>2. EngineTyped(new, x) /\ new.pend = None
    BY DEF EngineTyped, EngineFields, Before
  <2> HIDE DEF new
  <2>3. StepTyped(Step(e, new, <<>>, <<>>, Dropped(e)), x)
    BY <2>2, StepIsTyped, HeardNone
  <2> QED
    BY <1>2, <2>1, <2>2, <2>3 DEF Step, Tame
<1>3. CASE c.op = "Stop"
  <2> DEFINE new == [NewEngine EXCEPT !.last = e.last]
  <2>1. Commanded(e, c) = Step(e, new, <<>>, <<>>, Dropped(e))
    BY <1>3 DEF Commanded
  <2>2. EngineTyped(new, x) /\ new.pend = None
    BY DEF NewEngine, EngineTyped, EngineFields, Before
  <2> HIDE DEF new
  <2>3. StepTyped(Step(e, new, <<>>, <<>>, Dropped(e)), x)
    BY <2>2, StepIsTyped, HeardNone
  <2> QED
    BY <1>3, <2>1, <2>2, <2>3 DEF Step, Tame
<1>4. CASE c.op \in Tame
  <2>1. PICK new : /\ Commanded(e, c) = Step(e, new, <<>>, <<>>, NoReply)
                   /\ new \in {[e EXCEPT !.held = TRUE], [e EXCEPT !.held = FALSE],
                               Seeked(e, c.token)}
    BY <1>4 DEF Commanded, Quietly, Tame
  <2>2. EngineTyped([e EXCEPT !.held = TRUE], x) /\ [e EXCEPT !.held = TRUE].pend = e.pend
    BY DEF EngineTyped, EngineFields
  <2>3. EngineTyped([e EXCEPT !.held = FALSE], x) /\ [e EXCEPT !.held = FALSE].pend = e.pend
    BY DEF EngineTyped, EngineFields
  <2>4. EngineTyped(Seeked(e, c.token), x) /\ Seeked(e, c.token).pend = e.pend
    <3> DEFINE v == Visible(e)
               held == e.held /\ ~v.ended
               sought == [e EXCEPT !.cur = Started(v.token), !.fade = 0, !.next = 0,
                                   !.last = v.token, !.held = held]
    <3>1. v # None => Before(x, v.token) /\ v.token # 0
      BY DEF Visible, Started, EngineTyped, Before
    <3>2. Seeked(e, c.token) = e \/ (v # None /\ Seeked(e, c.token) = sought)
      BY DEF Seeked
    <3> HIDE DEF v, held
    <3>3. DOMAIN Started(v.token) = {"token", "ended"} /\ Started(v.token).token = v.token
      BY DEF Started
    <3>4. v # None => EngineTyped(sought, x) /\ sought.pend = e.pend
      BY <3>1, <3>3 DEF EngineTyped, EngineFields, Before
    <3> QED
      BY <3>2, <3>4
  <2>5. EngineTyped(new, x) /\ new.pend = e.pend
    BY <2>1, <2>2, <2>3, <2>4
  <2>6. StepTyped(Step(e, new, <<>>, <<>>, NoReply), x)
    BY <2>5, StepIsTyped, HeardNone
  <2> QED
    BY <1>4, <2>1, <2>5, <2>6 DEF Step, Tame
<1> QED
  BY <1>1, <1>2, <1>3, <1>4 DEF Others

LEMMA StartsIsTyped ==
  ASSUME NEW e, NEW x, x.nextToken \in Nat, EngineTyped(e, x), CanStart(e),
         Given(x, e.pend.token)
  PROVE  /\ StepTyped(Starts(e), x) /\ Starts(e).eng.pend = None
         /\ Starts(e).reply.token = e.pend.token
         /\ Starts(e).reply.result \in {"crossfaded", "gapless", "started"}
         /\ Starts(e).reply.result = "crossfaded" => e.pend.transition = "crossfade"
<1> DEFINE t == e.pend.token
           free == [e EXCEPT !.pend = None, !.next = 0]
           faded == [free EXCEPT !.fade = e.cur.token, !.cur = Started(t), !.last = t]
           queued == [free EXCEPT !.next = t]
           held == e.held /\ e.pend.transition # "immediate"
           begun == [free EXCEPT !.fade = 0, !.cur = Started(t), !.last = t, !.held = held]
           loaded == <<Event("Loaded", t)>>
<1>1. /\ DOMAIN free = EngineFields /\ free.fade = e.fade /\ free.next = 0
      /\ free.last = e.last /\ free.cur = e.cur /\ free.pend = None /\ free.held = e.held
  BY DEF EngineTyped, EngineFields
<1>2. /\ Before(x, t) /\ t # 0 /\ Before(x, 0)
      /\ DOMAIN Started(t) = {"token", "ended"} /\ Started(t).token = t
  BY DEF Given, Before, Started
<1>3. Heard(loaded) /\ Heard(<<>>)
  BY EventsAreSensible, HeardNone
<1>4. \/ /\ Starts(e) = Step(e, faded, <<>>, loaded, Reply(t, "crossfaded"))
         /\ e.pend.transition = "crossfade" /\ e.cur # None
      \/ Starts(e) = Step(e, queued, <<>>, loaded, Reply(t, "gapless"))
      \/ Starts(e) = Step(e, begun, <<>>, loaded, Reply(t, "started"))
  <2>1. begun = [free EXCEPT !.fade = 0, !.cur = Started(t), !.last = t,
                             !.held = @ /\ e.pend.transition # "immediate"]
    BY <1>1
  <2> HIDE DEF begun, free
  <2> QED
    BY <2>1 DEF Starts, Sounding, free
<1> HIDE DEF free, held, loaded, t
<1>5. e.cur # None => EngineTyped(faded, x) /\ faded.pend = None
  BY <1>1, <1>2 DEF EngineTyped, EngineFields
<1>6. EngineTyped(queued, x) /\ queued.pend = None
  BY <1>1, <1>2 DEF EngineTyped, EngineFields
<1>7. EngineTyped(begun, x) /\ begun.pend = None
  BY <1>1, <1>2 DEF EngineTyped, EngineFields
<1> HIDE DEF faded, queued, begun
<1>8. \A result : Reply(t, result).token = t /\ Reply(t, result).result = result
  BY DEF Reply
<1>9. CASE /\ Starts(e) = Step(e, faded, <<>>, loaded, Reply(t, "crossfaded"))
           /\ e.pend.transition = "crossfade" /\ e.cur # None
  <2>1. StepTyped(Starts(e), x) /\ Starts(e).eng = faded /\ Starts(e).reply = Reply(t, "crossfaded")
    BY <1>3, <1>5, <1>9, StepIsTyped
  <2> QED
    BY <1>5, <1>8, <1>9, <2>1 DEF t
<1>10. CASE Starts(e) = Step(e, queued, <<>>, loaded, Reply(t, "gapless"))
  <2>1. StepTyped(Starts(e), x) /\ Starts(e).eng = queued /\ Starts(e).reply = Reply(t, "gapless")
    BY <1>3, <1>6, <1>10, StepIsTyped
  <2> QED
    BY <1>6, <1>8, <2>1 DEF t
<1>11. CASE Starts(e) = Step(e, begun, <<>>, loaded, Reply(t, "started"))
  <2>1. StepTyped(Starts(e), x) /\ Starts(e).eng = begun /\ Starts(e).reply = Reply(t, "started")
    BY <1>3, <1>7, <1>11, StepIsTyped
  <2> QED
    BY <1>7, <1>8, <2>1 DEF t
<1> QED
  BY <1>4, <1>9, <1>10, <1>11

\* The moves that answer no load.
LEMMA MovesAreTyped ==
  ASSUME NEW e, NEW x, x.nextToken \in Nat, 0 < x.nextToken, EngineTyped(e, x)
  PROVE  /\ CanEnd(e) => /\ StepTyped(Ends(e), x) /\ Ends(e).eng.pend = e.pend
                         /\ Ends(e).reply = NoReply
         /\ CanSwitch(e) => /\ StepTyped(Switches(e), x) /\ Switches(e).eng.pend = e.pend
                            /\ Switches(e).reply = NoReply
         /\ \A hold \in BOOLEAN : /\ StepTyped(Rebuilds(e, hold), x)
                                   /\ Rebuilds(e, hold).eng.pend = e.pend
                                   /\ Rebuilds(e, hold).reply = NoReply
         /\ \A t \in Playing(e) : /\ StepTyped(Fails(e, t), x)
                                  /\ Fails(e, t).eng.pend = e.pend
                                  /\ Fails(e, t).reply = NoReply
<1>1. Before(x, 0)
  BY DEF Before
<1>2. ASSUME CanEnd(e)
      PROVE  StepTyped(Ends(e), x) /\ Ends(e).eng.pend = e.pend /\ Ends(e).reply = NoReply
  <2> DEFINE cur == [e.cur EXCEPT !.ended = TRUE]
             new == [e EXCEPT !.cur = cur]
             ended == <<Event("Ended", e.cur.token)>>
  <2>1. Ends(e) = Step(e, new, ended, <<>>, NoReply)
    BY DEF Ends
  <2>2. e.cur # None /\ DOMAIN cur = {"token", "ended"} /\ cur.token = e.cur.token
    BY <1>2 DEF CanEnd, Sounding, EngineTyped
  <2> HIDE DEF cur
  <2>3. EngineTyped(new, x) /\ new.pend = e.pend
    BY <2>2 DEF EngineTyped, EngineFields
  <2>4. Heard(ended) /\ Heard(<<>>)
    BY EventsAreSensible, HeardNone
  <2> HIDE DEF new, ended
  <2> QED
    BY <2>1, <2>3, <2>4, StepIsTyped
<1>3. ASSUME CanSwitch(e)
      PROVE  /\ StepTyped(Switches(e), x) /\ Switches(e).eng.pend = e.pend
             /\ Switches(e).reply = NoReply
  <2> DEFINE over == [e EXCEPT !.fade = 0]
             next == [e EXCEPT !.cur = Started(e.next), !.next = 0, !.last = e.next]
             said == IF e.cur = None THEN <<>> ELSE <<Event("TrackSwitched", e.cur.token)>>
             told == <<Event("TrackSwitched", e.next)>>
  <2>1. \/ Switches(e) = Step(e, over, said, <<>>, NoReply)
        \/ e.next # 0 /\ Switches(e) = Step(e, next, told, <<>>, NoReply)
    BY <1>3 DEF Switches, CanSwitch
  <2>2. Heard(said) /\ Heard(told) /\ Heard(<<>>)
    BY EventsAreSensible, HeardNone
  <2>3. EngineTyped(over, x) /\ over.pend = e.pend
    BY <1>1 DEF EngineTyped, EngineFields
  <2>4. DOMAIN Started(e.next) = {"token", "ended"} /\ Started(e.next).token = e.next
    BY DEF Started
  <2>5. e.next # 0 => EngineTyped(next, x) /\ next.pend = e.pend
    BY <1>1, <2>4 DEF EngineTyped, EngineFields
  <2> HIDE DEF over, next, said, told
  <2> QED
    <3>1. CASE Switches(e) = Step(e, over, said, <<>>, NoReply)
      BY <2>2, <2>3, <3>1, StepIsTyped
    <3>2. CASE e.next # 0 /\ Switches(e) = Step(e, next, told, <<>>, NoReply)
      BY <2>2, <2>5, <3>2, StepIsTyped
    <3> QED
      BY <2>1, <3>1, <3>2
<1>4. ASSUME NEW hold \in BOOLEAN
      PROVE  /\ StepTyped(Rebuilds(e, hold), x) /\ Rebuilds(e, hold).eng.pend = e.pend
             /\ Rebuilds(e, hold).reply = NoReply
  <2> DEFINE bare == [e EXCEPT !.fade = 0, !.next = 0]
             cur == [e.cur EXCEPT !.ended = FALSE]
             held == IF e.held THEN ~e.cur.ended ELSE hold
             new == [bare EXCEPT !.cur = cur, !.held = held]
  <2>0. /\ EngineTyped(bare, x) /\ bare.pend = e.pend /\ DOMAIN bare = EngineFields
        /\ bare.held = e.held /\ bare.cur = e.cur
    BY <1>1 DEF EngineTyped, EngineFields
  <2>1. \/ Rebuilds(e, hold) = Step(e, bare, Revival(e, hold), <<>>, NoReply)
        \/ e.cur # None /\ Rebuilds(e, hold) = Step(e, new, Revival(e, hold), <<>>, NoReply)
    <3>1. new = [bare EXCEPT !.cur.ended = FALSE, !.held = IF @ THEN ~e.cur.ended ELSE hold]
      BY <2>0 DEF EngineFields
    <3> HIDE DEF bare, new
    <3> QED
      BY <3>1 DEF Rebuilds, bare
  <2>2. e.cur # None => DOMAIN cur = {"token", "ended"} /\ cur.token = e.cur.token
    BY DEF EngineTyped
  <2> HIDE DEF cur, held, bare
  <2>3. e.cur # None => EngineTyped(new, x) /\ new.pend = e.pend
    BY <1>1, <2>0, <2>2 DEF EngineTyped, EngineFields
  <2> HIDE DEF new
  <2>6. Heard(Revival(e, hold))
    <3> DEFINE k == [type |-> "PhaseChanged", token |-> e.last, phase |-> "Playing"]
    <3>1. e.cur # None => Sensible(k)
      BY <1>1 DEF Sensible, EngineTyped
    <3>2. Revival(e, hold) = <<>> \/ (e.cur # None /\ Revival(e, hold) = <<k>>)
      BY DEF Revival
    <3> HIDE DEF k
    <3> QED
      BY <3>1, <3>2, HeardNone, HeardOne
  <2>4. CASE Rebuilds(e, hold) = Step(e, bare, Revival(e, hold), <<>>, NoReply)
    BY <2>0, <2>4, <2>6, HeardNone, StepIsTyped
  <2>5. CASE e.cur # None /\ Rebuilds(e, hold) = Step(e, new, Revival(e, hold), <<>>, NoReply)
    BY <2>3, <2>5, <2>6, HeardNone, StepIsTyped
  <2> QED
    BY <2>1, <2>4, <2>5
<1>5. ASSUME NEW t \in Playing(e)
      PROVE  /\ StepTyped(Fails(e, t), x) /\ Fails(e, t).eng.pend = e.pend
             /\ Fails(e, t).reply = NoReply
  <2> DEFINE gone == [e EXCEPT !.cur = None]
             cut == [e EXCEPT !.fade = 0]
             dropped == [e EXCEPT !.next = 0]
             said == <<Event("Error", t)>>
  <2>1. \/ Fails(e, t) = Step(e, gone, said, <<>>, NoReply)
        \/ Fails(e, t) = Step(e, cut, <<>>, <<>>, NoReply)
        \/ Fails(e, t) = Step(e, dropped, said, <<>>, NoReply)
    BY <1>5 DEF Fails, Playing, Quietly
  <2>2. Heard(said) /\ Heard(<<>>)
    BY EventsAreSensible, HeardNone
  <2>3. /\ EngineTyped(gone, x) /\ gone.pend = e.pend
        /\ EngineTyped(cut, x) /\ cut.pend = e.pend
        /\ EngineTyped(dropped, x) /\ dropped.pend = e.pend
    BY <1>1 DEF EngineTyped, EngineFields
  <2> HIDE DEF gone, cut, dropped, said
  <2> QED
    BY <2>1, <2>2, <2>3, StepIsTyped
<1> QED
  BY <1>2, <1>3, <1>4, <1>5

LEMMA LettingGoIsTyped ==
  ASSUME NEW e, NEW x, x.nextToken \in Nat, 0 < x.nextToken, EngineTyped(e, x)
  PROVE  /\ StepTyped(LoadFails(e), x) /\ LoadFails(e).eng.pend = None
         /\ LoadFails(e).reply = Reply(e.pend.token, "failed")
         /\ StepTyped(OutputLost(e), x) /\ OutputLost(e).eng.pend = None
<1> DEFINE free == [e EXCEPT !.pend = None]
           new == [NewEngine EXCEPT !.last = e.last]
           said == <<Event("Error", e.pend.token)>>
           told == <<Event("Error", e.last)>>
<1>1. EngineTyped(free, x) /\ free.pend = None
  BY DEF EngineTyped, EngineFields
<1>2. EngineTyped(new, x) /\ new.pend = None
  BY DEF NewEngine, EngineTyped, EngineFields, Before
<1>3. Heard(said) /\ Heard(told) /\ Heard(<<>>)
  BY EventsAreSensible, HeardNone
<1>4. /\ LoadFails(e) = Step(e, free, said, <<>>, Reply(e.pend.token, "failed"))
      /\ OutputLost(e) = Step(e, new, <<>>, told, Dropped(e))
  BY DEF LoadFails, OutputLost
<1> HIDE DEF free, new, said, told
<1> QED
  BY <1>1, <1>2, <1>3, <1>4, StepIsTyped

-----------------------------------------------------------------------------
(* The steps.                                                                *)

Inv == /\ Good(s, mail) /\ s.out = <<>> /\ s.nextToken <= MaxToken + 1
       /\ Heard(events)

\* What a handler sent is on the engine's channel.
LEMMA HandledIsGood ==
  ASSUME Inv, NEW x, NEW m, Good(x, m), Handled(x), mail' = m,
         UNCHANGED <<mode, engine>>, Heard(events')
  PROVE  Inv'
<1>1. /\ DOMAIN s' = Fields /\ s'.pending = x.pending /\ s'.intent = x.intent
      /\ s'.nextToken = x.nextToken /\ s'.task = x.task /\ s'.out = <<>>
      /\ s'.phase = x.phase /\ s'.armed = x.armed /\ s'.raced = x.raced /\ s'.forsaken = x.forsaken
  BY DEF Good, Sane, Shaped, Fields, Handled
<1>2. sent' = To(x) /\ x.nextToken <= MaxToken + 1
  BY DEF Handled, To
<1>3. To(x) \in Seq(ToSet(To(x)))
  BY Concat DEF Good, Sane, Fresh, To
<1>4. To(s)' = To(x)
  <2>1. To(x) \o <<>> = To(x)
    BY <1>3
  <2> QED
    BY <1>1, <1>2, <2>1 DEF To
<1>5. (Shaped(s) /\ Intended(s) /\ Typed(s))'
  BY <1>1 DEF Good, Sane, Shaped, Intended, Typed, Given, Before, Session, Taken
<1>6. (mail \in Seq(ToSet(mail)) /\ OnePlace(s, mail))'
  BY <1>1 DEF Good, Sane, OnePlace, Given, IsLoading, Fades
<1>7. (Past(s) => Answered(s, mail, s.pending.token))'
  BY <1>1 DEF Good, Sane, Past, Answered
<1>8. Fresh(s, mail)'
  <2>1. \A t : Known(x, m, t) => Known(s, mail, t)'
    BY <1>1 DEF Known, Given, Unsaid
  <2>2. FreshIn(s, mail, To(s))'
    BY <1>4, <2>1 DEF Good, Sane, Fresh, FreshIn, Fades
  <2>3. <<>> \in Seq(ToSet(<<>>))
    OBVIOUS
  <2>4. EngineTyped(engine, s)'
    BY <1>1 DEF Good, Sane, Fresh, EngineTyped, Before
  <2> QED
    BY <1>1, <1>2, <1>3, <2>2, <2>3, <2>4 DEF Fresh
<1>9. Somewhere(s, mail)'
  BY <1>1, <1>4 DEF Good, Somewhere, IsLoading, Coming, SentFor, Standing, Held
<1> QED
  BY <1>1, <1>2, <1>5, <1>6, <1>7, <1>8, <1>9 DEF Inv, Good, Sane

\* The mail grows by what the load task reports, and the task is done.
LEMMA ReportIsKept ==
  ASSUME NEW x, NEW m, Sane(x, m), x.task # None, NEW k, k.token = x.task.token,
         k.type \in {"LoadPrepared", "PrepareFailed", "LoadFinished"},
         k.type = "LoadPrepared" => Fades(k.transition),
         k.type = "LoadFinished" /\ k.result = "crossfaded" => mode = "crossfade",
         (k.type = "LoadFinished") # (x.task.stage = "prepare")
  PROVE  LET y == [x EXCEPT !.task = None]
             n == Append(m, k)
         IN  /\ Shaped(y) /\ Intended(y) /\ Typed(y)
             /\ n \in Seq(ToSet(n)) /\ OnePlace(y, n)
             /\ Past(y) => Answered(y, n, y.pending.token)
             /\ \A t : Known(x, m, t) => Known(y, n, t)
             /\ \A t : Coming(x, m, t) => Coming(y, n, t)
             /\ (k.type = "LoadFinished" => k.result # "dropped") => Coming(y, n, k.token)
             /\ y.nextToken = x.nextToken /\ y.out = x.out /\ y.intent = x.intent
             /\ y.raced = x.raced /\ y.forsaken = x.forsaken /\ y.task = None
<1> DEFINE y == [x EXCEPT !.task = None]
           n == Append(m, k)
<1>1. /\ DOMAIN y = Fields /\ y.pending = x.pending /\ y.intent = x.intent
      /\ y.nextToken = x.nextToken /\ y.task = None /\ y.out = x.out
      /\ y.phase = x.phase /\ y.armed = x.armed /\ y.raced = x.raced /\ y.forsaken = x.forsaken
  BY DEF Sane, Shaped, Fields
<1>2. /\ n \in Seq(ToSet(n)) /\ Len(m) \in Nat
      /\ DOMAIN n = 1 .. Len(m) + 1 /\ DOMAIN m = 1 .. Len(m)
      /\ \A i \in 1 .. Len(m) : n[i] = m[i]
      /\ n[Len(m) + 1] = k
  BY AppendMail DEF Sane
<1> HIDE DEF y, n
<1>3. \A i \in DOMAIN n : \/ i \in DOMAIN m /\ n[i] = m[i]
                          \/ i = Len(m) + 1 /\ n[i] = k
  BY <1>2
<1>4. Shaped(y) /\ Intended(y) /\ Typed(y)
  BY <1>1 DEF Sane, Shaped, Intended, Typed, Given, Before, Session, Taken
<1>5. OnePlace(y, n)
  BY <1>1, <1>3 DEF Sane, OnePlace, Given
<1>6. Past(y) => Answered(y, n, y.pending.token)
  BY <1>1, <1>3 DEF Sane, Past, Answered
<1>7. \A t : Known(x, m, t) => Known(y, n, t)
  BY <1>1, <1>3 DEF Known, Given, Unsaid
<1>8. \A i \in DOMAIN m : i \in DOMAIN n /\ n[i] = m[i]
  BY <1>2
<1>9. Len(m) + 1 \in DOMAIN n
  BY <1>2
<1>10. \A t : Coming(x, m, t) => Coming(y, n, t)
  BY <1>2, <1>8, <1>9 DEF Coming
<1>11. (k.type = "LoadFinished" => k.result # "dropped") => Coming(y, n, k.token)
  BY <1>2, <1>9 DEF Coming
<1> QED
  BY <1>1, <1>2, <1>4, <1>5, <1>6, <1>7, <1>10, <1>11 DEF y, n

LEMMA TaskIsGood == ASSUME Inv, TaskPrepares PROVE Inv'
<1> DEFINE k(type) == [type |-> type, token |-> s.task.token, transition |-> s.task.transition]
           y == [s EXCEPT !.task = None]
<1>1. PICK type \in {"LoadPrepared", "PrepareFailed"} : mail' = Append(mail, k(type))
  BY DEF TaskPrepares
<1> DEFINE n == Append(mail, k(type))
<1>2. /\ s.task # None /\ s.task.stage = "prepare" /\ s' = y
      /\ UNCHANGED <<mode, sent, events, engine>>
  BY DEF TaskPrepares
<1>3. /\ k(type).token = s.task.token /\ k(type).type = type
      /\ k(type).transition = s.task.transition
  OBVIOUS
<1>4. Sane(s, mail) /\ Fades(s.task.transition)
  BY <1>2 DEF Inv, Good, Sane, OnePlace
<1> HIDE DEF k
<1>5. /\ Shaped(y) /\ Intended(y) /\ Typed(y)
      /\ n \in Seq(ToSet(n)) /\ OnePlace(y, n)
      /\ Past(y) => Answered(y, n, y.pending.token)
      /\ \A t : Known(s, mail, t) => Known(y, n, t)
      /\ \A t : Coming(s, mail, t) => Coming(y, n, t)
      /\ y.nextToken = s.nextToken /\ y.out = s.out /\ y.intent = s.intent
      /\ y.raced = s.raced /\ y.forsaken = s.forsaken
  BY <1>2, <1>3, <1>4, ReportIsKept
<1> HIDE DEF y, n
<1>6. To(y) = To(s)
  BY <1>5 DEF To
<1>7. Fresh(y, n)
  BY <1>4, <1>5, <1>6 DEF Sane, Fresh, FreshIn, EngineTyped, Before
<1>8. Somewhere(y, n)
  BY <1>2, <1>5, <1>6 DEF Inv, Good, Somewhere, IsLoading, SentFor
<1>9. Good(y, n)
  BY <1>5, <1>7, <1>8 DEF Good, Sane
<1>10. Good(s, mail)'
  BY <1>1, <1>2, <1>9 DEF n, Good, Sane, Fresh, FreshIn, To, Somewhere, SentFor, Held, Standing,
                         OnePlace, Fades, Typed
<1> QED
  BY <1>1, <1>2, <1>5, <1>10 DEF Inv

\* What the engine answers a load that stands or is held: not that it dropped
\* it; and what it holds next.
Answering(x, r) ==
    \A t : IsLoading(s) /\ SentFor(s, sent, t) =>
              \/ t \in x.forsaken
              \/ r.reply.token = t /\ r.reply.result # "dropped"
              \/ /\ r.reply.token # t
                 /\ \/ Standing(sent', t)
                    \/ /\ r.eng.pend # None /\ r.eng.pend.token = t
                       /\ \A i \in DOMAIN sent' : sent'[i].op \in Tame
Taking(r) == \/ r.eng.pend = None \/ r.eng.pend = engine.pend
             \/ /\ sent # <<>> /\ sent' = Tail(sent) /\ Head(sent).op = "Load"
                /\ r.eng.pend.token = Head(sent).token
                /\ r.eng.pend.transition = Head(sent).transition

LEMMA NothingOut ==
  ASSUME NEW x, NEW c, c \in Seq(ToSet(c)) PROVE c \o <<>> = c
  OBVIOUS

\* The commands left are those there were, in their order.
LEMMA SentShifts ==
  ASSUME sent \in Seq(ToSet(sent)), sent' = sent \/ (sent # <<>> /\ sent' = Tail(sent))
  PROVE  /\ sent' \in Seq(ToSet(sent'))
         /\ \E d \in {0, 1} : \A i \in DOMAIN sent' : i + d \in DOMAIN sent
                                                    /\ sent'[i] = sent[i + d]
         /\ sent # <<>> /\ sent' = Tail(sent) =>
               /\ 1 \in DOMAIN sent /\ Head(sent) = sent[1]
               /\ \A i \in DOMAIN sent' : i + 1 \in DOMAIN sent /\ i + 1 # 1
                                          /\ sent'[i] = sent[i + 1]
<1>1. CASE sent' = sent
  <2>1. \A i \in DOMAIN sent : i + 0 = i
    BY DEF ToSet
  <2>2. ~(sent # <<>> /\ sent' = Tail(sent))
    <3>1. ASSUME sent # <<>>, sent' = Tail(sent) PROVE FALSE
      <4>1. Len(Tail(sent)) = Len(sent) - 1 /\ Len(sent) \in Nat
        BY <3>1
      <4> QED
        BY <1>1, <3>1, <4>1
    <3> QED
      BY <3>1
  <2> QED
    BY <1>1, <2>1, <2>2
<1>2. CASE sent # <<>> /\ sent' = Tail(sent)
  <2>1. /\ sent' \in Seq(ToSet(sent')) /\ Len(sent) \in Nat /\ Len(sent) > 0
        /\ DOMAIN sent = 1 .. Len(sent) /\ DOMAIN sent' = 1 .. Len(sent) - 1
        /\ \A i \in 1 .. Len(sent) - 1 : sent'[i] = sent[i + 1]
        /\ Head(sent) = sent[1]
    BY <1>2, TailMail
  <2>2. \A i \in DOMAIN sent' : i + 1 \in DOMAIN sent /\ i + 1 # 1 /\ sent'[i] = sent[i + 1]
    BY <2>1
  <2> QED
    BY <2>1, <2>2
<1> QED
  BY <1>1, <1>2

LEMMA EngineStepIsGood ==
  ASSUME Inv, NEW x, NEW r, DOMAIN x = Fields, x.pending = s.pending,
         x.intent = s.intent, x.nextToken = s.nextToken, x.task = s.task, x.out = s.out,
         x.phase = s.phase, x.armed = s.armed, Marks(s, x),
         EngineSteps(x, r), StepTyped(r, s), Answering(x, r), Taking(r),
         sent' = sent \/ (sent # <<>> /\ sent' = Tail(sent)),
         r.reply.result = "crossfaded" => mode = "crossfade"
  PROVE  Inv'
<1> DEFINE k == [type |-> "LoadFinished", token |-> r.reply.token, result |-> r.reply.result]
           waiting == /\ x.task # None /\ x.task.stage = "reply"
                      /\ x.task.token = r.reply.token
           y == [x EXCEPT !.task = None]
           n == Append(mail, k)
<1>1. engine' = r.eng /\ events' = events \o r.events /\ mode' = mode
  BY DEF EngineSteps
<1>2. Good(s, mail) /\ Sane(s, mail) /\ Sane(x, mail)
  <2>1. More(s.out, x.out, Others) /\ x.phase \in Phases /\ Before(s, x.armed)
    BY MoreSelf DEF Inv, Good, Sane, Fresh, Typed
  <2> QED
    BY <2>1, KeepsSane DEF Inv, Good
<1>3. To(s) = sent /\ To(x) = sent /\ sent \in Seq(ToSet(sent))
  BY <1>2, NothingOut DEF Inv, Sane, Fresh, To
<1>4. /\ (Shaped(s) /\ Intended(s) /\ Typed(s))'
      /\ mail' \in Seq(ToSet(mail')) /\ OnePlace(s', mail')
      /\ Past(s') => Answered(s', mail', s'.pending.token)
      /\ \A t : Known(s, mail, t) => Known(s', mail', t)
      /\ \A t : Coming(s, mail, t) => Coming(s', mail', t)
      /\ s'.nextToken = s.nextToken /\ s'.out = <<>> /\ s'.intent = s.intent
      /\ s'.raced = x.raced /\ s'.forsaken = x.forsaken
      /\ \/ waiting /\ (r.reply.result # "dropped" => Coming(s', mail', r.reply.token))
         \/ ~waiting /\ s'.task = s.task
  <2>1. /\ Shaped(x) /\ Intended(x) /\ Typed(x) /\ OnePlace(x, mail)
        /\ mail \in Seq(ToSet(mail))
        /\ Past(x) => Answered(x, mail, x.pending.token)
        /\ \A t : Known(s, mail, t) => Known(x, mail, t)
        /\ \A t : Coming(s, mail, t) => Coming(x, mail, t)
    BY <1>2 DEF Sane, Known, Given, Unsaid, Coming
  <2>2. CASE waiting
    <3>1. s' = y /\ mail' = n
      BY <2>2 DEF EngineSteps
    <3>2. k.token = r.reply.token /\ k.type = "LoadFinished" /\ k.result = r.reply.result
      OBVIOUS
    <3> HIDE DEF k
    <3>3. /\ Shaped(y) /\ Intended(y) /\ Typed(y)
          /\ n \in Seq(ToSet(n)) /\ OnePlace(y, n)
          /\ Past(y) => Answered(y, n, y.pending.token)
          /\ \A t : Known(x, mail, t) => Known(y, n, t)
          /\ \A t : Coming(x, mail, t) => Coming(y, n, t)
          /\ (k.type = "LoadFinished" => k.result # "dropped") => Coming(y, n, k.token)
          /\ y.nextToken = x.nextToken /\ y.out = x.out /\ y.intent = x.intent
          /\ y.raced = x.raced /\ y.forsaken = x.forsaken
      <4>1. /\ Sane(x, mail) /\ x.task # None /\ k.token = x.task.token
            /\ x.task.stage # "prepare"
            /\ k.type = "LoadFinished" /\ k.result = "crossfaded" => mode = "crossfade"
        BY <1>2, <2>2, <3>2
      <4> QED
        BY <3>2, <4>1, ReportIsKept
    <3> HIDE DEF y, n
    <3>4. Shaped(s') /\ Intended(s') /\ Typed(s)'
      BY <1>1, <3>1, <3>3 DEF Typed
    <3> QED
      BY <2>1, <2>2, <3>1, <3>2, <3>3, <3>4 DEF Inv
  <2>3. CASE ~waiting
    <3>1. s' = x /\ mail' = mail
      BY <2>3 DEF EngineSteps
    <3>2. Shaped(s') /\ Intended(s') /\ Typed(s)'
      BY <1>1, <2>1, <3>1 DEF Typed
    <3> QED
      BY <2>1, <2>3, <3>1, <3>2 DEF Inv
  <2> QED
    BY <2>2, <2>3
<1> HIDE DEF waiting, y, n, k
<1>5. /\ sent' \in Seq(ToSet(sent'))
      /\ \E d \in {0, 1} : \A i \in DOMAIN sent' : i + d \in DOMAIN sent
                                                 /\ sent'[i] = sent[i + d]
      /\ sent # <<>> /\ sent' = Tail(sent) =>
            /\ 1 \in DOMAIN sent /\ Head(sent) = sent[1]
            /\ \A i \in DOMAIN sent' : i + 1 \in DOMAIN sent /\ i + 1 # 1
                                       /\ sent'[i] = sent[i + 1]
  BY <1>3, SentShifts
<1>6. To(s)' = sent'
  BY <1>4, <1>5, NothingOut DEF To
<1>7. Fresh(s, mail)'
  <2>1. FreshIn(s, mail, sent)
    BY <1>2, <1>3 DEF Sane, Fresh
  <2>2. PICK d \in {0, 1} : \A i \in DOMAIN sent' : i + d \in DOMAIN sent
                                                  /\ sent'[i] = sent[i + d]
    BY <1>5
  <2>3. \A i \in DOMAIN sent' : i \in Int
    BY <1>5
  <2>4. \A i \in DOMAIN sent' : sent'[i].op \in Others \cup {"Load"}
    BY <2>1, <2>2 DEF FreshIn
  <2>5. \A i \in DOMAIN sent' : sent'[i].op = "Load" =>
           Known(s', mail', sent'[i].token) /\ Fades(sent'[i].transition)
    BY <1>4, <2>1, <2>2 DEF FreshIn
  <2>6. \A i, j \in DOMAIN sent' :
           sent'[i].op = "Load" /\ sent'[j].op = "Load" /\ sent'[j].token = sent'[i].token
              => i = j
    <3>1. TAKE i, j \in DOMAIN sent'
    <3>2. sent'[i].op = "Load" /\ sent'[j].op = "Load" /\ sent'[j].token = sent'[i].token
             => i + d = j + d
      BY <2>1, <2>2 DEF FreshIn
    <3> QED
      BY <2>3, <3>2
  <2>7. r.eng.pend # None =>
           /\ Known(s', mail', r.eng.pend.token) /\ Fades(r.eng.pend.transition)
           /\ \A i \in DOMAIN sent' : sent'[i].op = "Load" => r.eng.pend.token # sent'[i].token
    <3>1. CASE r.eng.pend = engine.pend
      BY <1>4, <2>1, <2>2, <3>1 DEF FreshIn
    <3>2. CASE /\ sent # <<>> /\ sent' = Tail(sent) /\ Head(sent).op = "Load"
               /\ r.eng.pend.token = Head(sent).token
               /\ r.eng.pend.transition = Head(sent).transition
      BY <1>4, <1>5, <2>1, <3>2 DEF FreshIn
    <3> QED
      BY <3>1, <3>2 DEF Taking
  <2>8. FreshIn(s, mail, sent)'
    BY <1>1, <2>4, <2>5, <2>6, <2>7 DEF FreshIn, Fades
  <2>9. <<>> \in Seq(ToSet(<<>>))
    OBVIOUS
  <2>10. EngineTyped(engine, s)'
    BY <1>1, <1>4 DEF StepTyped, EngineTyped, Before
  <2> QED
    BY <1>4, <1>5, <1>6, <2>8, <2>9, <2>10 DEF Fresh
<1>8. Somewhere(s, mail)'
  <2> DEFINE t == s.intent.token
  <2>1. CASE IsLoading(s) /\ SentFor(s, sent, t)
    <3>1. CASE r.reply.token = t /\ r.reply.result # "dropped"
      <4>1. waiting
        BY <2>1, <3>1 DEF waiting, SentFor
      <4> QED
        BY <1>4, <3>1, <4>1 DEF Somewhere
    <3>2. CASE /\ r.reply.token # t
               /\ \/ Standing(sent', t)
                  \/ /\ r.eng.pend # None /\ r.eng.pend.token = t
                     /\ \A i \in DOMAIN sent' : sent'[i].op \in Tame
      <4>1. ~waiting
        BY <2>1, <3>2 DEF waiting, SentFor
      <4>2. s'.task = s.task
        BY <1>4, <4>1
      <4>3. SentFor(s, sent, t)'
        BY <1>1, <1>4, <2>1, <3>2, <4>2 DEF SentFor, Held, Standing
      <4> QED
        BY <1>4, <1>6, <4>3 DEF Somewhere
    <3>3. CASE t \in x.forsaken
      BY <1>4, <3>3 DEF Somewhere
    <3> QED
      BY <2>1, <3>1, <3>2, <3>3 DEF Answering
  <2>2. CASE ~(IsLoading(s) /\ SentFor(s, sent, t))
    <3>1. IsLoading(s) => t \in s.forsaken \/ Coming(s, mail, t)
      BY <1>2, <1>3, <2>2 DEF Good, Somewhere
    <3> QED
      BY <1>4, <3>1 DEF Somewhere, IsLoading, Marks
  <2> QED
    BY <2>1, <2>2
<1>9. Good(s, mail)'
  BY <1>1, <1>4, <1>7, <1>8 DEF Good, Sane, OnePlace, Fades
<1>10. Heard(events')
  BY <1>1, HeardConcat DEF StepTyped, Inv
<1> QED
  BY <1>4, <1>9, <1>10 DEF Inv

\* The engine takes the first command.
LEMMA CommandIsGood == ASSUME Inv, EngineTakesCommand PROVE Inv'
<1> DEFINE c == Head(sent)
           race == s.raced \/ Surprises(c)
           x == [s EXCEPT !.raced = race]
           r == Commanded(engine, c)
<1>1. sent # <<>> /\ sent' = Tail(sent) /\ EngineSteps(x, r)
  BY DEF EngineTakesCommand
<1> HIDE DEF race
<1>2. /\ DOMAIN x = Fields /\ x.pending = s.pending /\ x.intent = s.intent
      /\ x.nextToken = s.nextToken /\ x.task = s.task /\ x.out = s.out
      /\ x.phase = s.phase /\ x.armed = s.armed /\ Marks(s, x)
  BY DEF Inv, Good, Sane, Shaped, Fields, race, Marks
<1>3. To(s) = sent /\ sent \in Seq(ToSet(sent)) /\ FreshIn(s, mail, sent)
      /\ EngineTyped(engine, s) /\ s.nextToken \in Nat /\ 0 < s.nextToken
  BY NothingOut DEF Inv, Good, Sane, OnePlace, Fresh, To
<1>4. /\ 1 \in DOMAIN sent /\ c = sent[1]
      /\ \A i \in DOMAIN sent : i \in Nat /\ i >= 1
      /\ \A i \in DOMAIN sent' : i + 1 \in DOMAIN sent /\ sent'[i] = sent[i + 1]
      /\ \A i \in DOMAIN sent : i # 1 => i - 1 \in DOMAIN sent' /\ sent'[i - 1] = sent[i]
  <2>1. /\ Len(sent) \in Nat /\ Len(sent) > 0
        /\ DOMAIN sent = 1 .. Len(sent) /\ DOMAIN Tail(sent) = 1 .. Len(sent) - 1
        /\ \A i \in 1 .. Len(sent) - 1 : Tail(sent)[i] = sent[i + 1]
        /\ Head(sent) = sent[1]
    BY <1>1, <1>3, TailMail
  <2> QED
    BY <1>1, <2>1
<1> HIDE DEF c, x
<1>5. c.op \in Others \cup {"Load"}
  BY <1>3, <1>4 DEF FreshIn
<1>6. /\ StepTyped(r, s)
      /\ c.op = "Load" => /\ r.eng.pend = [token |-> c.token, transition |-> c.transition]
                          /\ r.reply = Dropped(engine)
      /\ c.op \in {"Cancel", "Stop"} => r.eng.pend = None /\ r.reply = Dropped(engine)
      /\ c.op \in Tame => r.eng.pend = engine.pend /\ r.reply = NoReply
  BY <1>3, <1>5, CommandedIsTyped
<1> HIDE DEF r
<1>7. Taking(r)
  BY <1>1, <1>5, <1>6 DEF Taking, Others, c
<1>8. r.reply.result # "crossfaded"
  BY <1>5, <1>6 DEF Dropped, Reply, NoReply, Others
<1>9. Answering(x, r)
  <2> SUFFICES ASSUME NEW t, SentFor(s, sent, t)
               PROVE  /\ r.reply.token # t
                      /\ \/ Standing(sent', t)
                         \/ /\ r.eng.pend # None /\ r.eng.pend.token = t
                            /\ \A i \in DOMAIN sent' : sent'[i].op \in Tame
    BY DEF Answering
  <2>1. t # 0
    BY DEF SentFor, Inv, Good, Sane, OnePlace, Given
  <2>2. CASE Held(sent, t)
    <3>1. c.op \in Tame
      BY <1>4, <2>2 DEF Held
    <3>2. \A i \in DOMAIN sent' : sent'[i].op \in Tame
      BY <1>4, <2>2 DEF Held
    <3> QED
      BY <1>6, <2>1, <2>2, <3>1, <3>2 DEF Held, NoReply
  <2>3. CASE Standing(sent, t)
    <3>1. PICK i \in DOMAIN sent : /\ sent[i].op = "Load" /\ sent[i].token = t
                                   /\ \A j \in DOMAIN sent : j > i => sent[j].op \in Tame
      BY <2>3 DEF Standing
    <3>2. r.reply.token # t
      <4>1. engine.pend # None => engine.pend.token # t
        BY <1>3, <3>1 DEF FreshIn
      <4>2. r.reply = Dropped(engine) \/ r.reply = NoReply
        BY <1>5, <1>6 DEF Others
      <4> QED
        BY <2>1, <4>1, <4>2 DEF Dropped, Reply, NoReply
    <3>3. CASE i = 1
      <4>1. r.eng.pend = [token |-> t, transition |-> c.transition] /\ Fades(c.transition)
        BY <1>3, <1>4, <1>6, <3>1, <3>3 DEF FreshIn
      <4>2. t \in Nat
        BY DEF SentFor, Inv, Good, Sane, OnePlace, Given
      <4>3. r.eng.pend # None /\ r.eng.pend.token = t
        BY <4>1, <4>2, NoneIsNothing DEF Fades
      <4>4. \A j \in DOMAIN sent' : j + 1 > 1
        BY <1>1, <1>3, SentShifts
      <4>5. \A j \in DOMAIN sent' : sent'[j].op \in Tame
        BY <1>4, <3>1, <3>3, <4>4
      <4> QED
        BY <3>2, <4>3, <4>5
    <3>4. CASE i # 1
      <4>1. i - 1 \in DOMAIN sent' /\ sent'[i - 1] = sent[i]
        BY <1>4, <3>4
      <4>2. \A j \in DOMAIN sent' : j > i - 1 => sent'[j].op \in Tame
        <5> TAKE j \in DOMAIN sent'
        <5>1. j + 1 \in DOMAIN sent /\ sent'[j] = sent[j + 1] /\ j + 1 \in Nat /\ i \in Nat
          BY <1>4
        <5>2. j \in Int
          BY <1>1, <1>3, SentShifts
        <5>3. j > i - 1 => j + 1 > i
          BY <5>1, <5>2
        <5> QED
          BY <3>1, <5>1, <5>3
      <4>3. Standing(sent', t)
        BY <3>1, <4>1, <4>2 DEF Standing
      <4> QED
        BY <3>2, <4>3
    <3> QED
      BY <3>3, <3>4
  <2> QED
    BY <2>2, <2>3 DEF SentFor
<1> QED
  BY <1>1, <1>2, <1>6, <1>7, <1>8, <1>9, EngineStepIsGood

\* A step of the engine's own that answers nothing.
LEMMA MoveIsGood ==
  ASSUME Inv, NEW b, NEW r, EngineSteps([s EXCEPT !.raced = s.raced \/ b], r),
         StepTyped(r, s), r.eng.pend = engine.pend, r.reply = NoReply, sent' = sent
  PROVE  Inv'
<1> DEFINE race == s.raced \/ b
           x == [s EXCEPT !.raced = race]
<1>1. EngineSteps(x, r)
  OBVIOUS
<1> HIDE DEF race
<1>2. /\ DOMAIN x = Fields /\ x.pending = s.pending /\ x.intent = s.intent
      /\ x.nextToken = s.nextToken /\ x.task = s.task /\ x.out = s.out
      /\ x.phase = s.phase /\ x.armed = s.armed /\ Marks(s, x)
  BY DEF Inv, Good, Sane, Shaped, Fields, race, Marks
<1> HIDE DEF x
<1>3. Taking(r) /\ r.reply.result # "crossfaded"
  BY DEF Taking, NoReply
<1>4. Answering(x, r)
  <2> SUFFICES ASSUME NEW t, SentFor(s, sent, t)
               PROVE  /\ r.reply.token # t
                      /\ \/ Standing(sent', t)
                         \/ /\ r.eng.pend # None /\ r.eng.pend.token = t
                            /\ \A i \in DOMAIN sent' : sent'[i].op \in Tame
    BY DEF Answering
  <2>1. t # 0
    BY DEF SentFor, Inv, Good, Sane, OnePlace, Given
  <2> QED
    BY <2>1 DEF SentFor, Standing, Held, NoReply
<1> QED
  BY <1>1, <1>2, <1>3, <1>4, EngineStepIsGood

\* The pending load starts, or fails.
LEMMA PendingIsGood ==
  ASSUME Inv, NEW r, CanStart(engine), EngineSteps(s, r), StepTyped(r, s), sent' = sent,
         r.eng.pend = None, r.reply.token = engine.pend.token, r.reply.result # "dropped",
         r.reply.result = "crossfaded" => engine.pend.transition = "crossfade"
  PROVE  Inv'
<1>1. FreshIn(s, mail, sent) /\ DOMAIN s = Fields
  BY NothingOut DEF Inv, Good, Sane, Shaped, Fresh, To
<1>2. Taking(r) /\ (r.reply.result = "crossfaded" => mode = "crossfade")
  BY <1>1 DEF Taking, CanStart, FreshIn, Fades
<1>3. Answering(s, r)
  BY <1>1 DEF Answering, CanStart, FreshIn, SentFor, Standing, Held
<1> QED
  BY <1>1, <1>2, <1>3, EngineStepIsGood DEF Marks

LEMMA EngineIsGood == ASSUME Inv, EngineActs PROVE Inv'
<1>1. EngineTyped(engine, s) /\ s.nextToken \in Nat /\ 0 < s.nextToken /\ DOMAIN s = Fields
      /\ FreshIn(s, mail, sent)
  BY NothingOut DEF Inv, Good, Sane, Shaped, OnePlace, Fresh, To
<1>2. CASE EngineTakesCommand
  BY <1>2, CommandIsGood
<1>3. CASE EngineStarts
  <2>1. CanStart(engine) /\ EngineSteps(s, Starts(engine)) /\ sent' = sent
    BY <1>3 DEF EngineStarts, EngineMoves
  <2>2. Given(s, engine.pend.token)
    BY <1>1, <2>1 DEF FreshIn, Known, CanStart
  <2> QED
    BY <1>1, <2>1, <2>2, StartsIsTyped, PendingIsGood
<1>4. CASE EngineLoadFails
  <2>1. CanStart(engine) /\ EngineSteps(s, LoadFails(engine)) /\ sent' = sent
    BY <1>4 DEF EngineLoadFails, EngineMoves
  <2>2. /\ LoadFails(engine).reply.token = engine.pend.token
        /\ LoadFails(engine).reply.result = "failed"
    <3>1. LoadFails(engine).reply = Reply(engine.pend.token, "failed")
      BY <1>1, LettingGoIsTyped
    <3> QED
      BY <3>1 DEF Reply
  <2> QED
    BY <1>1, <2>1, <2>2, LettingGoIsTyped, PendingIsGood
<1>5. CASE EngineEnds \/ EngineSwitches
  <2>1. PICK r : /\ EngineSteps(s, r) /\ sent' = sent
                 /\ StepTyped(r, s) /\ r.eng.pend = engine.pend /\ r.reply = NoReply
    BY <1>1, <1>5, MovesAreTyped DEF EngineEnds, EngineSwitches, EngineMoves
  <2>2. Taking(r) /\ r.reply.result # "crossfaded"
    BY <2>1 DEF Taking, NoReply
  <2>3. Answering(s, r)
    <3>1. \A t : SentFor(s, sent, t) => t # 0
      BY DEF SentFor, Inv, Good, Sane, OnePlace, Given
    <3> QED
      BY <2>1, <3>1 DEF Answering, SentFor, Standing, Held, NoReply
  <2> QED
    BY <1>1, <2>1, <2>2, <2>3, EngineStepIsGood DEF Marks
<1>6. CASE EngineRebuilds
  <2> DEFINE b == (engine.next # 0 /\ ~QueuedKnown) \/ (engine.cur # None /\ engine.cur.ended)
  <2>1. PICK hold \in BOOLEAN :
           /\ sent' = sent
           /\ EngineSteps([s EXCEPT !.raced = @ \/ (engine.next # 0 /\ ~QueuedKnown)
                                                \/ (engine.cur # None /\ engine.cur.ended)],
                          Rebuilds(engine, hold))
    BY <1>6 DEF EngineRebuilds, Trouble
  <2>2. [s EXCEPT !.raced = @ \/ (engine.next # 0 /\ ~QueuedKnown)
                              \/ (engine.cur # None /\ engine.cur.ended)]
           = [s EXCEPT !.raced = s.raced \/ b]
    BY <1>1
  <2> QED
    BY <1>1, <2>1, <2>2, MovesAreTyped, MoveIsGood
<1>7. CASE EngineWorkerFails
  <2>1. PICK t \in Playing(engine) : /\ sent' = sent
           /\ EngineSteps([s EXCEPT !.raced = @ \/ UnderWay], Fails(engine, t))
    BY <1>7 DEF EngineWorkerFails, Trouble, Crossed
  <2>2. [s EXCEPT !.raced = @ \/ UnderWay] = [s EXCEPT !.raced = s.raced \/ UnderWay]
    BY <1>1
  <2> QED
    BY <1>1, <2>1, <2>2, MovesAreTyped, MoveIsGood
<1>8. CASE EngineLosesOutput
  <2> DEFINE race == s.raced \/ UnderWay
             forsaken == IF IsLoading(s) /\ engine.pend # None
                         THEN s.forsaken \cup {engine.pend.token} ELSE s.forsaken
             x == [s EXCEPT !.raced = race, !.forsaken = forsaken]
             r == OutputLost(engine)
  <2>1. sent' = sent /\ EngineSteps(x, r)
    <3>1. sent' = sent /\ EngineSteps(Cut, r)
      BY <1>8 DEF EngineLosesOutput, Trouble
    <3>2. Cut = x
      BY <1>1 DEF Cut, Crossed, Fields
    <3> QED
      BY <3>1, <3>2
  <2>2. StepTyped(r, s) /\ Taking(r) /\ r.reply = Dropped(engine)
    BY <1>1, LettingGoIsTyped DEF Taking, OutputLost, Step
  <2>5. r.reply.result # "crossfaded"
    BY <2>2 DEF Dropped, Reply, NoReply
  <2> HIDE DEF race, r, forsaken
  <2>3. /\ DOMAIN x = Fields /\ x.pending = s.pending /\ x.intent = s.intent
        /\ x.nextToken = s.nextToken /\ x.task = s.task /\ x.out = s.out
        /\ x.phase = s.phase /\ x.armed = s.armed /\ x.raced = race /\ x.forsaken = forsaken
    BY <1>1 DEF Fields
  <2> HIDE DEF x
  <2>4. Answering(x, r)
    <3> SUFFICES ASSUME NEW t, IsLoading(s), SentFor(s, sent, t)
                 PROVE  t \in x.forsaken \/ (r.reply.token # t /\ Standing(sent', t))
      BY DEF Answering
    <3>1. t # 0
      BY DEF SentFor, Inv, Good, Sane, OnePlace, Given
    <3>2. Held(sent, t) => t \in x.forsaken
      BY <2>3 DEF Held, forsaken
    <3>3. Standing(sent, t) /\ engine.pend # None => engine.pend.token # t
      BY <1>1 DEF Standing, FreshIn
    <3>4. Standing(sent, t) => r.reply.token # t
      BY <2>2, <3>1, <3>3 DEF Dropped, Reply, NoReply
    <3> QED
      BY <2>1, <3>2, <3>4 DEF SentFor
  <2>6. Marks(s, x)
    BY <2>3 DEF Marks, race, forsaken, UnderWay
  <2> QED
    BY <2>1, <2>2, <2>3, <2>4, <2>5, <2>6, EngineStepIsGood
<1>9. CASE EnginePosition
  <2> DEFINE k == Event("Position", engine.cur.token)
  <2>1. engine.cur # None
    BY <1>9 DEF EnginePosition, EnginePhase
  <2>2. Sensible(k)
    BY <1>1, <2>1 DEF Sensible, Event, EngineTyped
  <2>3. events' = Append(events, k) /\ UNCHANGED <<s, mode, mail, sent, engine>>
    BY <1>9 DEF EnginePosition
  <2> HIDE DEF k
  <2>4. Heard(Append(events, k))
    <3>1. Heard(events)
      BY DEF Inv
    <3>2. /\ Append(events, k) \in Seq(ToSet(Append(events, k))) /\ Len(events) \in Nat
          /\ DOMAIN Append(events, k) = 1 .. Len(events) + 1
          /\ DOMAIN events = 1 .. Len(events)
          /\ \A i \in 1 .. Len(events) : Append(events, k)[i] = events[i]
          /\ Append(events, k)[Len(events) + 1] = k
      BY <3>1, AppendMail DEF Heard
    <3> QED
      BY <2>2, <3>1, <3>2 DEF Heard
  <2>5. Good(s, mail)'
    <3>1. Fresh(s, mail)'
      BY ZenonT(30), <2>3 DEF Inv, Good, Sane, Fresh, FreshIn, To, Fades
    <3>2. Somewhere(s, mail)'
      BY <2>3 DEF Inv, Good, Somewhere, To, SentFor, Held
    <3>3. (Typed(s) /\ OnePlace(s, mail))'
      BY <2>3 DEF Inv, Good, Sane, Typed, OnePlace, Fades
    <3> QED
      BY <2>3, <3>1, <3>2, <3>3 DEF Inv, Good, Sane
  <2> QED
    BY <2>3, <2>4, <2>5 DEF Inv
<1> QED
  BY <1>2, <1>3, <1>4, <1>5, <1>6, <1>7, <1>8, <1>9 DEF EngineActs

\* Taking the first message off the mail: a load that is dropped is not one
\* that is still waited for.
LEMMA FirstMail ==
  ASSUME NEW x, NEW m, Good(x, m), m # <<>>
  PROVE  Opened(x, Tail(m), Head(m))
<1> DEFINE n == Tail(m)
<1>1. /\ n \in Seq(ToSet(n)) /\ Len(m) \in Nat /\ Len(m) > 0
      /\ DOMAIN m = 1 .. Len(m) /\ DOMAIN n = 1 .. Len(m) - 1
      /\ \A i \in 1 .. Len(m) - 1 : n[i] = m[i + 1]
      /\ Head(m) = m[1]
  BY TailMail DEF Good, Sane
<1> DEFINE k == m[1]
<1> HIDE DEF n
<1>2. \A i \in DOMAIN n : i + 1 \in DOMAIN m /\ i + 1 # 1 /\ n[i] = m[i + 1]
  BY <1>1
<1>3. 1 \in DOMAIN m
  BY <1>1
<1>4. \A i \in DOMAIN m : i = 1 \/ (i - 1 \in DOMAIN n /\ n[i - 1] = m[i])
  BY <1>1
<1>5. OnePlace(x, n)
  <2>1. \A i, j \in DOMAIN n : n[i].token = n[j].token => i = j
    <3>1. TAKE i, j \in DOMAIN n
    <3>2. n[i].token = n[j].token => i + 1 = j + 1
      BY <1>2 DEF Good, Sane, OnePlace
    <3> QED
      BY <1>1, <3>2
  <2> QED
    BY <1>2, <2>1 DEF Good, Sane, OnePlace
<1>6. Answered(x, n, k.token)
  BY <1>2, <1>3 DEF Good, Sane, OnePlace, Answered
<1>7. (Past(x) => Answered(x, n, x.pending.token)) /\ (Past(x) => x.pending.token # k.token)
  BY <1>2, <1>3 DEF Good, Sane, Answered
<1>8. /\ k.type \in {"LoadPrepared", "PrepareFailed", "LoadFinished"} /\ Given(x, k.token)
      /\ k.type = "LoadPrepared" => Fades(k.transition)
      /\ k.type = "LoadFinished" /\ k.result = "crossfaded" => mode = "crossfade"
  BY <1>3 DEF Good, Sane, OnePlace
<1>9. k.type = "LoadPrepared" =>
         /\ \A i \in DOMAIN To(x) : To(x)[i].op = "Load" => To(x)[i].token # k.token
         /\ engine.pend # None => engine.pend.token # k.token
  BY <1>3 DEF Good, Sane, Fresh, FreshIn, Known, Unsaid
<1>10. Fresh(x, n)
  <2>1. \A t : Known(x, m, t) => Known(x, n, t)
    BY <1>2 DEF Known, Unsaid
  <2> QED
    BY <2>1 DEF Good, Sane, Fresh, FreshIn
<1>11. Sane(x, n)
  BY <1>1, <1>5, <1>7, <1>10 DEF Good, Sane
<1>12. x.intent.token # k.token => Good(x, n)
  BY <1>4, <1>11 DEF Good, Somewhere, Coming
<1>13. k.type = "LoadFinished" /\ k.result = "dropped" /\ IsLoading(x) /\ x.intent.token = k.token
          => x.intent.token \in x.forsaken
  BY <1>3 DEF Good, Sane, OnePlace, Somewhere, Coming, SentFor
<1> QED
  BY <1>1, <1>6, <1>7, <1>8, <1>9, <1>11, <1>12, <1>13 DEF Opened, n

LEMMA InitIsGood == Init => Inv
<1> SUFFICES ASSUME Init PROVE Inv
  OBVIOUS
<1>1. /\ DOMAIN s = Fields /\ s.pending = None /\ s.task = None /\ s.nextToken = 1
      /\ s.out = <<>> /\ s.armed = 0 /\ s.phase = "Idle" /\ s.intent = Stopped
      /\ s.forsaken = {}
  BY DEF Init, Fields
<1>2. mail = <<>> /\ sent = <<>> /\ events = <<>> /\ engine = NewEngine
  BY DEF Init
<1>3. <<>> \in Seq(ToSet(<<>>)) /\ <<>> \o <<>> = <<>> /\ DOMAIN <<>> = {}
  OBVIOUS
<1>4. MaxToken \in Nat
  BY PlaybackBounds
<1>5. ~IsLoading(s)
  BY <1>1 DEF IsLoading, Stopped
<1>6. /\ DOMAIN engine = EngineFields /\ engine.fade = 0 /\ engine.next = 0
      /\ engine.last = 0 /\ engine.cur = None /\ engine.pend = None
  BY <1>2 DEF NewEngine, EngineFields
<1>7. EngineTyped(engine, s)
  BY <1>1, <1>6 DEF EngineTyped, Before
<1>8. Fresh(s, mail)
  BY <1>1, <1>2, <1>3, <1>6, <1>7 DEF Fresh, FreshIn, To
<1>9. Typed(s) /\ Shaped(s) /\ Intended(s) /\ ~Past(s)
  BY <1>1 DEF Typed, Phases, Before, Shaped, Intended, Past
<1>10. OnePlace(s, mail)
  BY <1>1, <1>2, <1>3 DEF OnePlace
<1>11. Good(s, mail)
  BY <1>2, <1>3, <1>5, <1>8, <1>9, <1>10 DEF Good, Sane, Somewhere
<1> QED
  BY <1>1, <1>2, <1>4, <1>11, HeardNone DEF Inv

LEMMA SessionIsGood ==
  ASSUME Inv, Client \/ HandleOneMail \/ HandleOneEvent
  PROVE  Inv'
<1>1. CASE Client
  <2>1. PICK c \in IF Unhurried THEN Commands ELSE Hasty, near \in BOOLEAN :
           \E x \in Asked(s, c, near) : Handled(x)
    BY <1>1 DEF Client
  <2>2. PICK x \in Asked(s, c, near) : Handled(x)
    BY <2>1
  <2>3. c \in Requests \cup Edits /\ (c = "Play" => s.pending = None \/ "Play" \in Hasty)
    BY PlaybackBounds DEF Unhurried
  <2>4. Before(s, SessionToken(engine))
    BY DEF Inv, Good, Sane, Fresh, EngineTyped, SessionToken
  <2>5. Good(x, mail)
    BY <2>3, <2>4, AskedIsGood DEF Inv
  <2>6. mail' = mail /\ UNCHANGED <<mode, engine, events>>
    BY <1>1 DEF Client
  <2> QED
    BY <2>2, <2>5, <2>6, HandledIsGood DEF Inv
<1>2. CASE HandleOneMail
  <2>1. PICK near \in BOOLEAN : Handled(HandleMail(s, Head(mail), near))
    BY <1>2 DEF HandleOneMail
  <2>2. mail # <<>> /\ mail' = Tail(mail) /\ UNCHANGED <<mode, engine, events>>
    BY <1>2 DEF HandleOneMail
  <2>3. Good(HandleMail(s, Head(mail), near), Tail(mail))
    BY <2>2, FirstMail, MailIsGood DEF Inv
  <2> QED
    BY <2>1, <2>2, <2>3, HandledIsGood DEF Inv
<1>3. CASE HandleOneEvent
  <2>1. PICK near \in BOOLEAN : Handled(HandleEvent(s, Head(events), near))
    BY <1>3 DEF HandleOneEvent
  <2>2. events # <<>> /\ events' = Tail(events) /\ mail' = mail /\ UNCHANGED <<mode, engine>>
    BY <1>3 DEF HandleOneEvent
  <2>3. Sensible(Head(events)) /\ Heard(events')
    <3>1. Heard(events)
      BY DEF Inv
    <3>2. /\ Tail(events) \in Seq(ToSet(Tail(events)))
          /\ Len(events) \in Nat /\ Len(events) > 0
          /\ DOMAIN events = 1 .. Len(events)
          /\ DOMAIN Tail(events) = 1 .. Len(events) - 1
          /\ \A i \in 1 .. Len(events) - 1 : Tail(events)[i] = events[i + 1]
          /\ Head(events) = events[1]
      BY <2>2, <3>1, TailMail DEF Heard
    <3>3. 1 \in DOMAIN events
      BY <3>2
    <3>4. \A i \in DOMAIN Tail(events) : i + 1 \in DOMAIN events /\ Tail(events)[i] = events[i + 1]
      BY <3>2
    <3> QED
      BY <2>2, <3>1, <3>2, <3>3, <3>4 DEF Heard
  <2>4. Good(HandleEvent(s, Head(events), near), mail)
    BY <2>3, EventIsGood DEF Inv
  <2> QED
    BY <2>1, <2>2, <2>3, <2>4, HandledIsGood DEF Inv
<1> QED
  BY <1>1, <1>2, <1>3

LEMMA InvHolds == Spec => []Inv
<1>1. Inv /\ [Next]_vars => Inv'
  <2>1. Inv /\ Next => Inv'
    BY SessionIsGood, TaskIsGood, EngineIsGood DEF Next
  <2>2. ASSUME Inv, UNCHANGED vars PROVE Inv'
    <3>1. UNCHANGED <<s, mode, mail, sent, events, engine>>
      BY <2>2 DEF vars
    <3>2. Fresh(s, mail)'
      BY ZenonT(30), <2>2, <3>1 DEF Inv, Good, Sane, Fresh, FreshIn, To, Fades
    <3>3. Somewhere(s, mail)'
      BY <2>2, <3>1 DEF Inv, Good, Somewhere, To, SentFor, Held
    <3>4. (Typed(s) /\ OnePlace(s, mail))'
      BY <2>2, <3>1 DEF Inv, Good, Sane, Typed, OnePlace, Fades
    <3> QED
      BY <2>2, <3>1, <3>2, <3>3, <3>4 DEF Inv, Good, Sane
  <2> QED
    BY <2>1, <2>2
<1> QED
  BY InitIsGood, <1>1, PTL DEF Spec

-----------------------------------------------------------------------------
(* The theorems, for every queue, setting and number of loads, commands and  *)
(* failures.                                                                 *)

\* Every field holds a value of its type: no token is used before it is given
\* out, no load from nothing is ever taken for a transition, and no transition
\* is armed from a session that does not exist.
THEOREM SessionTyped ==
  ASSUME "Play" \notin Hasty
  PROVE  Spec => []TypeOK
<1>1. Inv => TypeOK
  <2> SUFFICES ASSUME Inv PROVE TypeOK
    OBVIOUS
  <2>1. MaxToken \in Nat /\ s.nextToken \in Nat /\ 0 < s.nextToken /\ s.nextToken <= MaxToken + 1
    BY PlaybackBounds DEF Inv, Good, Sane, OnePlace
  <2>2. Typed(s) /\ Shaped(s) /\ \A t : Session(s, t) => Given(s, t)
    BY DEF Inv, Good, Sane, Session, Taken
  <2>3. \A t : Given(s, t) => t \in Token
    BY <2>1 DEF Given, Token
  <2>4. \A t : Before(s, t) => t \in Token \cup {0}
    BY <2>1 DEF Before, Token
  <2>5. s.intent \in Intents
    <3>1. CASE s.intent = Stopped
      BY <3>1 DEF Intents
    <3>2. CASE Given(s, s.intent.token) /\ s.intent = Committed(s.intent.token)
      BY <2>3, <3>2 DEF Intents
    <3>3. CASE /\ Given(s, s.intent.token) /\ Before(s, s.intent.from)
               /\ s.intent.deferred \in BOOLEAN
               /\ s.intent = Loading(s.intent.token, s.intent.deferred, s.intent.from)
      BY <2>3, <2>4, <3>3 DEF Intents
    <3> QED
      BY <2>2, <3>1, <3>2, <3>3 DEF Typed
  <2>6. s.nextToken \in Token \cup {MaxToken + 1}
    BY <2>1 DEF Token
  <2> QED
    BY <2>2, <2>3, <2>4, <2>5, <2>6 DEF TypeOK, Typed, Shaped, Phases
<1> QED
  BY <1>1, InvHolds, PTL

\* An armed transition is the intent, until it is heard or given up: after every
\* interleaving of commands, load results and engine events, whatever is pressed
\* when, unless Play was pressed in the transition's own course (resume takes the
\* intent back to the session that is heard and leaves the transition armed).
THEOREM TransitionsAreIntended == Spec => []TransitionIsIntended
<1>1. Inv => TransitionIsIntended
  BY DEF Inv, Good, Sane, Intended, TransitionIsIntended
<1> QED
  BY <1>1, InvHolds, PTL

\* No load is left hanging: with no result, command or event on its way, a load
\* that the session still waits for is one whose transition Play took the intent
\* from, one that went with the output, or one that a Stop for a stale session
\* overtook; whatever was cancelled, superseded, or failed.
THEOREM LoadsSettle == Spec => []LoadSettles
<1>1. Inv => LoadSettles
  <2> SUFFICES ASSUME Inv, Quiet, IsLoading(s), s.intent.token \notin s.forsaken PROVE FALSE
    BY DEF LoadSettles
  <2>1. mail = <<>> /\ s.task = None
    BY DEF Quiet
  <2>2. \A i \in DOMAIN mail : FALSE
    BY <2>1
  <2> QED
    BY <2>1, <2>2 DEF Inv, Good, Somewhere, Coming, SentFor
<1> QED
  BY <1>1, InvHolds, PTL

-----------------------------------------------------------------------------
(* The armed position and the queue.                                         *)

Library == ToSet(Tracks) \cup {NewTrack}

\* The queue is one that the operations reason about, and an armed position is a number.
Whole(x) ==
    /\ DOMAIN x = Fields
    /\ GoodQueue(x.queue, Library)
    /\ x.pending # None => /\ DOMAIN x.pending = PendingFields
                           /\ x.pending.to \in Nat /\ x.pending.gapless \in BOOLEAN

NextTaken(x) == x.pending # None /\ x.pending.gapless => NextPosition(x) = x.pending.to
Followed(x) == x.pending # None /\ "Insert" \notin x.pending.amid =>
                  /\ HasTrack(x.queue, x.pending.to)
                  /\ TrackAt(x.queue, x.pending.to) = x.pending.key
Firm(x) == Whole(x) /\ NextTaken(x) /\ Followed(x)

\* y has the queue of x, and no transition or that of x.
SameTarget(x, y) ==
    /\ y.pending # None /\ x.pending # None /\ DOMAIN y.pending = PendingFields
    /\ y.pending.to = x.pending.to /\ y.pending.key = x.pending.key
    /\ y.pending.gapless = x.pending.gapless /\ x.pending.amid \subseteq y.pending.amid
Keeps(x, y) == /\ DOMAIN y = Fields /\ y.queue = x.queue
               /\ y.pending = None \/ y.pending = x.pending \/ SameTarget(x, y)

LEMMA KeepsFirm ==
  ASSUME NEW x, NEW y, Firm(x), Keeps(x, y)
  PROVE  Firm(y)
<1>1. NextPosition(y) = NextPosition(x)
  BY DEF Keeps, NextPosition
<1> QED
  BY <1>1 DEF Firm, Whole, NextTaken, Followed, Keeps, SameTarget

LEMMA KeepsAgain ==
  ASSUME NEW x, NEW y, NEW z, Keeps(x, y), Keeps(y, z)
  PROVE  Keeps(x, z)
  BY DEF Keeps, SameTarget

\* A step that leaves no transition.
LEMMA NoneIsFirm ==
  ASSUME NEW y, DOMAIN y = Fields, GoodQueue(y.queue, Library), y.pending = None
  PROVE  Firm(y)
  BY DEF Firm, Whole, NextTaken, Followed

LEMMA SendKeeps ==
  ASSUME NEW x, DOMAIN x = Fields, NEW op
  PROVE  Keeps(x, Send(x, op)) /\ Send(x, op).pending = x.pending
  BY DEF Keeps, Send, Fields

LEMMA CancelKeeps ==
  ASSUME NEW x, DOMAIN x = Fields
  PROVE  Keeps(x, CancelLoadTask(x)) /\ CancelLoadTask(x).pending = x.pending
<1> DEFINE idle == [x EXCEPT !.task = None]
<1>1. DOMAIN idle = Fields /\ idle.queue = x.queue /\ idle.pending = x.pending
  BY DEF Fields
<1> HIDE DEF idle
<1> QED
  BY <1>1, SendKeeps DEF CancelLoadTask, idle, Keeps

LEMMA QuitsKeep ==
  ASSUME NEW x, DOMAIN x = Fields, NEW op
  PROVE  LET y == Send(CancelLoadTask(x), op)
         IN  DOMAIN y = Fields /\ y.queue = x.queue /\ y.pending = x.pending
<1> DEFINE c == CancelLoadTask(x)
<1>1. DOMAIN c = Fields /\ c.queue = x.queue /\ c.pending = x.pending
  BY CancelKeeps DEF Keeps
<1> HIDE DEF c
<1> QED
  BY <1>1 DEF Send, Fields, c

LEMMA RevertKeeps ==
  ASSUME NEW x, DOMAIN x = Fields
  PROVE  Keeps(x, RevertTransition(x)) /\ RevertTransition(x).pending = None
<1> DEFINE base == IF x.pending.stage # "Fading" THEN CancelLoadTask(x) ELSE x
           race == base.raced \/ (x.pending.stage # "Fading" /\ ~Unsent(x))
           y == [base EXCEPT !.pending = None, !.armed = 0,
                             !.intent = Committed(x.pending.from), !.raced = race]
<1>1. CASE x.pending = None
  BY <1>1 DEF RevertTransition, Keeps
<1>2. CASE x.pending # None
  <2>1. DOMAIN base = Fields /\ base.queue = x.queue
    BY CancelKeeps DEF Keeps
  <2>2. RevertTransition(x) = y
    BY <1>2 DEF RevertTransition
  <2> HIDE DEF base, race
  <2>3. DOMAIN y = Fields /\ y.queue = x.queue /\ y.pending = None
    BY <2>1 DEF Fields
  <2> QED
    BY <2>2, <2>3 DEF Keeps
<1> QED
  BY <1>1, <1>2

LEMMA RefuseKeeps ==
  ASSUME NEW x, DOMAIN x = Fields
  PROVE  Keeps(x, RefuseLoad(x)) /\ RefuseLoad(x).pending = None
<1> DEFINE quit == Send(CancelLoadTask(x), "Stop")
           y == [quit EXCEPT !.pending = None, !.intent = Stopped, !.phase = "Idle"]
<1>1. DOMAIN quit = Fields /\ quit.queue = x.queue
  BY QuitsKeep
<1>2. RefuseLoad(x) = y
  BY DEF RefuseLoad
<1> HIDE DEF quit
<1>3. DOMAIN y = Fields /\ y.queue = x.queue /\ y.pending = None
  BY <1>1 DEF Fields
<1> QED
  BY <1>2, <1>3 DEF Keeps

\* A load in the background is for a position that has a track; one for a
\* gapless switch is for the position that comes next.
LEMMA StartLoadIsFirm ==
  ASSUME NEW x, DOMAIN x = Fields, GoodQueue(x.queue, Library), NEW idx, NEW transition,
         transition # "immediate" => idx \in Nat /\ HasTrack(x.queue, idx),
         transition = "gapless" => NextPosition(x) = idx
  PROVE  Firm(StartLoad(x, idx, transition))
<1> DEFINE y == StartLoad(x, idx, transition)
           quieted == IF transition = "immediate" /\ TrackAt(x.queue, idx) \in Remote
                      THEN [Send(CancelLoadTask(x), "Stop") EXCEPT !.phase = "Idle"]
                      ELSE CancelLoadTask(x)
           pending == IF transition = "immediate" THEN None
                      ELSE [to |-> idx, key |-> TrackAt(x.queue, idx), token |-> x.nextToken,
                            from |-> x.intent.token, stage |-> "Loading",
                            gapless |-> transition = "gapless", amid |-> {}]
           task == [token |-> x.nextToken, stage |-> "prepare", transition |-> transition]
           intent == Loading(x.nextToken, transition # "immediate", x.intent.token)
           tracks == [quieted.trackOf EXCEPT ![x.nextToken] = TrackAt(x.queue, idx)]
<1>1. DOMAIN quieted = Fields /\ quieted.queue = x.queue
  <2> DEFINE quit == Send(CancelLoadTask(x), "Stop")
  <2>1. DOMAIN quit = Fields /\ quit.queue = x.queue
    BY QuitsKeep
  <2>2. DOMAIN CancelLoadTask(x) = Fields /\ CancelLoadTask(x).queue = x.queue
    BY CancelKeeps DEF Keeps
  <2>3. quieted = [quit EXCEPT !.phase = "Idle"] \/ quieted = CancelLoadTask(x)
    OBVIOUS
  <2> HIDE DEF quit, quieted
  <2> QED
    BY <2>1, <2>2, <2>3 DEF Fields
<1> HIDE DEF quieted
<1>2. y = [quieted EXCEPT !.pending = pending, !.intent = intent,
                          !.nextToken = x.nextToken + 1, !.task = task, !.trackOf = tracks]
  <2>1. y = [quieted EXCEPT !.pending = pending, !.intent = intent,
                            !.nextToken = x.nextToken + 1, !.task = task,
                            !.trackOf[x.nextToken] = TrackAt(x.queue, idx)]
    BY DEF StartLoad, quieted
  <2> QED
    BY <1>1, <2>1 DEF Fields
<1> HIDE DEF y, pending, task, intent, tracks
<1>3. DOMAIN y = Fields /\ y.pending = pending /\ y.queue = x.queue
  BY <1>1, <1>2 DEF Fields
<1>4. pending = None \/
         /\ DOMAIN pending = PendingFields /\ transition # "immediate"
         /\ pending.to = idx /\ pending.key = TrackAt(x.queue, idx)
         /\ pending.gapless = (transition = "gapless")
  BY DEF pending, PendingFields
<1>5. NextPosition(y) = NextPosition(x)
  BY <1>3 DEF NextPosition
<1>6. Whole(y) /\ Followed(y) /\ NextTaken(y)
  BY <1>3, <1>4, <1>5 DEF Whole, Followed, NextTaken
<1> QED
  BY <1>6 DEF Firm, y

LEMMA NextPositionIs ==
  ASSUME NEW x, GoodQueue(x.queue, Library), NextPosition(x) # Nowhere
  PROVE  /\ NextPosition(x) \in Nat /\ HasTrack(x.queue, NextPosition(x))
         /\ NextPosition(x) < Len(x.queue.items)
<1>1. NextPosition(x) \in 0 .. Len(x.queue.items) - 1
  BY PeekNextIs DEF NextPosition
<1>2. \A pos \in Nat : HasTrack(x.queue, pos) <=> pos < Len(x.queue.items)
  BY SoundQueue DEF GoodQueue
<1>3. Len(x.queue.items) \in Nat
  BY SoundQueue DEF GoodQueue
<1> QED
  BY <1>1, <1>2, <1>3

LEMMA ArmIsFirm ==
  ASSUME NEW x, Firm(x)
  PROVE  Firm(ArmTransition(x))
<1> DEFINE tr == IF ShouldCrossfade(x) THEN "crossfade" ELSE "gapless"
           idx == NextPosition(x)
<1>1. CASE idx = Nowhere \/ ~Playable(x, idx)
  BY <1>1 DEF ArmTransition
<1>2. CASE ~(idx = Nowhere \/ ~Playable(x, idx))
  <2>1. idx \in Nat /\ HasTrack(x.queue, idx)
    BY <1>2, NextPositionIs DEF Firm, Whole
  <2>2. Firm(StartLoad(x, idx, tr))
    BY <2>1, StartLoadIsFirm DEF Firm, Whole
  <2> QED
    BY <1>2, <2>2 DEF ArmTransition
<1> QED
  BY <1>1, <1>2

LEMMA ArmNowIsFirm ==
  ASSUME NEW x, Firm(x), NEW near
  PROVE  Firm(ArmGaplessNow(x, near))
  BY ArmIsFirm DEF ArmGaplessNow

\* After an edit: a gapless transition is checked against the new queue.
LEMMA RearmIsFirm ==
  ASSUME NEW x, Whole(x), NEW near,
         x.pending # None /\ ~x.pending.gapless => Followed(x)
  PROVE  Firm(RearmGapless(x, near))
<1> DEFINE y == RevertTransition(x)
<1>1. y.pending = None /\ DOMAIN y = Fields /\ y.queue = x.queue
  BY RevertKeeps DEF Whole, Keeps
<1>2. Firm(y)
  BY <1>1, NoneIsFirm DEF Whole
<1> HIDE DEF y
<1>3. Firm(ArmTransition(y))
  BY <1>2, ArmIsFirm
<1>4. CASE x.pending = None \/ ~x.pending.gapless
  BY <1>4 DEF RearmGapless, Firm, NextTaken, Followed
<1>5. CASE /\ ~(x.pending = None \/ ~x.pending.gapless)
           /\ NextPosition(x) = x.pending.to /\ TrackAt(x.queue, x.pending.to) = x.pending.key
  <2>1. NextPosition(x) # Nowhere
    BY <1>5 DEF Whole, Nowhere
  <2>2. HasTrack(x.queue, x.pending.to)
    BY <1>5, <2>1, NextPositionIs DEF Whole
  <2>3. RearmGapless(x, near) = x
    BY <1>5 DEF RearmGapless
  <2> QED
    BY <1>5, <2>2, <2>3 DEF Firm, NextTaken, Followed
<1> QED
  BY <1>2, <1>3, <1>4, <1>5 DEF RearmGapless, y

\* The queue moves with an immediate load to a position that has a track.
LEMMA ImmediateIsFirm ==
  ASSUME NEW x, Firm(x), NEW queue, NEW idx,
         HasTrack(queue, idx) => GoodQueue(queue, Library)
  PROVE  Firm(StartImmediateLoad(x, queue, idx))
<1> DEFINE moved == [x EXCEPT !.queue = queue]
<1>1. DOMAIN moved = Fields /\ moved.queue = queue
  BY DEF Firm, Whole, Fields
<1>2. StartImmediateLoad(x, queue, idx) =
         IF Playable(moved, idx) THEN StartLoad(moved, idx, "immediate")
         ELSE IF HasTrack(queue, idx) THEN RefuseLoad(x) ELSE x
  BY DEF StartImmediateLoad
<1> HIDE DEF moved
<1>3. Playable(moved, idx) => Firm(StartLoad(moved, idx, "immediate"))
  BY <1>1, StartLoadIsFirm DEF Playable
<1>4. Firm(RefuseLoad(x))
  BY RefuseKeeps, KeepsFirm DEF Firm, Whole
<1> QED
  BY <1>2, <1>3, <1>4

\* The pointer moves to the armed position.
LEMMA CommitIsWhole ==
  ASSUME NEW x, Whole(x), x.pending # None
  PROVE  /\ DOMAIN CommitModel(x) = Fields /\ GoodQueue(CommitModel(x).queue, Library)
         /\ CommitModel(x).pending = None
         /\ Firm(CommitModel(x)) /\ Firm(CommitTransition(x))
<1> DEFINE q == x.queue
           moved == [PushHistory(q) EXCEPT !.current = x.pending.to]
           queue == IF x.pending.to < QueueLen(q) THEN moved ELSE q
           y == CommitModel(x)
           z == CommitTransition(x)
<1>1. GoodQueue(queue, Library)
  <2>1. /\ PushHistory(q) \in QueueRecord(Library) /\ SameTracks(PushHistory(q), q)
    BY PushHistoryIs DEF Whole, GoodQueue
  <2>2. x.pending.to \in Nat /\ GoodQueue(q, Library)
    BY DEF Whole
  <2>3. /\ moved \in QueueRecord(Library) /\ SameTracks(moved, q)
        /\ moved.current = x.pending.to
    BY <2>1, <2>2 DEF QueueRecord, SameTracks
  <2>4. QueueLen(q) = Len(q.items)
    BY <2>2, SoundQueue DEF GoodQueue
  <2> HIDE DEF moved, q
  <2>5. x.pending.to < QueueLen(q) => GoodQueue(moved, Library)
    BY <2>2, <2>3, <2>4, SameTracksIs
  <2> QED
    BY <2>2, <2>5
<1>2. y = [x EXCEPT !.pending = None, !.queue = queue]
  BY DEF CommitModel, Whole, Fields
<1> HIDE DEF y, queue
<1>3. DOMAIN y = Fields /\ y.pending = None /\ y.queue = queue
  BY <1>2 DEF Whole, Fields
<1>4. DOMAIN z = Fields /\ z.pending = None /\ z.queue = queue
  BY <1>3 DEF Fields, CommitTransition, y
<1> QED
  BY <1>1, <1>3, <1>4, NoneIsFirm DEF y

LEMMA PlayNextIsFirm ==
  ASSUME NEW x, Firm(x)
  PROVE  Firm(PlayNext(x))
<1> DEFINE y == RevertTransition(x)
           q == y.queue
           idx == NextPosition(y)
           advanced == [PushHistory(q) EXCEPT !.current = idx]
           quit == Send(CancelLoadTask(y), "Pause")
           z == [quit EXCEPT !.pending = None, !.intent = Stopped,
                             !.phase = IF @ = "Ended" THEN @ ELSE "Paused"]
<1>1. DOMAIN y = Fields /\ q = x.queue /\ Firm(y)
  BY RevertKeeps, KeepsFirm DEF Firm, Whole, Keeps
<1>2. GoodQueue(q, Library)
  BY <1>1 DEF Firm, Whole
<1> HIDE DEF y
<1>3. ASSUME idx # Nowhere PROVE GoodQueue(advanced, Library)
  <2>1. idx \in Nat /\ idx < Len(q.items)
    BY <1>2, <1>3, NextPositionIs
  <2>2. PushHistory(q) \in QueueRecord(Library) /\ SameTracks(PushHistory(q), q)
    BY <1>2, PushHistoryIs DEF GoodQueue
  <2> HIDE DEF q, idx
  <2>3. /\ advanced \in QueueRecord(Library) /\ SameTracks(advanced, q)
        /\ advanced.current = idx
    BY <2>1, <2>2 DEF QueueRecord, SameTracks
  <2> HIDE DEF advanced
  <2> QED
    BY <1>2, <2>1, <2>3, SameTracksIs
<1>4. idx # Nowhere => Firm(StartImmediateLoad(y, advanced, idx))
  BY <1>1, <1>3, ImmediateIsFirm
<1>5. Firm(z)
  <2>1. DOMAIN quit = Fields /\ quit.queue = q
    BY <1>1, QuitsKeep
  <2> HIDE DEF quit
  <2>2. DOMAIN z = Fields /\ z.queue = q /\ z.pending = None
    BY <2>1 DEF Fields
  <2> QED
    BY <1>2, <2>2, NoneIsFirm
<1>6. PlayNext(x) = IF q.items = <<>> THEN y
                    ELSE IF idx # Nowhere THEN StartImmediateLoad(y, advanced, idx) ELSE z
  BY DEF PlayNext, y
<1> QED
  BY <1>1, <1>4, <1>5, <1>6

LEMMA FailKeeps ==
  ASSUME NEW x, DOMAIN x = Fields, NEW t
  PROVE  Keeps(x, FailLoad(x, t))
<1> DEFINE armed == IF x.pending # None /\ x.pending.gapless THEN x.intent.from ELSE 0
           y == [x EXCEPT !.armed = armed, !.pending = None, !.intent = Committed(x.intent.from)]
           base == IF x.phase = "Ended" THEN Send(x, "Pause") ELSE x
           z == [base EXCEPT !.intent = Stopped]
<1>1. FailLoad(x, t) = IF x.intent.token # t THEN x
                       ELSE IF IsLoading(x) /\ x.intent.deferred THEN y ELSE z
  BY DEF FailLoad
<1>2. Keeps(x, y)
  BY DEF Keeps, Fields
<1>3. DOMAIN base = Fields /\ base.queue = x.queue /\ base.pending = x.pending
  BY SendKeeps DEF Keeps
<1> HIDE DEF base, armed
<1>4. Keeps(x, z)
  BY <1>3 DEF Keeps, Fields
<1>5. Keeps(x, x)
  BY DEF Keeps
<1> QED
  BY <1>1, <1>2, <1>4, <1>5

-----------------------------------------------------------------------------
(* Client commands.                                                          *)

LEMMA SeekKeeps ==
  ASSUME NEW x, DOMAIN x = Fields
  PROVE  Keeps(x, Seek(x))
<1> DEFINE y == RevertTransition(x)
           k == [op |-> "Seek", token |-> IF x.pending = None THEN 0 ELSE x.pending.from]
<1>1. DOMAIN y = Fields /\ y.queue = x.queue /\ y.pending = None
  BY RevertKeeps DEF Keeps
<1>2. Seek(x) = [[y EXCEPT !.out = Append(@, k)] EXCEPT !.armed = 0]
  BY DEF Seek, SendSeek
<1> HIDE DEF y, k
<1> QED
  BY <1>1, <1>2 DEF Keeps, Fields

LEMMA PreviousIsFirm ==
  ASSUME NEW x, Firm(x), NEW rewind
  PROVE  Firm(PlayPrevious(x, rewind))
<1> DEFINE y == RevertTransition(x)
           q == y.queue
           back == PreviousTarget(q)
           moved == [q EXCEPT !.current = back, !.history = IF @ = <<>> THEN @ ELSE Front(@)]
<1>1. DOMAIN y = Fields /\ Firm(y)
  BY RevertKeeps, KeepsFirm DEF Firm, Whole, Keeps
<1>2. GoodQueue(q, Library)
  BY <1>1 DEF Firm, Whole
<1> HIDE DEF y
<1>3. back # Nowhere => moved \in PreviousPosition(q)
  <2>1. Ready(q) = {q}
    BY <1>2, SoundQueue DEF GoodQueue
  <2> QED
    BY <2>1 DEF PreviousPosition
<1>4. moved.current = back
  BY <1>2 DEF GoodQueue, QueueRecord
<1>5. back # Nowhere /\ HasTrack(moved, back) => GoodQueue(moved, Library)
  BY <1>2, <1>3, <1>4, PreviousIs
<1>6. back # Nowhere => Firm(StartImmediateLoad(y, moved, back))
  BY <1>1, <1>5, ImmediateIsFirm
<1>7. Firm(StartImmediateLoad(y, q, q.current))
  BY <1>1, <1>2, ImmediateIsFirm
<1>8. Firm(Seek(y))
  BY <1>1, SeekKeeps, KeepsFirm
<1> HIDE DEF q, back, moved
<1> QED
  BY <1>1, <1>6, <1>7, <1>8 DEF PlayPrevious, y, q, back, moved

LEMMA PauseKeeps ==
  ASSUME NEW x, DOMAIN x = Fields
  PROVE  Keeps(x, Pause(x))
<1> DEFINE queued == x.pending # None /\ x.pending.stage = "Queued"
           cancelled == CancelLoadTask(x)
           y == IF ~IsLoading(x) /\ ~queued THEN x
                ELSE IF x.pending # None THEN RevertTransition(x)
                ELSE [cancelled EXCEPT !.intent = Stopped]
           told == Send(y, "Pause")
<1>1. Keeps(x, y)
  <2>1. DOMAIN cancelled = Fields /\ cancelled.queue = x.queue /\ cancelled.pending = x.pending
    BY CancelKeeps DEF Keeps
  <2> HIDE DEF cancelled
  <2>2. Keeps(x, [cancelled EXCEPT !.intent = Stopped])
    BY <2>1 DEF Keeps, Fields
  <2>3. Keeps(x, x)
    BY DEF Keeps
  <2> QED
    BY <2>2, <2>3, RevertKeeps
<1> HIDE DEF y
<1>2. Keeps(y, told) /\ DOMAIN told = Fields
  BY <1>1, SendKeeps DEF Keeps
<1>3. Pause(x) = [told EXCEPT !.phase = IF @ = "Ended" THEN @ ELSE "Paused"]
  BY DEF Pause, y
<1> HIDE DEF told
<1>4. Keeps(told, Pause(x))
  BY <1>2, <1>3 DEF Keeps, Fields
<1> QED
  BY <1>1, <1>2, <1>4, KeepsAgain

LEMMA TakeUpKeeps ==
  ASSUME NEW x, DOMAIN x = Fields, x.pending # None => DOMAIN x.pending = PendingFields, NEW t
  PROVE  Keeps(x, TakeUp(x, t))
<1> DEFINE forsaken == IF x.pending = None THEN x.forsaken
                       ELSE x.forsaken \cup {x.pending.token}
           pending == [x.pending EXCEPT !.amid = @ \cup {"Play"}]
           y == [x EXCEPT !.intent = Committed(t), !.raced = TRUE, !.forsaken = forsaken,
                          !.pending = IF x.pending = None THEN None ELSE pending]
<1>1. TakeUp(x, t) = IF t = 0 \/ Committed(t) = x.intent THEN x ELSE y
  BY DEF TakeUp
<1>2. DOMAIN y = Fields /\ y.queue = x.queue
      /\ y.pending = IF x.pending = None THEN None ELSE pending
  BY DEF Fields
<1>3. x.pending # None =>
         /\ DOMAIN pending = PendingFields /\ pending.to = x.pending.to
         /\ pending.key = x.pending.key /\ pending.gapless = x.pending.gapless
         /\ x.pending.amid \subseteq pending.amid
  BY DEF PendingFields
<1> HIDE DEF y, pending
<1>4. Keeps(x, y)
  BY <1>2, <1>3 DEF Keeps, SameTarget
<1> QED
  BY <1>1, <1>4 DEF Keeps

LEMMA ResumeIsFirm ==
  ASSUME NEW x, Firm(x)
  PROVE  Firm(Resume(x))
<1> DEFINE told == Send(x, "Resume")
           taken == TakeUp(told, SessionToken(engine))
           resumed == [taken EXCEPT !.phase = "Playing"]
<1>1. Keeps(x, told) /\ told.pending = x.pending /\ DOMAIN told = Fields
  BY SendKeeps DEF Firm, Whole, Keeps
<1>2. Resume(x) \in {StartLoad(x, x.queue.current, "immediate"), RefuseLoad(x), x, resumed}
  BY DEF Resume
<1> HIDE DEF told
<1>3. Keeps(told, taken)
  BY <1>1, TakeUpKeeps DEF Firm, Whole
<1> HIDE DEF taken
<1>6. Keeps(taken, resumed)
  BY <1>3 DEF Keeps, Fields
<1>7. Keeps(x, resumed)
  BY <1>1, <1>3, <1>6, KeepsAgain
<1>4. Firm(StartLoad(x, x.queue.current, "immediate"))
  BY StartLoadIsFirm DEF Firm, Whole
<1>5. Keeps(x, RefuseLoad(x))
  BY RefuseKeeps DEF Firm, Whole
<1> QED
  BY <1>2, <1>7, <1>4, <1>5, KeepsFirm

\* Stop leaves no transition, so that the queue may be any.
LEMMA StopIsFirm ==
  ASSUME NEW x, DOMAIN x = Fields, GoodQueue(x.queue, Library)
  PROVE  Firm(Stop(x))
<1> DEFINE quit == Send(CancelLoadTask(x), "Stop")
<1>1. DOMAIN quit = Fields /\ quit.queue = x.queue
  BY QuitsKeep
<1>2. Stop(x) = [quit EXCEPT !.pending = None, !.armed = 0, !.intent = Stopped, !.phase = "Idle"]
  BY DEF Stop
<1> HIDE DEF quit
<1>3. DOMAIN Stop(x) = Fields /\ Stop(x).queue = x.queue /\ Stop(x).pending = None
  BY <1>1, <1>2 DEF Fields
<1> QED
  BY <1>3, NoneIsFirm

-----------------------------------------------------------------------------
(* Edits.                                                                    *)

\* Position p of q has a track, and r has it at position k.
StillThere(q, p, r, k) == HasTrack(q, p) => HasTrack(r, k) /\ TrackAt(r, k) = TrackAt(q, p)

LEMMA InsertKeeps ==
  ASSUME NEW q, GoodQueue(q, Library), NEW i \in Nat
  PROVE  LET r == InsertAtReady(q, i, <<NewTrack>>)
         IN  /\ GoodQueue(r, Library)
             /\ \A p \in Nat : p < i => StillThere(q, p, r, p)
<1> DEFINE t == <<NewTrack>>
           r == InsertAtReady(q, i, t)
           n == Len(q.items)
           at == IF i < n THEN i ELSE n
<1>1. t \in Seq(Library) /\ Len(t) = 1
  BY DEF Library
<1> HIDE DEF t
<1>2. /\ n \in Nat /\ q.current \in Nat /\ (q.items = <<>> => q.current = 0 /\ n = 0)
      /\ \A p \in Nat : HasTrack(q, p) <=> p < n
  BY SoundQueue DEF GoodQueue, QueueRecord, Pointing
<1>3. at \in 0 .. n
  BY <1>2
<1>4. /\ Inserted(r, q, Library, at, t)
      /\ r.current = IF at <= q.current /\ q.items # <<>> THEN q.current + 1 ELSE q.current
  <2>1. /\ Inserted(r, q, Library, at, t)
        /\ r.current = IF at <= q.current /\ q.items # <<>> THEN q.current + Len(t) ELSE q.current
    <3>1. t \in Seq(Library) /\ at = IF i < n THEN i ELSE n
      BY <1>1
    <3> HIDE DEF at
    <3> QED
      BY <1>3, <3>1, InsertAtIs
  <2> QED
    BY <1>1, <2>1
<1> HIDE DEF r
<1>5. GoodQueue(r, Library)
  <2>1. q.items # <<>> => r.current = IF q.current < at THEN q.current ELSE q.current + 1
    BY <1>2, <1>3, <1>4
  <2>2. q.items = <<>> => r.current = 0
    BY <1>2, <1>4
  <2> HIDE DEF at
  <2> QED
    BY <1>1, <1>3, <1>4, <2>1, <2>2, InsertedKeepsPointer
<1>6. Len(r.items) = n + 1 /\ \A p \in 0 .. n - 1 : p < at => TrackAt(r, p) = TrackAt(q, p)
  BY <1>1, <1>4 DEF Inserted
<1>7. \A p \in Nat : HasTrack(r, p) <=> p < n + 1
  BY <1>5, <1>6, SoundQueue DEF GoodQueue
<1>8. ASSUME NEW p \in Nat, p < i, HasTrack(q, p) PROVE HasTrack(r, p) /\ TrackAt(r, p) = TrackAt(q, p)
  <2>1. p \in 0 .. n - 1 /\ p < at
    BY <1>2, <1>8
  <2> QED
    BY <1>2, <1>6, <1>7, <2>1
<1> QED
  BY <1>5, <1>8 DEF StillThere, r, t

LEMMA InsertNextKeeps ==
  ASSUME NEW q, GoodQueue(q, Library)
  PROVE  GoodQueue(InsertNext(q, <<NewTrack>>), Library)
<1> DEFINE t == <<NewTrack>>
           r == InsertNext(q, t)
           n == Len(q.items)
           at == IF q.current + 1 < n THEN q.current + 1 ELSE n
<1>1. t \in Seq(Library) /\ Len(t) = 1 /\ t # <<>>
  BY DEF Library
<1> HIDE DEF t
<1>2. n \in Nat /\ q.current \in Nat /\ q.items \in Seq(Library)
      /\ IF q.items = <<>> THEN q.current = 0 ELSE q.current < n
  BY SoundQueue DEF GoodQueue, QueueRecord, Pointing
<1>3. at \in 0 .. n
  BY <1>2
<1>4. Inserted(r, q, Library, at, t) /\ r.current = q.current
  BY <1>1, <1>3, InsertNextIs
<1> HIDE DEF r
<1>5. q.items # <<>> => r.current = IF q.current < at THEN q.current ELSE q.current + 1
  BY <1>2, <1>4
<1>6. q.items = <<>> => r.current = 0
  BY <1>2, <1>4
<1> HIDE DEF at
<1>7. GoodQueue(r, Library)
  BY <1>1, <1>3, <1>4, <1>5, <1>6, InsertedKeepsPointer
<1> QED
  BY <1>7 DEF r, t

LEMMA AddKeeps ==
  ASSUME NEW q, GoodQueue(q, Library)
  PROVE  LET r == Add(q, <<NewTrack>>)
         IN  GoodQueue(r, Library) /\ \A p \in Nat : StillThere(q, p, r, p)
<1> DEFINE t == <<NewTrack>>
           r == Add(q, t)
           n == Len(q.items)
<1>1. t \in Seq(Library) /\ Len(t) = 1
  BY DEF Library
<1> HIDE DEF t
<1>2. /\ n \in Nat /\ q.current \in Nat
      /\ IF q.items = <<>> THEN q.current = 0 ELSE q.current < n
      /\ \A p \in Nat : HasTrack(q, p) <=> p < n
  BY SoundQueue DEF GoodQueue, QueueRecord, Pointing
<1>3. Inserted(r, q, Library, n, t) /\ r.current = q.current
  BY <1>1, AddIs
<1> HIDE DEF r
<1>4. GoodQueue(r, Library)
  <2>1. n \in 0 .. n
    BY <1>2
  <2>2. q.items # <<>> => r.current = IF q.current < n THEN q.current ELSE q.current + 1
    BY <1>2, <1>3
  <2>3. q.items = <<>> => r.current = 0
    BY <1>2, <1>3
  <2> HIDE DEF n
  <2> QED
    BY <1>1, <1>3, <2>1, <2>2, <2>3, InsertedKeepsPointer DEF n
<1>5. Len(r.items) = n + 1 /\ \A p \in 0 .. n - 1 : p < n => TrackAt(r, p) = TrackAt(q, p)
  BY <1>1, <1>3 DEF Inserted
<1>6. \A p \in Nat : HasTrack(r, p) <=> p < n + 1
  BY <1>4, <1>5, SoundQueue DEF GoodQueue
<1>7. ASSUME NEW p \in Nat, HasTrack(q, p) PROVE HasTrack(r, p) /\ TrackAt(r, p) = TrackAt(q, p)
  <2>1. p \in 0 .. n - 1 /\ p < n
    BY <1>2, <1>7
  <2> QED
    BY <1>2, <1>5, <1>6, <2>1
<1> QED
  BY <1>4, <1>7 DEF StillThere, r, t

LEMMA DropKeeps ==
  ASSUME NEW q, GoodQueue(q, Library), NEW from \in Nat, q.current < from,
         NEW r \in DropFrom(q, from)
  PROVE  GoodQueue(r, Library) /\ \A p \in Nat : p < from => StillThere(q, p, r, p)
<1> DEFINE n == Len(q.items)
           cut == IF from < n THEN from ELSE n
<1>1. /\ n \in Nat /\ q.current \in Nat
      /\ IF q.items = <<>> THEN q.current = 0 ELSE q.current < n
      /\ \A p \in Nat : HasTrack(q, p) <=> p < n
  BY SoundQueue DEF GoodQueue, QueueRecord, Pointing
<1>2. cut \in 0 .. n
  BY <1>1
<1>3. Truncated(r, q, Library, cut)
  BY <1>2, DropIs DEF GoodQueue
<1>4. GoodQueue(r, Library)
  <2>1. q.items # <<>> => q.current < cut
    BY <1>1
  <2> HIDE DEF cut
  <2> QED
    BY <1>2, <1>3, <2>1, TruncatedKeepsPointer
<1>5. Len(r.items) = cut /\ \A p \in 0 .. cut - 1 : TrackAt(r, p) = TrackAt(q, p)
  BY <1>3 DEF Truncated
<1>6. \A p \in Nat : HasTrack(r, p) <=> p < cut
  BY <1>4, <1>5, SoundQueue DEF GoodQueue
<1>7. ASSUME NEW p \in Nat, p < from, HasTrack(q, p) PROVE HasTrack(r, p) /\ TrackAt(r, p) = TrackAt(q, p)
  <2>1. p \in 0 .. cut - 1 /\ p < cut
    BY <1>1, <1>7
  <2> QED
    BY <1>5, <1>6, <2>1
<1> QED
  BY <1>4, <1>7 DEF StillThere

LEMMA RefillKeeps ==
  ASSUME NEW q, GoodQueue(q, Library), NEW from \in Nat, q.current < from,
         NEW r \in ReplaceFrom(q, from, <<NewTrack>>)
  PROVE  GoodQueue(r, Library) /\ \A p \in Nat : p < from => StillThere(q, p, r, p)
<1>1. PICK d \in DropFrom(q, from) : r = Add(d, <<NewTrack>>)
  BY DEF ReplaceFrom
<1>2. GoodQueue(d, Library) /\ \A p \in Nat : p < from => StillThere(q, p, d, p)
  BY DropKeeps
<1>3. GoodQueue(r, Library) /\ \A p \in Nat : StillThere(d, p, r, p)
  BY <1>1, <1>2, AddKeeps
<1> QED
  BY <1>2, <1>3 DEF StillThere

LEMMA ShuffleTailKeeps ==
  ASSUME NEW q, GoodQueue(q, Library), NEW from \in Nat, q.current < from,
         NEW r \in ShuffleFrom(q, from)
  PROVE  GoodQueue(r, Library) /\ \A p \in Nat : p < from => StillThere(q, p, r, p)
<1> DEFINE n == Len(q.items)
<1>1. /\ n \in Nat /\ q.current \in Nat /\ Ready(q) = {q} /\ QueueLen(q) = n
      /\ IF q.items = <<>> THEN q.current = 0 ELSE q.current < n
      /\ \A p \in Nat : HasTrack(q, p) <=> p < n
  BY SoundQueue DEF GoodQueue, QueueRecord, Pointing
<1>2. CASE from + 1 >= n
  <2>1. r = q
    BY <1>1, <1>2 DEF ShuffleFrom
  <2> QED
    BY <2>1 DEF StillThere
<1>3. CASE ~(from + 1 >= n)
  <2>1. PICK source \in SetToSeqs(from .. n - 1) : r = ShuffledTail(q, from, source)
    BY <1>1, <1>3 DEF ShuffleFrom
  <2>2. from \in 0 .. n
    BY <1>1, <1>3
  <2>3. TailShuffled(r, q, Library, from, source)
    BY <2>1, <2>2, ShuffledTailIs DEF GoodQueue
  <2>4. GoodQueue(r, Library)
    BY <2>2, <2>3, ShuffledTailKeepsPointer
  <2>5. Len(r.items) = n /\ \A p \in 0 .. from - 1 : TrackAt(r, p) = TrackAt(q, p)
    BY <2>3 DEF TailShuffled
  <2>6. \A p \in Nat : HasTrack(r, p) <=> p < n
    BY <2>4, <2>5, SoundQueue DEF GoodQueue
  <2>7. \A p \in Nat : p < from => p \in 0 .. from - 1
    OBVIOUS
  <2> QED
    BY <1>1, <2>4, <2>5, <2>6, <2>7 DEF StillThere
<1> QED
  BY <1>2, <1>3

LEMMA MoveKeeps ==
  ASSUME NEW q, GoodQueue(q, Library), NEW i \in IndexSet(q), NEW j \in IndexSet(q)
  PROVE  LET r == MoveItem(q, i, j)
         IN  /\ GoodQueue(r, Library)
             /\ \A p \in Nat : /\ RemapQueueIndex(p, i, j) \in Nat
                               /\ StillThere(q, p, r, RemapQueueIndex(p, i, j))
<1> DEFINE n == Len(q.items)
           r == MoveItem(q, i, j)
<1>1. /\ n \in Nat /\ q.current \in Nat /\ QueueLen(q) = n
      /\ \A p \in Nat : HasTrack(q, p) <=> p < n
  BY SoundQueue DEF GoodQueue, QueueRecord
<1>2. i \in 0 .. n - 1 /\ j \in 0 .. n - 1 /\ i \in Nat /\ j \in Nat
  BY <1>1 DEF IndexSet
<1>3. \A p \in Nat : RemapQueueIndex(p, i, j) =
               IF p = i THEN j
               ELSE IF i < j /\ i < p /\ p <= j THEN p - 1
               ELSE IF j < i /\ j <= p /\ p < i THEN p + 1 ELSE p
  BY <1>2, RemapAt
<1>4. \A p \in Nat : RemapQueueIndex(p, i, j) \in Nat
  BY <1>2, <1>3
<1>5. CASE i = j
  <2>1. r = q /\ \A p \in Nat : RemapQueueIndex(p, i, j) = p
    BY <1>2, <1>3, <1>5 DEF MoveItem
  <2> QED
    BY <1>4, <2>1 DEF StillThere
<1>6. CASE i # j
  <2>1. EntryMoved(r, q, Library, i, j)
    BY <1>2, <1>6, MoveItemIs DEF GoodQueue
  <2> HIDE DEF r
  <2>2. GoodQueue(r, Library)
    BY <1>2, <2>1, MovedKeepsPointer
  <2>3. Len(r.items) = n /\ \A p \in 0 .. n - 1 : TrackAt(r, RemapQueueIndex(p, i, j)) = TrackAt(q, p)
    BY <2>1 DEF EntryMoved
  <2>4. \A p \in Nat : HasTrack(r, p) <=> p < n
    BY <2>2, <2>3, SoundQueue DEF GoodQueue
  <2>5. \A p \in 0 .. n - 1 : RemapQueueIndex(p, i, j) \in 0 .. n - 1
    BY <1>1, <1>2, RemapIs DEF Remaps
  <2>6. ASSUME NEW p \in Nat, HasTrack(q, p)
        PROVE  HasTrack(r, RemapQueueIndex(p, i, j)) /\ TrackAt(r, RemapQueueIndex(p, i, j)) = TrackAt(q, p)
    <3>1. p \in 0 .. n - 1
      BY <1>1, <2>6
    <3>2. RemapQueueIndex(p, i, j) \in 0 .. n - 1
      BY <2>5, <3>1
    <3>3. RemapQueueIndex(p, i, j) \in Nat /\ RemapQueueIndex(p, i, j) < n
      BY <1>1, <3>2
    <3> QED
      BY <2>3, <2>4, <3>1, <3>3
  <2> QED
    BY <1>4, <2>2, <2>6 DEF StillThere, r
<1> QED
  BY <1>5, <1>6

LEMMA RemoveKeeps ==
  ASSUME NEW q, GoodQueue(q, Library), NEW i \in IndexSet(q), i # q.current
  PROVE  LET r == RemoveEntry(q, i)
         IN  /\ GoodQueue(r, Library)
             /\ \A p \in Nat : p # i => StillThere(q, p, r, IF i < p THEN p - 1 ELSE p)
<1> DEFINE n == Len(q.items)
           r == RemoveEntry(q, i)
<1>1. /\ n \in Nat /\ q.current \in Nat
      /\ \A p \in Nat : HasTrack(q, p) <=> p < n
  BY SoundQueue DEF GoodQueue, QueueRecord
<1>2. i \in 0 .. n - 1
  BY DEF IndexSet
<1>3. /\ EntryRemoved(r, q, Library, i)
      /\ r.current = LET left  == n - 1
                         moved == IF i < q.current THEN q.current - 1 ELSE q.current
                     IN  IF left = 0 THEN 0 ELSE IF moved >= left THEN left - 1 ELSE moved
  BY <1>2, RemoveEntryIs DEF GoodQueue
<1> HIDE DEF r
<1>4. GoodQueue(r, Library)
  BY <1>2, <1>3, RemovedKeepsPointer
<1>5. /\ Len(r.items) = n - 1
      /\ \A p \in 0 .. n - 1 : p # i => TrackAt(r, IF p < i THEN p ELSE p - 1) = TrackAt(q, p)
  BY <1>3 DEF EntryRemoved
<1>6. \A p \in Nat : HasTrack(r, p) <=> p < n - 1
  BY <1>4, <1>5, SoundQueue DEF GoodQueue
<1>7. ASSUME NEW p \in Nat, p # i, HasTrack(q, p), NEW k, k = IF i < p THEN p - 1 ELSE p
      PROVE  HasTrack(r, k) /\ TrackAt(r, k) = TrackAt(q, p)
  <2>1. p \in 0 .. n - 1 /\ k \in Nat /\ k < n - 1 /\ k = IF p < i THEN p ELSE p - 1
    BY <1>1, <1>2, <1>7
  <2> QED
    BY <1>5, <1>6, <1>7, <2>1
<1> QED
  BY <1>4, <1>7 DEF StillThere, r

LEMMA ShuffleKeeps ==
  ASSUME NEW q, GoodQueue(q, Library), NEW r \in ToggleShuffle(q)
  PROVE  /\ GoodQueue(r, Library)
         /\ \A p \in Nat : HasTrack(q, p) =>
               LET k == PositionOf(r, PhysicalIndexOf(q, p))
               IN  k \in Nat /\ HasTrack(r, k) /\ TrackAt(r, k) = TrackAt(q, p)
<1> DEFINE n == Len(q.items)
<1>1. /\ n \in Nat /\ q.shuffle \in BOOLEAN /\ q.order \in Seq(Nat)
      /\ \A p \in Nat : HasTrack(q, p) <=> p < n
  BY SoundQueue DEF GoodQueue, QueueRecord
<1>2. r \in SetShuffle(q, ~q.shuffle)
  BY <1>1 DEF SetShuffle
<1>3. Toggled(r, q, Library, ~q.shuffle)
  BY <1>1, <1>2, SetShuffleIs DEF GoodQueue
<1>4. GoodQueue(r, Library) /\ r.items = q.items /\ r.shuffle = ~q.shuffle
  BY <1>3 DEF Toggled
<1>5. \A p \in Nat : HasTrack(r, p) <=> p < n
  BY <1>4, SoundQueue DEF GoodQueue
<1>6. ASSUME NEW p \in Nat, HasTrack(q, p), NEW k, k = PositionOf(r, PhysicalIndexOf(q, p))
      PROVE  k \in Nat /\ HasTrack(r, k) /\ TrackAt(r, k) = TrackAt(q, p)
  <2>1. p < n
    BY <1>1, <1>6
  <2>2. CASE q.shuffle
    <3>1. Permutes(q.order, n)
      BY <2>2 DEF GoodQueue, Sound
    <3>2. PhysicalIndexOf(q, p) = q.order[p + 1] /\ PhysicalIndexOf(r, k) = k /\ ~r.shuffle
      BY <1>4, <2>2 DEF PhysicalIndexOf
    <3>3. k = q.order[p + 1]
      BY <1>6, <3>2 DEF PositionOf
    <3>4. p + 1 \in 1 .. n
      BY <1>1, <2>1
    <3>5. k \in 0 .. n - 1
      BY <3>1, <3>3, <3>4 DEF Permutes
    <3>6. k \in Nat /\ k < n
      BY <1>1, <3>5
    <3>7. TrackAt(r, k) = TrackAt(q, p)
      BY <1>4, <3>2, <3>3 DEF TrackAt
    <3> QED
      BY <1>5, <3>6, <3>7
  <2>3. CASE ~q.shuffle
    <3>1. Permutes(r.order, n) /\ r.order \in Seq(Nat) /\ r.shuffle
      BY <1>4, <2>3 DEF GoodQueue, Sound, QueueRecord
    <3>2. \E i \in 1 .. n : r.order[i] = p
      <4>1. p \in 0 .. n - 1
        BY <1>1, <2>1
      <4>2. \A m \in 0 .. n - 1 : \E i \in 1 .. n : r.order[i] = m
        BY <1>1, <3>1, PermutesIsOnto
      <4> QED
        BY <4>1, <4>2
    <3>3. DOMAIN r.order = 1 .. n
      BY <1>1, <3>1 DEF Permutes
    <3> DEFINE i == CHOOSE i \in DOMAIN r.order : r.order[i] = p
    <3>4. i \in 1 .. n /\ r.order[i] = p
      BY <3>2, <3>3
    <3>5. k = i - 1
      BY <1>6, <2>3, <3>1 DEF PositionOf, PhysicalIndexOf
    <3> HIDE DEF i
    <3>6. k \in Nat /\ k < n /\ k + 1 = i
      BY <1>1, <3>4, <3>5
    <3> QED
      BY <1>4, <1>5, <2>3, <3>1, <3>4, <3>6 DEF TrackAt, PhysicalIndexOf
  <2> QED
    BY <1>1, <2>2, <2>3
<1> QED
  BY <1>4, <1>6

\* What an edit leaves: a gapless transition is re-armed after it.
Edit(x) == /\ Whole(x)
           /\ x.pending # None /\ ~x.pending.gapless => Followed(x)

LEMMA QueueIsEdited ==
  ASSUME NEW x, Firm(x), NEW queue, GoodQueue(queue, Library),
         x.pending # None /\ ~x.pending.gapless =>
            StillThere(x.queue, x.pending.to, queue, x.pending.to)
  PROVE  Edit(WithQueue(x, queue))
<1> DEFINE y == WithQueue(x, queue)
<1>1. DOMAIN y = Fields /\ y.queue = queue /\ y.pending = x.pending
  BY DEF WithQueue, Firm, Whole, Fields
<1> QED
  BY <1>1 DEF Edit, Firm, Whole, Followed, StillThere

\* The armed position goes where its track goes.
LEMMA MovedIsEdited ==
  ASSUME NEW x, Firm(x), x.pending # None, NEW queue, GoodQueue(queue, Library), NEW to \in Nat,
         ~x.pending.gapless =>
            StillThere(x.queue, x.pending.to, queue, to)
  PROVE  Edit([WithQueue(x, queue) EXCEPT !.pending.to = to])
<1> DEFINE w == WithQueue(x, queue)
           y == [w EXCEPT !.pending.to = to]
           pending == [x.pending EXCEPT !.to = to]
<1>1. DOMAIN w = Fields /\ w.queue = queue /\ w.pending = x.pending
  BY DEF WithQueue, Firm, Whole, Fields
<1> HIDE DEF w
<1>2. DOMAIN y = Fields /\ y.queue = queue /\ y.pending = pending
  BY <1>1 DEF Fields
<1>3. /\ DOMAIN pending = PendingFields /\ pending.to = to /\ pending.key = x.pending.key
      /\ pending.gapless = x.pending.gapless /\ pending.amid = x.pending.amid
  BY DEF Firm, Whole, PendingFields
<1> HIDE DEF y, pending
<1>4. Edit(y)
  BY <1>2, <1>3 DEF Edit, Firm, Whole, Followed, StillThere
<1> QED
  BY <1>4 DEF y, w

\* An insertion leaves the armed position behind, and says so.
LEMMA InsertionIsEdited ==
  ASSUME NEW x, Firm(x), NEW queue, GoodQueue(queue, Library)
  PROVE  Edit(WithInsertion(x, queue))
<1> DEFINE w == WithQueue(x, queue)
           y == [w EXCEPT !.pending.amid = @ \cup {"Insert"}, !.raced = TRUE]
           pending == [x.pending EXCEPT !.amid = @ \cup {"Insert"}]
<1>1. DOMAIN w = Fields /\ w.queue = queue /\ w.pending = x.pending
  BY DEF WithQueue, Firm, Whole, Fields
<1>2. WithInsertion(x, queue) = IF x.pending = None THEN w ELSE y
  BY DEF WithInsertion
<1> HIDE DEF w
<1>3. x.pending = None => Edit(w)
  BY <1>1 DEF Edit, Firm, Whole, Followed
<1>4. DOMAIN y = Fields /\ y.queue = queue /\ y.pending = pending
  BY <1>1 DEF Fields
<1>5. x.pending # None =>
         /\ DOMAIN pending = PendingFields /\ pending.to = x.pending.to
         /\ pending.gapless = x.pending.gapless /\ "Insert" \in pending.amid
  BY DEF Firm, Whole, PendingFields
<1> HIDE DEF y, pending
<1>6. x.pending # None => Edit(y)
  BY <1>4, <1>5 DEF Edit, Firm, Whole, Followed
<1> QED
  BY <1>2, <1>3, <1>6

LEMMA UpcomingIs ==
  ASSUME NEW x, Firm(x)
  PROVE  LET u == UpcomingFrom(x)
         IN  /\ Firm(u.x) /\ u.from \in Nat /\ u.x.queue.current < u.from
             /\ u.x.pending # None /\ ~u.x.pending.gapless => u.x.pending.to < u.from
<1> DEFINE y == RevertTransition(x)
           u == UpcomingFrom(x)
           c == x.queue.current
           fading == x.pending # None /\ ~x.pending.gapless
<1>1. Firm(y) /\ y.queue = x.queue /\ y.pending = None
  BY RevertKeeps, KeepsFirm DEF Firm, Whole, Keeps
<1>2. c \in Nat /\ (x.pending # None => x.pending.to \in Nat)
  BY DEF Firm, Whole, GoodQueue, QueueRecord
<1>3. CASE fading /\ x.pending.to > c
  <2>1. u.x = x /\ u.from = x.pending.to + 1
    BY <1>2, <1>3 DEF UpcomingFrom
  <2> HIDE DEF u
  <2>2. Firm(u.x) /\ u.from \in Nat /\ u.x.queue.current < u.from /\ u.x.pending.to < u.from
    BY <1>2, <1>3, <2>1
  <2> QED
    BY <2>2 DEF u
<1>4. CASE fading /\ x.pending.to <= c
  <2>1. u = IF x.pending.stage = "Loading" THEN [x |-> y, from |-> c + 1]
            ELSE [x |-> x, from |-> c + 1]
    BY <1>2, <1>4 DEF UpcomingFrom
  <2>2. u.x \in {x, y} /\ u.from = c + 1
    BY <2>1
  <2> HIDE DEF u, y
  <2> QED
    BY <1>1, <1>2, <1>4, <2>2 DEF u
<1>5. CASE ~fading
  <2>1. u = [x |-> x, from |-> c + 1]
    BY <1>5 DEF UpcomingFrom
  <2> QED
    BY <1>2, <1>5, <2>1
<1> QED
  BY <1>2, <1>3, <1>4, <1>5

LEMMA EditedIsFirm ==
  ASSUME NEW x, Firm(x), NEW kind \in Edits, NEW y \in Edited(x, kind)
  PROVE  Edit(y)
<1> DEFINE q == x.queue
<1>0. /\ GoodQueue(q, Library) /\ DOMAIN x = Fields
      /\ x.pending # None => x.pending.to \in Nat /\ DOMAIN x.pending = PendingFields
  BY DEF Firm, Whole
<1>1. CASE kind = "Insert"
  <2>1. PICK i \in 0 .. QueueLen(q) : y = WithInsertion(x, InsertAtReady(q, i, <<NewTrack>>))
    BY <1>1 DEF Edited
  <2>2. i \in Nat
    BY <1>0, SoundQueue DEF GoodQueue
  <2>3. GoodQueue(InsertAtReady(q, i, <<NewTrack>>), Library)
    BY <1>0, <2>2, InsertKeeps
  <2> QED
    BY <2>1, <2>3, InsertionIsEdited
<1>2. CASE kind = "PlayNext"
  <2> DEFINE fading == x.pending # None /\ ~x.pending.gapless
             r == IF fading THEN InsertAtReady(q, x.pending.to + 1, <<NewTrack>>)
                  ELSE InsertNext(q, <<NewTrack>>)
  <2>1. y = WithQueue(x, r)
    BY <1>2 DEF Edited
  <2>2. fading => GoodQueue(r, Library) /\ StillThere(q, x.pending.to, r, x.pending.to)
    <3>1. x.pending # None => x.pending.to + 1 \in Nat /\ x.pending.to < x.pending.to + 1
      BY <1>0
    <3> QED
      BY <1>0, <3>1, InsertKeeps
  <2>3. ~fading => GoodQueue(r, Library)
    BY <1>0, InsertNextKeeps
  <2> HIDE DEF r
  <2> QED
    BY <2>1, <2>2, <2>3, QueueIsEdited
<1>3. CASE kind = "Append"
  <2>1. y = WithQueue(x, Add(q, <<NewTrack>>))
    BY <1>3 DEF Edited
  <2> QED
    BY <1>0, <2>1, AddKeeps, QueueIsEdited
<1>4. CASE kind \in {"ClearUpcoming", "ReplaceUpcoming", "ShuffleUpcoming"}
  <2> DEFINE u == UpcomingFrom(x)
  <2>1. /\ Firm(u.x) /\ u.from \in Nat /\ u.x.queue.current < u.from
        /\ u.x.pending # None /\ ~u.x.pending.gapless => u.x.pending.to < u.from
    BY UpcomingIs
  <2>2. \E r \in DropFrom(u.x.queue, u.from) \cup ReplaceFrom(u.x.queue, u.from, <<NewTrack>>)
                 \cup ShuffleFrom(u.x.queue, u.from) : y = WithQueue(u.x, r)
    <3>1. CASE kind = "ClearUpcoming"
      BY <3>1 DEF Edited
    <3>2. CASE kind = "ReplaceUpcoming"
      <4>1. PICK track \in {NewTrack} \ ToSet(q.items) :
               \E r \in ReplaceFrom(u.x.queue, u.from, <<track>>) : y = WithQueue(u.x, r)
        <5>1. Edited(x, kind) =
                 LET new == {NewTrack} \ ToSet(x.queue.items)
                 IN  {WithQueue(u.x, r) :
                        r \in UNION {ReplaceFrom(u.x.queue, u.from, <<track>>) : track \in new}}
          BY <3>2 DEF Edited
        <5> HIDE DEF u
        <5> QED
          BY <5>1
      <4> QED
        BY <4>1
    <3>3. CASE kind = "ShuffleUpcoming"
      BY <3>3 DEF Edited
    <3> QED
      BY <1>4, <3>1, <3>2, <3>3
  <2> HIDE DEF u
  <2>3. PICK r : /\ y = WithQueue(u.x, r)
                 /\ r \in DropFrom(u.x.queue, u.from) \cup ReplaceFrom(u.x.queue, u.from, <<NewTrack>>)
                          \cup ShuffleFrom(u.x.queue, u.from)
    BY <2>2
  <2>4. /\ GoodQueue(u.x.queue, Library)
        /\ u.x.pending # None => u.x.pending.to \in Nat
    BY <2>1 DEF Firm, Whole
  <2>5. GoodQueue(r, Library) /\ \A p \in Nat : p < u.from => StillThere(u.x.queue, p, r, p)
    BY <2>1, <2>3, <2>4, DropKeeps, RefillKeeps, ShuffleTailKeeps
  <2> QED
    BY <2>1, <2>3, <2>4, <2>5, QueueIsEdited
<1>5. CASE kind = "Shuffle"
  <2>1. PICK r \in ToggleShuffle(q) : y = Reshuffled(x, r)
    BY <1>5 DEF Edited
  <2>2. /\ GoodQueue(r, Library)
        /\ \A p \in Nat : HasTrack(q, p) =>
              LET k == PositionOf(r, PhysicalIndexOf(q, p))
              IN  k \in Nat /\ HasTrack(r, k) /\ TrackAt(r, k) = TrackAt(q, p)
    BY <1>0, ShuffleKeeps
  <2>3. CASE x.pending = None \/ ~HasTrack(q, x.pending.to)
    <3>1. y = WithQueue(x, r)
      BY <2>1, <2>3 DEF Reshuffled
    <3> QED
      BY <2>2, <2>3, <3>1, QueueIsEdited DEF StillThere
  <2>4. CASE ~(x.pending = None \/ ~HasTrack(q, x.pending.to))
    <3> DEFINE to == PositionOf(r, PhysicalIndexOf(q, x.pending.to))
    <3>1. to \in Nat /\ StillThere(q, x.pending.to, r, to)
      BY <1>0, <2>2, <2>4 DEF StillThere
    <3>2. y = [WithQueue(x, r) EXCEPT !.pending.to = to]
      BY <2>1, <2>4 DEF Reshuffled
    <3> HIDE DEF to
    <3> QED
      BY <2>2, <2>4, <3>1, <3>2, MovedIsEdited
  <2> QED
    BY <2>3, <2>4
<1>6. CASE kind = "Loop"
  <2>1. Edited(x, kind) = {WithQueue(x, [q EXCEPT !.loop = loop]) : loop \in LoopModes}
    BY <1>6 DEF Edited
  <2>2. PICK loop \in LoopModes : y = WithQueue(x, [q EXCEPT !.loop = loop])
    BY <2>1
  <2> DEFINE r == [q EXCEPT !.loop = loop]
  <2>3. r \in QueueRecord(Library) /\ r.items = q.items /\ r.order = q.order
        /\ r.shuffle = q.shuffle /\ r.current = q.current
    BY <1>0, <2>2 DEF GoodQueue, QueueRecord
  <2> HIDE DEF r
  <2>4. GoodQueue(r, Library)
    BY <1>0, <2>3 DEF GoodQueue, Sound, Pointing
  <2>5. \A p : StillThere(q, p, r, p)
    BY <2>3 DEF StillThere, HasTrack, TrackAt, PhysicalIndexOf
  <2> QED
    BY <2>2, <2>4, <2>5, QueueIsEdited DEF r
<1>7. CASE kind = "Move"
  <2>1. PICK i \in IndexSet(q), j \in IndexSet(q) :
           y = Remapped(WithQueue(x, MoveItem(q, i, j)), i, j)
    BY <1>7 DEF Edited
  <2> DEFINE r == MoveItem(q, i, j)
             w == WithQueue(x, r)
             to == RemapQueueIndex(x.pending.to, i, j)
  <2>2. GoodQueue(r, Library)
    BY <1>0, MoveKeeps
  <2>3. w.pending = x.pending /\ DOMAIN w = Fields
    BY <1>0 DEF WithQueue, Fields
  <2>4. CASE x.pending = None
    <3>1. y = w
      BY <2>1, <2>3, <2>4 DEF Remapped
    <3> QED
      BY <2>2, <2>4, <3>1, QueueIsEdited
  <2>5. CASE x.pending # None
    <3>1. to \in Nat /\ StillThere(q, x.pending.to, r, to)
      BY <1>0, <2>5, MoveKeeps
    <3> HIDE DEF r
    <3>2. y = [w EXCEPT !.pending.to = RemapQueueIndex(@, i, j)]
      BY <2>1, <2>3, <2>5 DEF Remapped, r
    <3> HIDE DEF w
    <3>3. y = [w EXCEPT !.pending.to = to]
      BY <1>0, <2>3, <2>5, <3>2 DEF Fields, PendingFields
    <3> HIDE DEF to
    <3> QED
      BY <2>2, <2>5, <3>1, <3>3, MovedIsEdited DEF w
  <2> QED
    BY <2>4, <2>5
<1>8. CASE kind = "Remove"
  <2>1. PICK i \in IndexSet(q) :
           /\ i # q.current /\ ~(x.pending # None /\ ~x.pending.gapless /\ x.pending.to = i)
           /\ y = Closed(WithQueue(x, RemoveEntry(q, i)), i)
    BY <1>8 DEF Edited
  <2> DEFINE r == RemoveEntry(q, i)
             w == WithQueue(x, r)
             to == x.pending.to - 1
  <2>2. /\ GoodQueue(r, Library)
        /\ \A p \in Nat : p # i => StillThere(q, p, r, IF i < p THEN p - 1 ELSE p)
    BY <1>0, <2>1, RemoveKeeps
  <2>3. w.pending = x.pending /\ DOMAIN w = Fields
    BY <1>0 DEF WithQueue, Fields
  <2> HIDE DEF r
  <2>4. CASE x.pending = None \/ ~(i < x.pending.to)
    <3>1. y = w
      BY <2>1, <2>3, <2>4 DEF Closed, r
    <3> QED
      BY <1>0, <2>1, <2>2, <2>4, <3>1, QueueIsEdited
  <2>5. CASE x.pending # None /\ i < x.pending.to
    <3>1. to \in Nat /\ StillThere(q, x.pending.to, r, to)
      <4>1. i \in Nat
        BY <1>0, SoundQueue DEF IndexSet, GoodQueue
      <4>2. x.pending.to # i /\ to \in Nat
        BY <1>0, <2>5, <4>1
      <4> QED
        BY <1>0, <2>2, <2>5, <4>2
    <3>2. y = [w EXCEPT !.pending.to = @ - 1]
      BY <2>1, <2>3, <2>5 DEF Closed, r
    <3> HIDE DEF w
    <3>3. y = [w EXCEPT !.pending.to = to]
      BY <1>0, <2>3, <2>5, <3>2 DEF Fields, PendingFields
    <3> HIDE DEF to
    <3> QED
      BY <2>2, <2>5, <3>1, <3>3, MovedIsEdited DEF w
  <2> QED
    BY <2>4, <2>5
<1> QED
  BY <1>1, <1>2, <1>3, <1>4, <1>5, <1>6, <1>7, <1>8 DEF Edits

LEMMA EditIsFirm ==
  ASSUME NEW x, Edit(x), NEW near
  PROVE  Firm(RearmGapless(x, near))
  BY RearmIsFirm DEF Edit

LEMMA JumpsPhysicalIsFirm ==
  ASSUME NEW x, Firm(x), NEW queue, GoodQueue(queue, Library)
  PROVE  Firm(JumpsPhysical(x, queue))
<1> DEFINE moved == WithQueue(x, queue)
<1>1. DOMAIN moved = Fields /\ moved.queue = queue
  BY DEF WithQueue, Firm, Whole, Fields
<1> HIDE DEF moved
<1>2. Firm(StartLoad(moved, queue.current, "immediate"))
  BY <1>1, StartLoadIsFirm
<1>3. Firm(RefuseLoad(moved))
  BY <1>1, RefuseKeeps, NoneIsFirm DEF Keeps
<1> QED
  BY <1>2, <1>3 DEF JumpsPhysical, moved

LEMMA RefilledIs ==
  ASSUME NEW q, GoodQueue(q, Library), NEW n \in 0 .. Len(Tracks), NEW r \in Refilled(q, n)
  PROVE  r \in QueueRecord(Library) /\ (n = 0 => GoodQueue(r, Library))
<1> DEFINE t == SubSeq(Tracks, 1, n)
<1>1. t \in Seq(Library) /\ (n = 0 => t = <<>>)
  <2>1. Tracks \in Seq(Library)
    BY TracksAreListed DEF Library
  <2>2. \A i \in 1 .. n : Tracks[i] \in Library
    BY <2>1
  <2> QED
    BY <2>1, <2>2
<1> HIDE DEF t
<1>2. /\ Replace(q, t) \in QueueRecord(Library)
      /\ n = 0 => GoodQueue(Replace(q, t), Library)
  BY <1>1, ReplaceIs DEF GoodQueue
<1>3. PICK on \in BOOLEAN : r \in SetShuffle(Replace(q, t), on)
  BY DEF Refilled, t
<1>4. Toggled(r, Replace(q, t), Library, on)
  BY <1>2, <1>3, SetShuffleIs
<1> QED
  BY <1>2, <1>4 DEF Toggled

LEMMA ReplacedIsFirm ==
  ASSUME NEW x, Firm(x), NEW y \in Replaced(x)
  PROVE  Firm(y)
<1>1. GoodQueue(x.queue, Library) /\ DOMAIN x = Fields /\ Len(Tracks) \in Nat
  BY TracksAreListed DEF Firm, Whole
<1>2. CASE y \in {Stop(WithQueue(x, q)) : q \in Refilled(x.queue, 0)}
  <2>1. PICK q \in Refilled(x.queue, 0) : y = Stop(WithQueue(x, q))
    BY <1>2
  <2>2. GoodQueue(q, Library)
    BY <1>1, RefilledIs
  <2>3. DOMAIN WithQueue(x, q) = Fields /\ WithQueue(x, q).queue = q
    BY <1>1 DEF WithQueue, Fields
  <2> QED
    BY <2>1, <2>2, <2>3, StopIsFirm
<1>3. CASE y \in {StartImmediateLoad(x, q, q.current) : q \in
                    UNION {UNION {JumpTo(r, i) : i \in IndexSet(r)} :
                              r \in UNION {Refilled(x.queue, n) : n \in 1 .. Len(Tracks)}}}
  <2>1. PICK n \in 1 .. Len(Tracks) :
           \E r \in Refilled(x.queue, n) : \E i \in IndexSet(r) : \E q \in JumpTo(r, i) :
              y = StartImmediateLoad(x, q, q.current)
    BY <1>3
  <2>2. PICK r \in Refilled(x.queue, n) : \E i \in IndexSet(r) : \E q \in JumpTo(r, i) :
              y = StartImmediateLoad(x, q, q.current)
    BY <2>1
  <2>3. PICK i \in IndexSet(r) : \E q \in JumpTo(r, i) : y = StartImmediateLoad(x, q, q.current)
    BY <2>2
  <2>4. PICK q \in JumpTo(r, i) : y = StartImmediateLoad(x, q, q.current)
    BY <2>3
  <2>5. r \in QueueRecord(Library)
    BY <1>1, RefilledIs
  <2>6. r.shuffle \in BOOLEAN /\ i \in 0 .. Len(r.items) - 1
    BY <2>5 DEF QueueRecord, IndexSet
  <2>7. GoodQueue(q, Library)
    BY <2>4, <2>5, <2>6, JumpToIs
  <2> QED
    BY <2>4, <2>7, ImmediateIsFirm
<1> QED
  BY <1>2, <1>3 DEF Replaced

LEMMA AskedIsFirm ==
  ASSUME NEW x, Firm(x), NEW c \in Requests \cup Edits, NEW near, NEW y \in Asked(x, c, near)
  PROVE  Firm(y)
<1>0. GoodQueue(x.queue, Library) /\ DOMAIN x = Fields
  BY DEF Firm, Whole
<1>1. CASE c \in Edits
  <2>1. y \in {RearmGapless(z, near) : z \in Edited(x, c)}
    BY <1>1 DEF Edits, Asked
  <2>2. PICK z \in Edited(x, c) : y = RearmGapless(z, near)
    BY <2>1
  <2> QED
    BY <1>1, <2>2, EditedIsFirm, EditIsFirm
<1>2. CASE c = "Play"
  BY <1>2, ResumeIsFirm DEF Asked, Edits
<1>3. CASE c = "Pause"
  BY <1>0, <1>3, PauseKeeps, KeepsFirm DEF Asked, Edits
<1>4. CASE c = "Next"
  BY <1>4, PlayNextIsFirm DEF Asked, Edits
<1>5. CASE c = "Previous"
  BY <1>5, PreviousIsFirm DEF Asked, Edits
<1>6. CASE c = "Stop"
  BY <1>0, <1>6, StopIsFirm DEF Asked, Edits
<1>7. CASE c = "Seek"
  BY <1>0, <1>7, SeekKeeps, KeepsFirm DEF Asked, Edits
<1>8. CASE c = "Jump"
  <2>1. PICK i \in IndexSet(x.queue) :
           \E q \in JumpToPosition(x.queue, i) : y = StartImmediateLoad(x, q, q.current)
    BY <1>8 DEF Asked, Edits
  <2>2. PICK q \in JumpToPosition(x.queue, i) : y = StartImmediateLoad(x, q, q.current)
    BY <2>1
  <2>3. i \in Nat
    BY <1>0, SoundQueue DEF GoodQueue, IndexSet
  <2> QED
    BY <1>0, <2>2, <2>3, JumpToPositionIs, ImmediateIsFirm
<1>9. CASE c = "JumpPhysical"
  <2>1. PICK i \in IndexSet(x.queue) :
           \E q \in JumpTo(x.queue, i) : y = JumpsPhysical(x, q)
    BY <1>9 DEF Asked, Edits
  <2>2. PICK q \in JumpTo(x.queue, i) : y = JumpsPhysical(x, q)
    BY <2>1
  <2>3. i \in 0 .. Len(x.queue.items) - 1 /\ x.queue \in QueueRecord(Library)
    BY <1>0 DEF GoodQueue, IndexSet
  <2>4. x.queue.shuffle \in BOOLEAN
    BY <2>3 DEF QueueRecord
  <2> QED
    BY <2>2, <2>3, <2>4, JumpToIs, JumpsPhysicalIsFirm
<1>10. CASE c = "Replace"
  BY <1>10, ReplacedIsFirm DEF Asked, Edits
<1> QED
  BY <1>1, <1>2, <1>3, <1>4, <1>5, <1>6, <1>7, <1>8, <1>9, <1>10 DEF Requests

-----------------------------------------------------------------------------
(* The mail and the engine's events.                                         *)

LEMMA PreparedKeeps ==
  ASSUME NEW x, DOMAIN x = Fields, NEW k
  PROVE  Keeps(x, HandlePreparedLoad(x, k))
<1> DEFINE task == [token |-> k.token, stage |-> "reply", transition |-> k.transition]
           load == [op |-> "Load", token |-> k.token, transition |-> k.transition]
<1>1. HandlePreparedLoad(x, k) =
         IF x.intent.token # k.token THEN x
         ELSE [[x EXCEPT !.task = task] EXCEPT !.out = Append(@, load)]
  BY DEF HandlePreparedLoad, SendLoad
<1> HIDE DEF task, load
<1> QED
  BY <1>1 DEF Keeps, Fields

LEMMA LandedIsFirm ==
  ASSUME NEW x, Firm(x), NEW k
  PROVE  Firm(Landed(x, k))
<1> DEFINE y == [x EXCEPT !.intent = Committed(k.token), !.task = None]
           armed == x.pending # None /\ x.pending.token = k.token
<1>1. DOMAIN y = Fields /\ y.queue = x.queue /\ y.pending = x.pending
  BY DEF Firm, Whole, Fields
<1>2. Landed(x, k) = IF ~armed THEN y
                     ELSE IF k.result = "crossfaded" THEN [y EXCEPT !.pending.stage = "Fading"]
                     ELSE IF k.result = "gapless" THEN [y EXCEPT !.pending.stage = "Queued"]
                     ELSE CommitTransition(y)
  BY DEF Landed
<1> HIDE DEF y
<1>3. Firm(y)
  BY <1>1, KeepsFirm DEF Keeps
<1>4. ASSUME armed, NEW stage PROVE Firm([y EXCEPT !.pending.stage = stage])
  <2> DEFINE z == [y EXCEPT !.pending.stage = stage]
             pending == [x.pending EXCEPT !.stage = stage]
  <2>1. z = [y EXCEPT !.pending = pending]
    BY <1>1 DEF Fields
  <2>2. /\ DOMAIN pending = PendingFields /\ pending.to = x.pending.to
        /\ pending.key = x.pending.key /\ pending.gapless = x.pending.gapless
        /\ pending.amid = x.pending.amid
    BY <1>4 DEF Firm, Whole, PendingFields
  <2> HIDE DEF z, pending
  <2>3. DOMAIN z = Fields /\ z.queue = x.queue /\ z.pending = pending
    BY <1>1, <2>1 DEF Fields
  <2>4. Keeps(x, z)
    BY <1>4, <2>2, <2>3 DEF Keeps, SameTarget
  <2> QED
    BY <2>4, KeepsFirm DEF z
<1>5. armed => Firm(CommitTransition(y))
  BY <1>1, <1>3, CommitIsWhole DEF Firm
<1> QED
  BY <1>2, <1>3, <1>4, <1>5

LEMMA FinishedIsFirm ==
  ASSUME NEW x, Firm(x), NEW k, NEW near
  PROVE  Firm(HandleLoadFinished(x, k, near))
<1> DEFINE idle == [x EXCEPT !.task = None]
<1>1. DOMAIN idle = Fields /\ idle.queue = x.queue /\ idle.pending = x.pending
  BY DEF Firm, Whole, Fields
<1>2. HandleLoadFinished(x, k, near) =
         IF x.intent.token # k.token THEN x
         ELSE IF k.result = "dropped" THEN idle
         ELSE IF k.result = "failed" THEN FailLoad(idle, k.token)
         ELSE ArmGaplessNow(Landed(x, k), near)
  BY DEF HandleLoadFinished, Landed
<1> HIDE DEF idle
<1>3. Firm(idle)
  BY <1>1, KeepsFirm DEF Keeps
<1>4. Firm(FailLoad(idle, k.token))
  BY <1>1, <1>3, FailKeeps, KeepsFirm
<1>5. Firm(ArmGaplessNow(Landed(x, k), near))
  BY LandedIsFirm, ArmNowIsFirm
<1> QED
  BY <1>2, <1>3, <1>4, <1>5

LEMMA MailIsFirm ==
  ASSUME NEW x, Firm(x), NEW k, k.type \in {"LoadPrepared", "PrepareFailed", "LoadFinished"},
         NEW near
  PROVE  Firm(HandleMail(x, k, near))
<1>1. DOMAIN x = Fields
  BY DEF Firm, Whole
<1> QED
  BY <1>1, PreparedKeeps, FailKeeps, FinishedIsFirm, KeepsFirm DEF HandleMail

LEMMA PhaseKeeps ==
  ASSUME NEW x, DOMAIN x = Fields, NEW phase
  PROVE  Keeps(x, [x EXCEPT !.phase = phase])
  BY DEF Keeps, Fields

LEMMA StaleKeeps ==
  ASSUME NEW x, DOMAIN x = Fields
  PROVE  Keeps(x, StopStale(x))
<1> DEFINE told == Send(x, "Stop")
           hit == [told EXCEPT !.raced = TRUE, !.forsaken = @ \cup {x.intent.token}]
<1>1. DOMAIN told = Fields /\ told.queue = x.queue /\ told.pending = x.pending
  BY SendKeeps DEF Keeps
<1>2. StopStale(x) \in {told, hit}
  BY DEF StopStale
<1> HIDE DEF told
<1> QED
  BY <1>1, <1>2 DEF Keeps, Fields

LEMMA EndedIsFirm ==
  ASSUME NEW x, Firm(x), NEW t
  PROVE  Firm(HandleEnded(x, t))
<1> DEFINE model == CommitModel(x)
           late == [model EXCEPT !.intent = Loading(x.pending.token, FALSE, t),
                                 !.phase = "Ended"]
           base == IF t # x.intent.token THEN RevertTransition(x) ELSE x
           y == [base EXCEPT !.phase = "Ended"]
<1>1. DOMAIN x = Fields
  BY DEF Firm, Whole
<1>2. x.pending # None => Firm(late)
  <2>1. x.pending # None => /\ DOMAIN model = Fields /\ GoodQueue(model.queue, Library)
                            /\ model.pending = None
    BY CommitIsWhole DEF Firm
  <2> HIDE DEF model
  <2>2. x.pending # None => /\ DOMAIN late = Fields /\ GoodQueue(late.queue, Library)
                            /\ late.pending = None
    BY <2>1 DEF Fields
  <2> QED
    BY <2>2, NoneIsFirm
<1>3. Firm(base)
  BY <1>1, RevertKeeps, KeepsFirm
<1>4. HandleEnded(x, t) = IF t # x.intent.token /\ ~WaitingFrom(x, t) THEN x
                          ELSE IF IsOutgoing(x, t) /\ x.pending.stage = "Loading" THEN late
                          ELSE PlayNext(y)
  BY DEF HandleEnded
<1> HIDE DEF base
<1>5. Firm(y)
  BY <1>3, PhaseKeeps, KeepsFirm DEF Firm, Whole
<1> HIDE DEF late, y
<1>6. Firm(PlayNext(y))
  BY <1>5, PlayNextIsFirm
<1> QED
  BY <1>2, <1>4, <1>6 DEF IsOutgoing

LEMMA EventIsFirm ==
  ASSUME NEW x, Firm(x), NEW e, NEW near
  PROVE  Firm(HandleEvent(x, e, near))
<1>1. DOMAIN x = Fields
  BY DEF Firm, Whole
<1>2. \A phase : Firm([x EXCEPT !.phase = phase])
  BY <1>1, PhaseKeeps, KeepsFirm
<1>3. \A phase : Firm(ArmGaplessNow([x EXCEPT !.phase = phase], near))
  BY <1>2, ArmNowIsFirm
<1>4. Firm(StopStale(x))
  BY <1>1, StaleKeeps, KeepsFirm
<1>5. Firm(HandlePhase(x, e, near))
  BY <1>3, <1>4 DEF HandlePhase
<1>6. Firm(HandleEnded(x, e.token))
  BY EndedIsFirm
<1>7. Firm(HandleSwitched(x, e.token, near))
  <2> DEFINE y == CommitTransition(x)
             z == [y EXCEPT !.phase = "Playing"]
  <2>1. x.pending # None => Firm(y)
    BY CommitIsWhole DEF Firm
  <2> HIDE DEF y
  <2>2. x.pending # None => Firm(z)
    BY <2>1, PhaseKeeps, KeepsFirm DEF Firm, Whole
  <2> HIDE DEF z
  <2>3. x.pending # None => Firm(ArmGaplessNow(z, near))
    BY <2>2, ArmNowIsFirm
  <2> QED
    BY <2>3 DEF HandleSwitched, y, z
<1>8. Firm(HandleError(x, e.token))
  <2> DEFINE r == RevertTransition(x)
             y == [r EXCEPT !.armed = x.pending.from]
  <2>1. DOMAIN r = Fields /\ Firm(r)
    BY <1>1, RevertKeeps, KeepsFirm DEF Keeps
  <2>2. HandleError(x, e.token) \in {y, FailLoad(x, e.token)}
    BY DEF HandleError
  <2> HIDE DEF r
  <2>3. Keeps(r, y)
    BY <2>1 DEF Keeps, Fields
  <2>4. Firm(y)
    BY <2>1, <2>3, KeepsFirm
  <2>5. Firm(FailLoad(x, e.token))
    BY <1>1, FailKeeps, KeepsFirm
  <2> QED
    BY <2>2, <2>4, <2>5
<1>9. Firm(HandlePosition(x, e.token))
  BY ArmIsFirm DEF HandlePosition
<1> HIDE DEF Firm
<1> QED
  BY <1>2, <1>4, <1>5, <1>6, <1>7, <1>8, <1>9 DEF HandleEvent

-----------------------------------------------------------------------------
(* Steps.                                                                    *)

LEMMA HandledIsFirm ==
  ASSUME NEW x, Firm(x), Handled(x)
  PROVE  Firm(s')
<1>1. s' = [x EXCEPT !.out = <<>>]
  BY DEF Handled
<1>2. Keeps(x, s')
  BY <1>1 DEF Firm, Whole, Keeps, Fields
<1> QED
  BY <1>2, KeepsFirm

LEMMA EngineStepIsFirm ==
  ASSUME Firm(s), NEW x, Keeps(s, x), NEW r, EngineSteps(x, r)
  PROVE  Firm(s')
<1>1. s' = x \/ s' = [x EXCEPT !.task = None]
  BY DEF EngineSteps
<1>2. Keeps(x, s')
  BY <1>1 DEF Keeps, Fields
<1> QED
  BY <1>2, KeepsAgain, KeepsFirm

LEMMA RacedKeeps ==
  ASSUME DOMAIN s = Fields, NEW race
  PROVE  Keeps(s, [s EXCEPT !.raced = race]) /\ Keeps(s, s) /\ Keeps(s, Cut)
<1>1. Keeps(s, [s EXCEPT !.raced = race]) /\ Keeps(s, s)
  BY DEF Keeps, Fields
<1>2. Keeps(s, Cut)
  BY DEF Keeps, Fields, Cut, Crossed
<1> QED
  BY <1>1, <1>2

Posted == /\ mail \in Seq(ToSet(mail))
          /\ \A i \in DOMAIN mail : mail[i].type \in {"LoadPrepared", "PrepareFailed", "LoadFinished"}
FirmInv == Firm(s) /\ Posted

LEMMA PostedMore ==
  ASSUME Posted, NEW k, k.type \in {"LoadPrepared", "PrepareFailed", "LoadFinished"},
         mail' = Append(mail, k)
  PROVE  Posted'
<1>1. /\ mail' \in Seq(ToSet(mail')) /\ DOMAIN mail' = 1 .. Len(mail) + 1
      /\ DOMAIN mail = 1 .. Len(mail) /\ Len(mail) \in Nat
      /\ \A i \in 1 .. Len(mail) : mail'[i] = mail[i]
      /\ mail'[Len(mail) + 1] = k
  BY AppendMail DEF Posted
<1>2. \A i \in DOMAIN mail' : mail'[i] = k \/ (i \in DOMAIN mail /\ mail'[i] = mail[i])
  BY <1>1
<1> QED
  BY <1>1, <1>2 DEF Posted

LEMMA PostedRest ==
  ASSUME Posted, mail # <<>>, mail' = Tail(mail)
  PROVE  Posted' /\ Head(mail).type \in {"LoadPrepared", "PrepareFailed", "LoadFinished"}
<1>1. /\ Tail(mail) \in Seq(ToSet(Tail(mail)))
      /\ Len(mail) \in Nat /\ Len(mail) > 0 /\ DOMAIN mail = 1 .. Len(mail)
      /\ DOMAIN Tail(mail) = 1 .. Len(mail) - 1
      /\ \A i \in 1 .. Len(mail) - 1 : Tail(mail)[i] = mail[i + 1]
      /\ Head(mail) = mail[1]
  BY TailMail DEF Posted
<1>2. 1 \in DOMAIN mail /\ \A i \in DOMAIN Tail(mail) : i + 1 \in DOMAIN mail
  BY <1>1
<1> QED
  BY <1>1, <1>2 DEF Posted

LEMMA EngineIsFirm == ASSUME FirmInv, EngineActs PROVE FirmInv'
<1>1. DOMAIN s = Fields
  BY DEF FirmInv, Firm, Whole
<1>2. ASSUME NEW x, Keeps(s, x), NEW r, EngineSteps(x, r) PROVE FirmInv'
  <2>1. Firm(s')
    BY <1>2, EngineStepIsFirm DEF FirmInv
  <2>2. mail' = mail \/ \E k : k.type = "LoadFinished" /\ mail' = Append(mail, k)
    BY <1>2 DEF EngineSteps
  <2>3. Posted'
    BY <2>2, PostedMore DEF FirmInv, Posted
  <2> QED
    BY <2>1, <2>3 DEF FirmInv
<1>3. \A race : Keeps(s, [s EXCEPT !.raced = race]) /\ Keeps(s, s) /\ Keeps(s, Cut)
  BY <1>1, RacedKeeps
<1>4. CASE EngineTakesCommand
  <2>1. PICK race : EngineSteps([s EXCEPT !.raced = race], Commanded(engine, Head(sent)))
    BY <1>4 DEF EngineTakesCommand
  <2> QED
    BY <1>2, <1>3, <2>1
<1>5. ASSUME NEW r, EngineMoves(r) PROVE FirmInv'
  BY <1>2, <1>3, <1>5 DEF EngineMoves
<1>6. CASE EngineStarts \/ EngineLoadFails \/ EngineEnds \/ EngineSwitches
  BY <1>5, <1>6 DEF EngineStarts, EngineLoadFails, EngineEnds, EngineSwitches
<1>7. ASSUME NEW kind, NEW race, NEW r, Trouble(kind, [s EXCEPT !.raced = race], r) PROVE FirmInv'
  BY <1>2, <1>3, <1>7 DEF Trouble
<1>8. CASE EngineRebuilds
  <2>1. PICK hold \in BOOLEAN :
           Trouble("rebuild", [s EXCEPT !.raced = @ \/ (engine.next # 0 /\ ~QueuedKnown)
                                                 \/ (engine.cur # None /\ engine.cur.ended)],
                   Rebuilds(engine, hold))
    BY <1>8 DEF EngineRebuilds
  <2> DEFINE race == s.raced \/ (engine.next # 0 /\ ~QueuedKnown)
                       \/ (engine.cur # None /\ engine.cur.ended)
  <2>2. Trouble("rebuild", [s EXCEPT !.raced = race], Rebuilds(engine, hold))
    BY <2>1
  <2> HIDE DEF race
  <2> QED
    BY <1>7, <2>2
<1>11. CASE EngineLosesOutput
  BY <1>2, <1>3, <1>11 DEF EngineLosesOutput, Trouble
<1>9. CASE EngineWorkerFails
  <2> DEFINE race == s.raced \/ UnderWay
  <2>1. Crossed = [s EXCEPT !.raced = race]
    BY DEF Crossed
  <2> HIDE DEF race
  <2>2. \E t \in Playing(engine) : Trouble("worker", Crossed, Fails(engine, t))
    BY <1>9 DEF EngineWorkerFails
  <2> QED
    BY <1>7, <2>1, <2>2
<1>10. CASE EnginePosition
  BY <1>10 DEF EnginePosition, FirmInv, Posted, Firm, Whole, NextTaken, Followed, NextPosition
<1> QED
  BY <1>4, <1>6, <1>8, <1>9, <1>10, <1>11 DEF EngineActs

LEMMA StartIsFirm == Init => FirmInv
<1> SUFFICES ASSUME Init PROVE FirmInv
  OBVIOUS
<1> DEFINE q == [EmptyQueue EXCEPT !.items = Tracks]
<1>1. /\ DOMAIN s = Fields /\ s.queue = q /\ s.pending = None
      /\ mail = <<>>
  BY DEF Init, Fields
<1>2. GoodQueue(q, Library)
  <2>1. Tracks \in Seq(Library) /\ Len(Tracks) \in Nat
    BY TracksAreListed DEF Library
  <2>2. q \in QueueRecord(Library) /\ q.shuffle = FALSE /\ q.items = Tracks /\ q.current = 0
    BY <2>1, EmptySeq DEF EmptyQueue, QueueRecord, LoopModes
  <2> HIDE DEF q
  <2>3. Tracks # <<>> => 0 < Len(Tracks)
    BY <2>1, EmptySeq
  <2> QED
    BY <2>2, <2>3 DEF GoodQueue, Sound, Pointing
<1> HIDE DEF q
<1>3. Posted
  BY <1>1, EmptySeq DEF Posted
<1> QED
  BY <1>1, <1>2, <1>3, NoneIsFirm DEF FirmInv

LEMMA FirmHolds == Spec => []FirmInv
<1>1. FirmInv /\ [Next]_vars => FirmInv'
  <2> SUFFICES ASSUME FirmInv, [Next]_vars PROVE FirmInv'
    OBVIOUS
  <2>1. CASE Client
    <3>1. PICK c \in IF Unhurried THEN Commands ELSE Hasty, near \in BOOLEAN :
             \E x \in Asked(s, c, near) : Handled(x)
      BY <2>1 DEF Client
    <3>2. PICK x \in Asked(s, c, near) : Handled(x)
      BY <3>1
    <3>3. c \in Requests \cup Edits
      BY PlaybackBounds DEF Unhurried
    <3>4. Firm(x)
      BY <3>3, AskedIsFirm DEF FirmInv
    <3>5. Firm(s') /\ mail' = mail
      BY <2>1, <3>2, <3>4, HandledIsFirm DEF Client
    <3> QED
      BY <3>5 DEF FirmInv, Posted
  <2>2. CASE HandleOneMail
    <3>1. PICK near \in BOOLEAN : Handled(HandleMail(s, Head(mail), near))
      BY <2>2 DEF HandleOneMail
    <3>2. Posted' /\ Head(mail).type \in {"LoadPrepared", "PrepareFailed", "LoadFinished"}
      BY <2>2, PostedRest DEF FirmInv, HandleOneMail
    <3>3. Firm(HandleMail(s, Head(mail), near))
      BY <3>2, MailIsFirm DEF FirmInv
    <3>4. Firm(s')
      BY <3>1, <3>3, HandledIsFirm
    <3> QED
      BY <3>2, <3>4 DEF FirmInv
  <2>3. CASE HandleOneEvent
    <3>1. PICK near \in BOOLEAN : Handled(HandleEvent(s, Head(events), near))
      BY <2>3 DEF HandleOneEvent
    <3>2. Firm(HandleEvent(s, Head(events), near))
      BY EventIsFirm DEF FirmInv
    <3>3. Firm(s') /\ mail' = mail
      BY <2>3, <3>1, <3>2, HandledIsFirm DEF HandleOneEvent
    <3> QED
      BY <3>3 DEF FirmInv, Posted
  <2>4. CASE TaskPrepares
    <3>1. Firm(s')
      <4>1. Keeps(s, s')
        BY <2>4 DEF TaskPrepares, FirmInv, Firm, Whole, Keeps, Fields
      <4> QED
        BY <4>1, KeepsFirm DEF FirmInv
    <3>2. PICK type \in {"LoadPrepared", "PrepareFailed"} :
             mail' = Append(mail, [type |-> type, token |-> s.task.token,
                                   transition |-> s.task.transition])
      BY <2>4 DEF TaskPrepares
    <3>3. Posted'
      BY <3>2, PostedMore DEF FirmInv
    <3> QED
      BY <3>1, <3>3 DEF FirmInv
  <2>5. CASE EngineActs
    BY <2>5, EngineIsFirm
  <2>6. CASE UNCHANGED vars
    BY <2>6 DEF vars, FirmInv, Posted, Firm, Whole, NextTaken, Followed, NextPosition
  <2> QED
    BY <2>1, <2>2, <2>3, <2>4, <2>5, <2>6 DEF Next
<1> QED
  BY StartIsFirm, <1>1, PTL DEF Spec

\* A track readied for a gapless switch is the one that comes next, after every
\* interleaving of edits, commands, load results and engine events, whatever is
\* pressed when (each edit ends in rearm_gapless, which undoes the transition
\* the new queue has overtaken).
THEOREM GaplessStaysNext == Spec => []GaplessIsNext
<1>1. FirmInv => GaplessIsNext
  BY DEF FirmInv, Firm, NextTaken, GaplessIsNext
<1> QED
  BY <1>1, FirmHolds, PTL

\* The armed position is that of the track being loaded, whatever was done to the
\* queue around it (the arms of handle_queue_edit that remap pending.to_position,
\* and those that put entries where it need not move), unless something was
\* inserted with the transition under way: insert_at leaves the position behind
\* (TargetRemapped).
THEOREM TargetsFollow == Spec => []TargetFollowed
<1>1. FirmInv => TargetFollowed
  BY DEF FirmInv, Firm, Followed, TargetFollowed, TrackOrGone
<1> QED
  BY <1>1, FirmHolds, PTL
=============================================================================

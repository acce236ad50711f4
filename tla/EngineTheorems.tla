--------------------------- MODULE EngineTheorems ---------------------------
(***************************************************************************)
(* What is proved about the engine for every number of loads, commands and *)
(* blocks, and whichever tokens are live.                                  *)
(*                                                                         *)
(*   1. the published status is the actor's own state;                     *)
(*   2. counting: members of a sequence, rings in the callback;            *)
(*   3. the inductive invariant Inv and what each of its parts says;       *)
(*   4. what happens to a part when a message, a ring or a command moves;  *)
(*   5. one lemma for each action, and the invariant;                      *)
(*   6. the theorems that follow from it.                                  *)
(***************************************************************************)
EXTENDS Engine, FiniteSetTheorems, SequenceTheorems, TLAPS

-----------------------------------------------------------------------------
(* The published status.                                                     *)

\* What the status is made of, and the status itself, are left alone.
Still == UNCHANGED <<status, current, fading, pending, paused, lastToken>>

LEMMA PublishIsTruthful == Publish => StatusTruthful'
  BY DEF Publish, StatusTruthful

LEMMA StillIsTruthful == StatusTruthful /\ Still => StatusTruthful'
  BY DEF StatusTruthful, StatusOf, Still, PhaseOf, TokenOf

\* A client, a worker and the callback never touch the actor's fields.
LEMMA OthersLeaveTheActor == Client \/ Workers \/ Callback => UNCHANGED actorVars
<1>1. Client => UNCHANGED actorVars
  BY DEF Client, StartLoad, SendLoad, SendOther, Ask
<1>2. ASSUME NEW t \in Token, \/ ProbeOk(t) \/ WorkerFails(t) \/ TakeCommand(t)
                              \/ Decode(t) \/ ReachEof(t)
      PROVE  UNCHANGED actorVars
  BY <1>2 DEF ProbeOk, WorkerFails, TakeCommand, Decode, ReachEof, WorkerStep
<1>3. Workers => UNCHANGED actorVars
  BY <1>2 DEF Workers
<1>4. Callback => UNCHANGED actorVars
  BY DEF Callback, RtDrain, RtRead, RtStep
<1> QED
  BY <1>1, <1>3, <1>4

LEMMA SilentActorIsTruthful == StatusTruthful /\ UNCHANGED actorVars => StatusTruthful'
  BY StillIsTruthful DEF actorVars, Still

\* Both outcomes of handle_device_error: put off, or the output is rebuilt.
LEMMA DeviceErrorIsTruthful ==
  ASSUME StatusTruthful, NEW lost, DeviceError(lost)
  PROVE  StatusTruthful'
<1>1. CASE debounced
  <2>1. Still
    BY <1>1 DEF DeviceError, Still
  <2> QED
    BY <2>1, StillIsTruthful
<1>2. CASE ~debounced
  <2>1. Publish
    BY <1>2 DEF DeviceError, RebuildSeeking, RebuildBare, RebuildFails
  <2> QED
    BY <2>1, PublishIsTruthful
<1> QED
  BY <1>1, <1>2

\* A message of the inbox is handled: the handler publishes, or leaves all it
\* publishes alone.
LEMMA HandleIsTruthful == ASSUME StatusTruthful, Handle PROVE StatusTruthful'
<1>1. CASE HandleLoad \/ HandleCancelPending \/ HandlePauseResume \/ HandleStop
  BY <1>1, PublishIsTruthful
     DEF HandleLoad, HandleCancelPending, HandlePauseResume, HandleStop
<1>2. CASE HandleSeek
  <2>1. CASE SeekAllowed(msg.token)
    BY <1>2, <2>1, PublishIsTruthful DEF HandleSeek
  <2>2. CASE ~SeekAllowed(msg.token)
    BY <1>2, <2>2, StillIsTruthful DEF HandleSeek, Still
  <2> QED
    BY <2>1, <2>2
<1>3. CASE StartFade \/ StartGapless \/ StartNow \/ StartFails
  BY <1>3, PublishIsTruthful DEF StartFade, StartGapless, StartNow, StartFails, StartFrame
<1>4. CASE StaleReady \/ HandleEof
  BY <1>4, StillIsTruthful DEF StaleReady, HandleEof, Ignore, Still
<1>5. CASE HandleFailed
  <2>1. CASE msg.token \notin TokensOf({pending, current, fading, queued})
    BY <1>5, <2>1, StillIsTruthful DEF HandleFailed, Still
  <2>2. CASE msg.token \in TokensOf({pending, current, fading, queued})
    BY <1>5, <2>2, PublishIsTruthful DEF HandleFailed
  <2> QED
    BY <2>1, <2>2
<1>6. CASE HandleDeviceError
  BY <1>6, DeviceErrorIsTruthful DEF HandleDeviceError
<1>7. CASE HandleDefaultDeviceChanged
  BY <1>7, DeviceErrorIsTruthful, StillIsTruthful
     DEF HandleDefaultDeviceChanged, Ignore, Still
<1> QED
  BY <1>1, <1>2, <1>3, <1>4, <1>5, <1>6, <1>7 DEF Handle

LEMMA TickIsTruthful == ASSUME StatusTruthful, Tick PROVE StatusTruthful'
<1>1. CASE Timeout
  BY <1>1, StillIsTruthful DEF Timeout, Ignore, Still
<1>2. CASE TickRebuild
  BY <1>2, DeviceErrorIsTruthful DEF TickRebuild
<1>3. CASE Reap
  <2>1. CASE FadeOver \/ Takeover
    BY <1>3, <2>1, PublishIsTruthful DEF Reap
  <2>2. CASE ~(FadeOver \/ Takeover)
    BY <1>3, <2>2, StillIsTruthful DEF Reap, Still
  <2> QED
    BY <2>1, <2>2
<1>4. CASE Latch
  <2>1. CASE DrainComplete
    BY <1>4, <2>1, PublishIsTruthful DEF Latch
  <2>2. CASE ~DrainComplete
    BY <1>4, <2>2, StillIsTruthful DEF Latch, Still
  <2> QED
    BY <2>1, <2>2
<1> QED
  BY <1>1, <1>2, <1>3, <1>4 DEF Tick

\* The status a client reads without asking the actor is never stale: at every
\* moment it is what the actor's own fields say (actor.rs, publish).
THEOREM StatusIsTruthful == Spec => []StatusTruthful
<1>1. Init => StatusTruthful
  BY DEF Init, StatusTruthful
<1>2. StatusTruthful /\ [Next]_vars => StatusTruthful'
  <2>1. ASSUME StatusTruthful, Next PROVE StatusTruthful'
    <3>1. CASE Client \/ Workers \/ Callback
      BY <2>1, <3>1, OthersLeaveTheActor, SilentActorIsTruthful
    <3>2. CASE Handle
      BY <2>1, <3>2, HandleIsTruthful
    <3>3. CASE Tick
      BY <2>1, <3>3, TickIsTruthful
    <3>4. CASE DebounceElapses
      BY <2>1, <3>4, StillIsTruthful DEF DebounceElapses, Still
    <3> QED
      BY <2>1, <3>1, <3>2, <3>3, <3>4 DEF Next
  <2>2. ASSUME StatusTruthful, UNCHANGED vars PROVE StatusTruthful'
    BY <2>2, SilentActorIsTruthful DEF vars
  <2> QED
    BY <2>1, <2>2
<1> QED
  BY <1>1, <1>2, PTL DEF Spec

-----------------------------------------------------------------------------
(* Counting.                                                                 *)

\* Where a sequence holds members of S, and how many of them.
Places(seq, S) == {i \in 1 .. Len(seq) : seq[i] \in S}
Count(seq, S) == Cardinality(Places(seq, S))

LEMMA PlacesAreFinite ==
  ASSUME NEW A, NEW seq \in Seq(A), NEW S
  PROVE  IsFiniteSet(Places(seq, S)) /\ Count(seq, S) \in Nat
<1>1. IsFiniteSet(1 .. Len(seq))
  BY FS_Interval
<1>2. Places(seq, S) \subseteq 1 .. Len(seq)
  BY DEF Places
<1> QED
  BY <1>1, <1>2, FS_Subset, FS_CardinalityType DEF Count

LEMMA CountEmpty == ASSUME NEW S PROVE Count(<<>>, S) = 0
<1>1. Places(<<>>, S) = {}
  BY DEF Places
<1> QED
  BY <1>1, FS_EmptySet DEF Count

LEMMA CountAppend ==
  ASSUME NEW A, NEW seq \in Seq(A), NEW m \in A, NEW S
  PROVE  Count(Append(seq, m), S) = Count(seq, S) + (IF m \in S THEN 1 ELSE 0)
<1> DEFINE n == Len(seq)
<1>1. Places(Append(seq, m), S) = Places(seq, S) \cup (IF m \in S THEN {n + 1} ELSE {})
  BY DEF Places
<1>2. n + 1 \notin Places(seq, S)
  BY DEF Places
<1>3. IsFiniteSet(Places(seq, S)) /\ Count(seq, S) \in Nat
  BY PlacesAreFinite
<1>4. CASE m \in S
  BY <1>1, <1>2, <1>3, <1>4, FS_AddElement DEF Count
<1>5. CASE m \notin S
  <2>1. Places(Append(seq, m), S) = Places(seq, S)
    BY <1>1, <1>5
  <2> QED
    BY <2>1, <1>3, <1>5 DEF Count
<1> QED
  BY <1>4, <1>5

LEMMA CountTail ==
  ASSUME NEW A, NEW seq \in Seq(A), seq # <<>>, NEW S
  PROVE  Count(Tail(seq), S) = Count(seq, S) - (IF Head(seq) \in S THEN 1 ELSE 0)
<1> DEFINE R == Places(Tail(seq), S)
           Q == Places(seq, S) \ {1}
           f == [i \in R |-> i + 1]
<1>1. /\ Len(seq) \in Nat \ {0} /\ Tail(seq) \in Seq(A) /\ Len(Tail(seq)) = Len(seq) - 1
      /\ \A i \in 1 .. Len(seq) - 1 : Tail(seq)[i] = seq[i + 1]
      /\ Head(seq) = seq[1]
  OBVIOUS
<1>2. R \subseteq Nat /\ \A i \in R : i + 1 \in Q
  BY <1>1 DEF Places
<1>3. \A j \in Q : j - 1 \in R /\ j = (j - 1) + 1
  BY <1>1 DEF Places
<1>4. f \in Bijection(R, Q)
  BY <1>2, <1>3 DEF Bijection, Injection, Surjection, IsInjective
<1>5. ExistsBijection(R, Q)
  BY <1>4 DEF ExistsBijection
<1>6. /\ IsFiniteSet(R) /\ IsFiniteSet(Places(seq, S)) /\ Count(seq, S) \in Nat
  BY <1>1, PlacesAreFinite
<1>7. Cardinality(Q) = Cardinality(R)
  BY <1>5, <1>6, FS_Bijection
<1>8. (1 \in Places(seq, S)) <=> (Head(seq) \in S)
  BY <1>1 DEF Places
<1>9. CASE Head(seq) \in S
  BY <1>6, <1>7, <1>8, <1>9, FS_RemoveElement DEF Count
<1>10. CASE Head(seq) \notin S
  <2>1. Cardinality(Q) = Count(seq, S)
    BY <1>6, <1>8, <1>10, FS_RemoveElement DEF Count
  <2> QED
    BY <2>1, <1>6, <1>7, <1>10 DEF Count
<1> QED
  BY <1>9, <1>10

\* One or two members appended.
LEMMA CountConcat ==
  ASSUME NEW A, NEW seq \in Seq(A), NEW S, NEW a \in A, NEW b \in A
  PROVE  /\ Count(seq \o <<>>, S) = Count(seq, S)
         /\ Count(seq \o <<a>>, S) = Count(seq, S) + (IF a \in S THEN 1 ELSE 0)
         /\ Count(seq \o <<a, b>>, S) = Count(seq, S) + (IF a \in S THEN 1 ELSE 0)
                                           + (IF b \in S THEN 1 ELSE 0)
<1>1. /\ seq \o <<>> = seq
      /\ seq \o <<a>> = Append(seq, a)
      /\ seq \o <<a, b>> = Append(Append(seq, a), b)
      /\ Append(seq, a) \in Seq(A)
  <2>1. /\ seq \o <<>> = seq
        /\ Append(seq, a) \in Seq(A) /\ seq \o <<a>> = Append(seq, a)
    BY ConcatEmptySeq, AppendProperties, AppendIsConcat
  <2>2. /\ <<a>> \in Seq(A) /\ <<b>> \in Seq(A) /\ <<a, b>> \in Seq(A)
    OBVIOUS
  <2>5. <<a, b>> = <<a>> \o <<b>>
    <3>1. <<a, b>> = Append(<<a>>, b)
      OBVIOUS
    <3> QED
      BY <2>2, <3>1, AppendIsConcat
  <2>3. seq \o <<a, b>> = (seq \o <<a>>) \o <<b>>
    BY <2>2, <2>5, ConcatAssociative
  <2>4. Append(seq, a) \o <<b>> = Append(Append(seq, a), b)
    BY <2>1, AppendIsConcat
  <2> QED
    BY <2>1, <2>3, <2>4
<1>2. Count(Append(seq, a), S) = Count(seq, S) + (IF a \in S THEN 1 ELSE 0)
  BY CountAppend
<1>3. Count(Append(Append(seq, a), b), S) = Count(Append(seq, a), S) + (IF b \in S THEN 1 ELSE 0)
  BY <1>1, CountAppend
<1>4. Count(seq, S) \in Nat
  BY PlacesAreFinite
<1> QED
  BY <1>1, <1>2, <1>3, <1>4

-----------------------------------------------------------------------------
(* The inductive invariant.                                                  *)

\* What travels: into the inbox, to the callback (Cargo carries a ring), and back.
Msg == [type : {"Load"}, token : Token, transition : Transition]
         \cup [type : {"Ready", "Failed"}, token : Token]
         \cup [type : {"Eof"}, token : Token, epoch : Epoch]
         \cup Control \cup Trouble
Cargo == [op : {"Swap"}, ring : Ring, fade : Nat] \cup [op : {"Queue"}, ring : Ring]
Packet == Cargo \cup [op : {"Unqueue"}, id : Token] \cup [op : {"DropAll"}]
Retirement == [kind : {"Ring", "FadeComplete", "Advanced"}, id : Nat]
RtFields == [active : Ring \cup {NoRing}, fading : Ring \cup {NoRing},
             next : Ring \cup {NoRing}, promoted : Token \cup {0},
             fade : [gen : Nat, progress : Nat] \cup {None}]
WorkerFields == [state : {"unborn", "probing", "waiting", "decoding", "parked", "gone"},
                 ring : Epoch, left : 0 .. TrackBlocks]
Prepared == [token : Token, transition : Transition]

\* TypeOK, and the types of all it leaves out.
Typed ==
    /\ pc \in {"recv", "tick", "reap", "latch"}
    /\ pending \in Prepared \cup {None} /\ preparing \in Prepared \cup {None}
    /\ current \in Session \cup {None} /\ fading \in Session \cup {None}
    /\ queued \in Session \cup {None}
    /\ paused \in BOOLEAN /\ open \in BOOLEAN /\ debounced \in BOOLEAN
    /\ reading \in BOOLEAN
    /\ lastToken \in Token \cup {0} /\ fadeGen \in Nat /\ outstanding \in Nat
    /\ rebuild \in {"none", "stall", "lost"}
    /\ inbox \in Seq(Msg) /\ cmds \in Seq(Packet) /\ retired \in Seq(Retirement)
    /\ rt \in RtFields /\ worker \in [Token -> WorkerFields]
    /\ want \in [Token -> Epoch \cup {-1}] /\ closed \in SUBSET Token
    /\ buffered \in [Ring -> 0 .. RingBlocks] /\ flag \in [Ring -> BOOLEAN]
    /\ nextToken \in Nat /\ nextToken > 0 /\ commands \in Epoch

\* The messages that may give a session a new ring.
Seeking == [type : {"Seek"}, token : Token \cup {0}] \cup Trouble
\* Each was paid for by a command of its own, and so was a deferred rebuild: no
\* session is ever given more rings than the epochs the model counts to.
Due(ib, rb) == Count(ib, Seeking) + (IF rb = "none" THEN 0 ELSE 1)
BudgetIn(ib, rb, w, n) == /\ Due(ib, rb) <= n
                          /\ \A t \in Token : w[t] + Due(ib, rb) <= n
Budgeted == BudgetIn(inbox, rebuild, want, commands)

\* A load is started at most once: its token is on its way in one place only, and
\* no worker was ever told to write for it.
LoadsIn(ib, p, q, w, n) ==
    /\ \A t \in Token : w[t] # -1 => t < n
    /\ p # None => p.token < n /\ w[p.token] = -1
    /\ q # None => q.token < n /\ w[q.token] = -1
    /\ p # None /\ q # None => p.token # q.token
    /\ \A i \in 1 .. Len(ib) : ib[i].type = "Load" =>
          /\ ib[i].token < n /\ w[ib[i].token] = -1
          /\ p # None => p.token # ib[i].token
          /\ q # None => q.token # ib[i].token
    /\ \A i, j \in 1 .. Len(ib) : ib[i].type = "Load" /\ ib[j].type = "Load"
                                  /\ ib[i].token = ib[j].token => i = j
Loads == LoadsIn(inbox, pending, preparing, want, nextToken)

\* A session knows the epoch its worker was last told to write; without a stream
\* there is no session.
Agrees(s, w) == s # None => w[s.token] = s.epoch
Sessions ==
    /\ Agrees(current, want) /\ Agrees(fading, want) /\ Agrees(queued, want)
    /\ ~open => current = None /\ fading = None /\ queued = None

\* A ring is in one place only, in the callback or in one command to it, and no
\* ring is newer than the epoch its worker was last told to write.
Held(s) == {s.active, s.fading, s.next} \ {NoRing}
RingsIn(s, c, w) ==
    /\ s.active # NoRing => s.active # s.fading /\ s.active # s.next
    /\ s.fading # NoRing => s.fading # s.next
    /\ \A r \in Held(s) : r[2] <= w[r[1]]
    /\ \A i \in 1 .. Len(c) : c[i] \in Cargo =>
          c[i].ring \notin Held(s) /\ c[i].ring[2] <= w[c[i].ring[1]]
    /\ \A i, j \in 1 .. Len(c) : c[i] \in Cargo /\ c[j] \in Cargo
                                 /\ c[i].ring = c[j].ring => i = j
Rings == RingsIn(rt, cmds, want)

\* rt_rings_outstanding counts the rings on their way, held, and on their way back.
Aloft(s, c, back) == Count(c, Cargo) + Cardinality(Held(s)) + Len(back)
Balanced == outstanding = Aloft(rt, cmds, retired)

\* An end of file that was reported or flagged is the last word of its worker on
\* its newest ring, or of a ring that a seek has left behind.
AtEof(t, e, wk, w) == \/ e < w[t]
                      \/ e = w[t] /\ wk[t].ring = e /\ wk[t].state \in {"parked", "gone"}
EofsIn(wk, w, fl, ib) ==
    /\ \A t \in Token : wk[t].state \in {"decoding", "parked"} => wk[t].ring <= w[t]
    /\ \A t \in Token, e \in Epoch : fl[<<t, e>>] => AtEof(t, e, wk, w)
    /\ \A i \in 1 .. Len(ib) : ib[i].type = "Eof" => AtEof(ib[i].token, ib[i].epoch, wk, w)
Eofs == EofsIn(worker, want, flag, inbox)

\* TypeOK is not inductive by itself: that a seek stays below the bound on epochs
\* is Budgeted, that a start finds its session without a ring is Loads.  The count
\* of rings is kept by a command only if no ring is held twice: Rings.  Sessions
\* ties the epochs of the actor to those of the workers, which Eofs needs.
Inv == Typed /\ Budgeted /\ Loads /\ Sessions /\ Rings /\ Balanced /\ Eofs

-----------------------------------------------------------------------------
(* What a moved message, a new ring or a command makes of the parts.         *)

Wants == [Token -> Epoch \cup {-1}]

LEMMA Numbers ==
  /\ MaxToken \in Nat /\ MaxCommands \in Nat /\ TrackBlocks \in Nat /\ RingBlocks \in Nat
  /\ FadeBlocks \in Nat /\ RingBlocks > 0 /\ FadeBlocks > 0
  /\ \A t : t \in Token <=> t \in Nat /\ 1 <= t /\ t <= MaxToken
  /\ \A e : e \in Epoch <=> e \in Nat /\ e <= MaxCommands
  /\ NoRing \notin Ring /\ 0 \notin Token /\ -1 \notin Epoch
  /\ Kinds \subseteq Transition
  BY EngineBounds DEF Token, Epoch, Ring, NoRing, Transition

\* Loads: what a handled or an added message, a start or a new ring makes of them.
LEMMA LoadsTail ==
  ASSUME NEW ib \in Seq(Msg), ib # <<>>, NEW p, NEW q, NEW w, NEW n, LoadsIn(ib, p, q, w, n)
  PROVE  LoadsIn(Tail(ib), p, q, w, n)
<1>1. /\ Len(Tail(ib)) = Len(ib) - 1 /\ Len(ib) \in Nat
      /\ \A i \in 1 .. Len(Tail(ib)) : Tail(ib)[i] = ib[i + 1] /\ i + 1 \in 1 .. Len(ib)
  OBVIOUS
<1> QED
  BY <1>1 DEF LoadsIn

LEMMA LoadsAppend ==
  ASSUME NEW ib \in Seq(Msg), NEW p, NEW q, NEW w, NEW n, LoadsIn(ib, p, q, w, n),
         NEW m \in Msg, m.type # "Load"
  PROVE  LoadsIn(Append(ib, m), p, q, w, n)
<1>1. /\ Len(Append(ib, m)) = Len(ib) + 1 /\ Len(ib) \in Nat
      /\ \A i \in 1 .. Len(ib) : Append(ib, m)[i] = ib[i]
      /\ Append(ib, m)[Len(ib) + 1] = m
  OBVIOUS
<1> QED
  BY <1>1 DEF LoadsIn

LEMMA LoadsDrop ==
  ASSUME NEW ib, NEW p, NEW q, NEW w, NEW n, LoadsIn(ib, p, q, w, n)
  PROVE  LoadsIn(ib, None, q, w, n) /\ LoadsIn(ib, p, None, w, n)
  BY DEF LoadsIn

\* A started session, or one that has a ring already, gets a ring.
LEMMA LoadsRing ==
  ASSUME NEW ib \in Seq(Msg), NEW p \in Prepared \cup {None}, NEW q \in Prepared \cup {None},
         NEW w \in Wants, NEW n, LoadsIn(ib, p, q, w, n), NEW t \in Token, NEW e \in Epoch
  PROVE  /\ w[t] # -1 => LoadsIn(ib, p, q, [w EXCEPT ![t] = e], n)
         /\ p # None /\ t = p.token => LoadsIn(ib, None, q, [w EXCEPT ![t] = e], n)
<1>1. ASSUME NEW i \in 1 .. Len(ib), ib[i].type = "Load" PROVE ib[i].token \in Token
  <2>1. ib[i] \in Msg
    OBVIOUS
  <2> QED
    BY <1>1, <2>1 DEF Msg, Control, Trouble
<1>2. -1 \notin Epoch
  BY Numbers
<1>3. \A u \in Token : [w EXCEPT ![t] = e][u] = IF u = t THEN e ELSE w[u]
  BY DEF Wants
<1>4. CASE w[t] # -1
  BY <1>1, <1>2, <1>3, <1>4 DEF LoadsIn, Prepared
<1>5. CASE p # None /\ t = p.token
  <2> DEFINE x == [w EXCEPT ![t] = e]
  <2>1. \A u \in Token : x[u] # -1 => u < n
    BY <1>3, <1>5 DEF LoadsIn
  <2>2. q # None => q.token < n /\ x[q.token] = -1
    BY <1>3, <1>5 DEF LoadsIn, Prepared
  <2>3. \A i \in 1 .. Len(ib) : ib[i].type = "Load" =>
          ib[i].token < n /\ x[ib[i].token] = -1 /\ (q # None => q.token # ib[i].token)
    BY <1>1, <1>3, <1>5 DEF LoadsIn
  <2>4. LoadsIn(ib, None, q, x, n)
    BY <2>1, <2>2, <2>3 DEF LoadsIn
  <2> QED
    BY <1>4, <2>4
<1> QED
  BY <1>4, <1>5

\* The budget: a message that may seek is paid for by the command that sent it.
LEMMA DueAppend ==
  ASSUME NEW ib \in Seq(Msg), NEW m \in Msg, NEW rb
  PROVE  Due(Append(ib, m), rb) = Due(ib, rb) + (IF m \in Seeking THEN 1 ELSE 0)
<1>1. Count(Append(ib, m), Seeking) = Count(ib, Seeking) + (IF m \in Seeking THEN 1 ELSE 0)
  BY CountAppend
<1>2. Count(ib, Seeking) \in Nat
  BY PlacesAreFinite
<1> QED
  BY <1>1, <1>2 DEF Due

LEMMA DueTail ==
  ASSUME NEW ib \in Seq(Msg), ib # <<>>, NEW rb
  PROVE  Due(Tail(ib), rb) = Due(ib, rb) - (IF Head(ib) \in Seeking THEN 1 ELSE 0)
<1>1. Count(Tail(ib), Seeking) = Count(ib, Seeking) - (IF Head(ib) \in Seeking THEN 1 ELSE 0)
  BY CountTail
<1>2. Count(ib, Seeking) \in Nat
  BY PlacesAreFinite
<1> QED
  BY <1>1, <1>2 DEF Due

LEMMA DueIsNat ==
  ASSUME NEW ib \in Seq(Msg), NEW rb
  PROVE  /\ Due(ib, rb) \in Nat
         /\ rb # "none" => Due(ib, "none") = Due(ib, rb) - 1
         /\ rb = "none" => \A r2 : r2 # "none" => Due(ib, r2) = Due(ib, rb) + 1
         /\ \A r2 : r2 # "none" /\ rb # "none" => Due(ib, r2) = Due(ib, rb)
<1>1. Count(ib, Seeking) \in Nat
  BY PlacesAreFinite
<1> QED
  BY <1>1 DEF Due

\* Rings: a command that carries none, or a ring nobody has seen, is sent.
LEMMA CargoHasRing == ASSUME NEW m \in Cargo PROVE m.ring \in Ring /\ m.ring # NoRing
  BY Numbers DEF Cargo

LEMMA RingsAppend ==
  ASSUME NEW s \in RtFields, NEW c \in Seq(Packet), NEW w \in Wants, RingsIn(s, c, w),
         NEW m \in Packet, m \notin Cargo
  PROVE  RingsIn(s, Append(c, m), w)
<1>1. /\ Len(Append(c, m)) = Len(c) + 1 /\ Len(c) \in Nat
      /\ \A i \in 1 .. Len(c) : Append(c, m)[i] = c[i]
      /\ Append(c, m)[Len(c) + 1] = m
  OBVIOUS
<1> QED
  BY <1>1 DEF RingsIn

LEMMA RingsGrow ==
  ASSUME NEW s \in RtFields, NEW c \in Seq(Packet), NEW w \in Wants, RingsIn(s, c, w),
         NEW t \in Token, NEW e \in Epoch, e > w[t]
  PROVE  RingsIn(s, c, [w EXCEPT ![t] = e])
<1>1. \A u \in Token : /\ [w EXCEPT ![t] = e][u] \in Int /\ w[u] \in Int
                       /\ [w EXCEPT ![t] = e][u] >= w[u]
  BY Numbers DEF Wants
<1>2. \A r \in Ring : r[1] \in Token /\ r[2] \in Int
  BY Numbers DEF Ring
<1>3. Held(s) \subseteq Ring
  BY DEF Held, RtFields
<1>4. \A i \in 1 .. Len(c) : c[i] \in Cargo => c[i].ring \in Ring
  BY CargoHasRing
<1> QED
  BY <1>1, <1>2, <1>3, <1>4 DEF RingsIn

LEMMA RingsSend ==
  ASSUME NEW s \in RtFields, NEW c \in Seq(Packet), NEW w \in Wants, RingsIn(s, c, w),
         NEW t \in Token, NEW e \in Epoch, e > w[t], NEW m \in Cargo, m.ring = <<t, e>>
  PROVE  RingsIn(s, Append(c, m), [w EXCEPT ![t] = e])
<1> DEFINE x == [w EXCEPT ![t] = e]
           d == Append(c, m)
<1>1. /\ Len(d) = Len(c) + 1 /\ Len(c) \in Nat
      /\ \A i \in 1 .. Len(c) : d[i] = c[i]
      /\ d[Len(c) + 1] = m
  BY DEF Packet
<1>2. RingsIn(s, c, x)
  BY RingsGrow
<1>3. \A r \in Ring : r[2] <= w[r[1]] => r # <<t, e>>
  BY Numbers DEF Ring, Wants
<1>4. Held(s) \subseteq Ring
  BY DEF Held, RtFields
<1>5. \A i \in 1 .. Len(c) : c[i] \in Cargo => c[i].ring \in Ring
  BY CargoHasRing
<1>6. \A r \in Held(s) : r # <<t, e>>
  BY <1>3, <1>4 DEF RingsIn
<1>7. \A i \in 1 .. Len(c) : c[i] \in Cargo => c[i].ring # <<t, e>>
  BY <1>3, <1>5 DEF RingsIn
<1>8. m.ring[2] <= x[m.ring[1]]
  BY Numbers DEF Wants
<1>9. ASSUME NEW i \in 1 .. Len(d), d[i] \in Cargo
      PROVE  d[i].ring \notin Held(s) /\ d[i].ring[2] <= x[d[i].ring[1]]
  <2>1. CASE i \in 1 .. Len(c)
    BY <1>1, <1>2, <1>9, <2>1 DEF RingsIn
  <2>2. CASE i = Len(c) + 1
    BY <1>1, <1>6, <1>8, <2>2
  <2> QED
    BY <1>1, <2>1, <2>2
<1>10. \A i, j \in 1 .. Len(d) : d[i] \in Cargo /\ d[j] \in Cargo /\ d[i].ring = d[j].ring => i = j
  BY <1>1, <1>2, <1>7 DEF RingsIn
<1> QED
  BY <1>2, <1>9, <1>10 DEF RingsIn

\* A fresh stream holds nothing; it may have been sent one ring.
LEMMA FreshRtHoldsNothing == Held(FreshRt) = {} /\ FreshRt \in RtFields
  BY DEF Held, FreshRt, RtFields

LEMMA RingsFresh ==
  ASSUME NEW w \in Wants
  PROVE  /\ RingsIn(FreshRt, <<>>, w)
         /\ \A t \in Token, e \in Epoch, n \in Nat :
               w[t] = e => RingsIn(FreshRt, SwapCmd(<<t, e>>, n), w)
<1>1. RingsIn(FreshRt, <<>>, w)
  BY FreshRtHoldsNothing DEF RingsIn, FreshRt
<1>2. ASSUME NEW t \in Token, NEW e \in Epoch, NEW n \in Nat, w[t] = e
      PROVE  RingsIn(FreshRt, SwapCmd(<<t, e>>, n), w)
  <2> DEFINE c == SwapCmd(<<t, e>>, n)
  <2>1. Len(c) = 1 /\ c[1].ring = <<t, e>>
    BY DEF SwapCmd
  <2>2. c[1].ring[2] <= w[c[1].ring[1]]
    BY <1>2, <2>1, Numbers
  <2>3. FreshRt.active = NoRing /\ FreshRt.fading = NoRing
    BY DEF FreshRt
  <2> HIDE DEF c
  <2>4. RingsIn(FreshRt, c, w)
    BY <2>1, <2>2, <2>3, FreshRtHoldsNothing DEF RingsIn
  <2> QED
    BY <2>4 DEF c
<1> QED
  BY <1>1, <1>2

\* How many rings the callback holds.
Bit(r) == IF r = NoRing THEN 0 ELSE 1
LEMMA HeldCount ==
  ASSUME NEW s \in RtFields, NEW c, NEW w, RingsIn(s, c, w)
  PROVE  Cardinality(Held(s)) = Bit(s.active) + Bit(s.fading) + Bit(s.next)
<1> DEFINE A == IF s.active = NoRing THEN {} ELSE {s.active}
           B == IF s.fading = NoRing THEN A ELSE A \cup {s.fading}
           D == IF s.next = NoRing THEN B ELSE B \cup {s.next}
<1>2. IsFiniteSet(A) /\ Cardinality(A) = Bit(s.active)
  BY FS_EmptySet, FS_Singleton DEF Bit
<1>3. IsFiniteSet(B) /\ Cardinality(B) = Bit(s.active) + Bit(s.fading)
  <2>1. s.fading # NoRing => s.fading \notin A
    BY DEF RingsIn
  <2>2. CASE s.fading = NoRing
    BY <2>2, <1>2 DEF Bit
  <2>3. CASE s.fading # NoRing
    BY <2>1, <2>3, <1>2, FS_AddElement DEF Bit
  <2> QED
    BY <2>2, <2>3
<1>4. Cardinality(D) = Bit(s.active) + Bit(s.fading) + Bit(s.next)
  <2>1. s.next # NoRing => s.next \notin B
    BY DEF RingsIn
  <2>2. CASE s.next = NoRing
    BY <2>2, <1>3 DEF Bit
  <2>3. CASE s.next # NoRing
    BY <2>1, <2>3, <1>3, FS_AddElement DEF Bit
  <2> QED
    BY <2>2, <2>3
<1>5. D = Held(s)
  BY DEF Held
<1> QED
  BY <1>4, <1>5

\* End of file: what holds of a worker stays true while its epoch only grows.
LEMMA EofsTail ==
  ASSUME NEW ib \in Seq(Msg), ib # <<>>, NEW wk, NEW w, NEW fl, EofsIn(wk, w, fl, ib)
  PROVE  EofsIn(wk, w, fl, Tail(ib))
<1>1. /\ Len(Tail(ib)) = Len(ib) - 1 /\ Len(ib) \in Nat
      /\ \A i \in 1 .. Len(Tail(ib)) : Tail(ib)[i] = ib[i + 1] /\ i + 1 \in 1 .. Len(ib)
  OBVIOUS
<1> QED
  BY <1>1 DEF EofsIn

LEMMA EofsAppend ==
  ASSUME NEW ib \in Seq(Msg), NEW m \in Msg, NEW wk, NEW w, NEW fl, EofsIn(wk, w, fl, ib),
         m.type = "Eof" => AtEof(m.token, m.epoch, wk, w)
  PROVE  EofsIn(wk, w, fl, Append(ib, m))
<1>1. /\ Len(Append(ib, m)) = Len(ib) + 1 /\ Len(ib) \in Nat
      /\ \A i \in 1 .. Len(ib) : Append(ib, m)[i] = ib[i]
      /\ Append(ib, m)[Len(ib) + 1] = m
  OBVIOUS
<1> QED
  BY <1>1 DEF EofsIn

LEMMA EofMessage == ASSUME NEW m \in Msg, m.type = "Eof" PROVE m.token \in Token /\ m.epoch \in Epoch
  BY DEF Msg, Control, Trouble

LEMMA EofsGrow ==
  ASSUME NEW ib \in Seq(Msg), NEW wk \in [Token -> WorkerFields], NEW w \in Wants, NEW fl,
         EofsIn(wk, w, fl, ib), NEW t \in Token, NEW e \in Epoch, e > w[t]
  PROVE  EofsIn(wk, [w EXCEPT ![t] = e], fl, ib)
<1> DEFINE x == [w EXCEPT ![t] = e]
<1>1. \A u \in Token : x[u] \in Int /\ w[u] \in Int /\ (u = t => x[u] > w[u]) /\ (u # t => x[u] = w[u])
  BY Numbers DEF Wants
<1> HIDE DEF x
<1>2. \A u \in Token, f \in Epoch : AtEof(u, f, wk, w) => AtEof(u, f, wk, x)
  BY <1>1, Numbers DEF AtEof
<1>3. \A u \in Token : wk[u].ring \in Int
  BY Numbers DEF WorkerFields
<1>4. \A i \in 1 .. Len(ib) : ib[i].type = "Eof" => ib[i].token \in Token /\ ib[i].epoch \in Epoch
  BY EofMessage
<1>5. EofsIn(wk, x, fl, ib)
  BY <1>1, <1>2, <1>3, <1>4 DEF EofsIn
<1> QED
  BY <1>5 DEF x

-----------------------------------------------------------------------------
(* The traffic with the callback.                                            *)

LEMMA AloftAppend ==
  ASSUME NEW s \in RtFields, NEW c \in Seq(Packet), NEW b \in Seq(Retirement), NEW m \in Packet
  PROVE  /\ Aloft(s, Append(c, m), b) = Aloft(s, c, b) + (IF m \in Cargo THEN 1 ELSE 0)
         /\ Aloft(s, c, b) \in Nat
<1>1. Count(Append(c, m), Cargo) = Count(c, Cargo) + (IF m \in Cargo THEN 1 ELSE 0)
  BY CountAppend
<1>2. Count(c, Cargo) \in Nat
  BY PlacesAreFinite
<1>3. Cardinality(Held(s)) \in Nat
  <2>1. IsFiniteSet({s.active, s.fading, s.next})
    <3>1. IsFiniteSet({s.active}) /\ {s.active, s.fading} = {s.active} \cup {s.fading}
      BY FS_Singleton
    <3>2. IsFiniteSet({s.active, s.fading})
      BY <3>1, FS_AddElement
    <3>3. {s.active, s.fading, s.next} = {s.active, s.fading} \cup {s.next}
      OBVIOUS
    <3>4. IsFiniteSet({s.active, s.fading} \cup {s.next})
      BY <3>2, FS_AddElement
    <3> QED
      BY <3>3, <3>4
  <2>2. IsFiniteSet(Held(s))
    BY <2>1, FS_RemoveElement DEF Held
  <2> QED
    BY <2>2, FS_CardinalityType
<1>4. Len(b) \in Nat
  OBVIOUS
<1> QED
  BY <1>1, <1>2, <1>3, <1>4 DEF Aloft

Unqueued == cmds \o UnqueueCmd

LEMMA UnqueuePosts ==
  ASSUME Typed, Rings
  PROVE  /\ Unqueued \in Seq(Packet)
         /\ RingsIn(rt, Unqueued, want)
         /\ Aloft(rt, Unqueued, retired) = Aloft(rt, cmds, retired)
         /\ \A m \in Packet : cmds \o (UnqueueCmd \o <<m>>) = Append(Unqueued, m)
<1>1. cmds \in Seq(Packet) /\ rt \in RtFields /\ retired \in Seq(Retirement) /\ want \in Wants
  BY DEF Typed, Wants
<1>2. CASE queued = None
  <2>1. UnqueueCmd = <<>> /\ Unqueued = cmds
    BY <1>1, <1>2, ConcatEmptySeq DEF UnqueueCmd, Unqueued
  <2>2. \A m \in Packet : <<>> \o <<m>> = <<m>> /\ cmds \o <<m>> = Append(cmds, m)
    BY <1>1, AppendIsConcat
  <2> QED
    BY <1>1, <2>1, <2>2 DEF Rings
<1>3. CASE queued # None
  <2> DEFINE u == [op |-> "Unqueue", id |-> queued.token]
  <2>1. u \in Packet /\ u \notin Cargo
    BY <1>3 DEF Typed, Session, Packet, Cargo
  <2>2. UnqueueCmd = <<u>>
    BY <1>3 DEF UnqueueCmd
  <2> HIDE DEF u
  <2>3. Unqueued = Append(cmds, u)
    BY <1>1, <2>1, <2>2, AppendIsConcat DEF Unqueued
  <2>4. Unqueued \in Seq(Packet)
    BY <1>1, <2>1, <2>3, AppendProperties
  <2>5. RingsIn(rt, Unqueued, want)
    BY <1>1, <2>1, <2>3, RingsAppend DEF Rings
  <2>6. Aloft(rt, Unqueued, retired) = Aloft(rt, cmds, retired)
    BY <1>1, <2>1, <2>3, AloftAppend
  <2>7. ASSUME NEW m \in Packet
        PROVE  cmds \o (UnqueueCmd \o <<m>>) = Append(Unqueued, m)
    <3>1. <<u>> \in Seq(Packet) /\ <<m>> \in Seq(Packet)
      BY <2>1
    <3>2. (cmds \o <<u>>) \o <<m>> = cmds \o (<<u>> \o <<m>>)
      BY <1>1, <3>1, ConcatAssociative
    <3>3. Unqueued \o <<m>> = Append(Unqueued, m)
      BY <2>4, AppendIsConcat
    <3> QED
      BY <2>2, <3>2, <3>3 DEF Unqueued
  <2> QED
    BY <2>4, <2>5, <2>6, <2>7
<1> QED
  BY <1>2, <1>3

RtTyped == /\ cmds \in Seq(Packet) /\ retired \in Seq(Retirement) /\ rt \in RtFields
           /\ outstanding \in Nat /\ open \in BOOLEAN /\ reading \in BOOLEAN

\* A command without a ring on the stream as it is.
LEMMA PlainSent ==
  ASSUME Typed, Rings, Balanced, want' = want, NEW sent,
         \/ sent = UnqueueCmd
         \/ \E m \in Packet \ Cargo : sent = UnqueueCmd \o <<m>>
         \/ sent = <<>>,
         SendRt(sent), UNCHANGED <<open, rtVars, retired, outstanding>>
  PROVE  RtTyped' /\ Rings' /\ Balanced'
<1>1. cmds \in Seq(Packet) /\ rt \in RtFields /\ retired \in Seq(Retirement) /\ want \in Wants
      /\ outstanding \in Nat /\ open \in BOOLEAN /\ reading \in BOOLEAN
  BY DEF Typed, Wants
<1>2. UNCHANGED <<open, rt, reading, retired, outstanding>>
  BY DEF rtVars
<1>3. CASE cmds' = cmds
  BY <1>1, <1>2, <1>3 DEF RtTyped, Rings, Balanced
<1>4. CASE cmds' = Unqueued
  BY <1>1, <1>2, <1>4, UnqueuePosts DEF RtTyped, Rings, Balanced
<1>5. ASSUME NEW m \in Packet \ Cargo, cmds' = cmds \o (UnqueueCmd \o <<m>>)
      PROVE  RtTyped' /\ Rings' /\ Balanced'
  <2>1. cmds' = Append(Unqueued, m) /\ Unqueued \in Seq(Packet) /\ RingsIn(rt, Unqueued, want)
        /\ Aloft(rt, Unqueued, retired) = Aloft(rt, cmds, retired)
    BY <1>5, UnqueuePosts
  <2>2. cmds' \in Seq(Packet)
    BY <2>1, AppendProperties
  <2>3. RingsIn(rt, cmds', want)
    BY <1>1, <2>1, RingsAppend
  <2>4. Aloft(rt, cmds', retired) = Aloft(rt, cmds, retired)
    BY <1>1, <2>1, AloftAppend
  <2> QED
    BY <1>1, <1>2, <2>2, <2>3, <2>4 DEF RtTyped, Rings, Balanced
<1>6. cmds \o <<>> = cmds
  BY <1>1, ConcatEmptySeq
<1> QED
  BY <1>3, <1>4, <1>5, <1>6 DEF SendRt, Unqueued

\* A ring nobody has seen, on the stream as it is.
LEMMA RingSent ==
  ASSUME Typed, Rings, Balanced, open, NEW t \in Token, NEW e \in Epoch, e > want[t],
         want' = [want EXCEPT ![t] = e], NEW m \in Cargo, m.ring = <<t, e>>,
         SameOutput(UnqueueCmd \o <<m>>, 1)
  PROVE  RtTyped' /\ Rings' /\ Balanced'
<1>1. cmds \in Seq(Packet) /\ rt \in RtFields /\ retired \in Seq(Retirement) /\ want \in Wants
      /\ outstanding \in Nat /\ open \in BOOLEAN /\ reading \in BOOLEAN
  BY DEF Typed, Wants
<1>2. UNCHANGED <<open, rt, reading, retired>> /\ outstanding' = outstanding + 1
  BY DEF rtVars, SameOutput
<1>3. m \in Packet
  BY DEF Packet
<1>4. cmds' = cmds \o (UnqueueCmd \o <<m>>)
  BY DEF SameOutput, SendRt
<1>5. cmds' = Append(Unqueued, m) /\ Unqueued \in Seq(Packet) /\ RingsIn(rt, Unqueued, want)
      /\ Aloft(rt, Unqueued, retired) = Aloft(rt, cmds, retired)
  BY <1>3, <1>4, UnqueuePosts
<1>6. cmds' \in Seq(Packet)
  BY <1>3, <1>5, AppendProperties
<1>7. RingsIn(rt, cmds', want')
  BY <1>1, <1>5, RingsSend
<1>8. Aloft(rt, cmds', retired) = Aloft(rt, cmds, retired) + 1
  BY <1>1, <1>3, <1>5, AloftAppend
<1>9. outstanding' \in Nat
  BY <1>1, <1>2
<1> QED
  BY <1>1, <1>2, <1>6, <1>7, <1>8, <1>9 DEF RtTyped, Rings, Balanced

\* A fresh stream, with one ring on its way or none.
LEMMA FreshSent ==
  ASSUME want' \in Wants, NEW sent,
         \/ sent = <<>>
         \/ \E t \in Token, e \in Epoch : want'[t] = e /\ sent = SwapCmd(<<t, e>>, 0),
         rt' = FreshRt, reading' = FALSE, cmds' = sent, retired' = <<>>,
         outstanding' = Len(sent), open' \in BOOLEAN
  PROVE  RtTyped' /\ Rings' /\ Balanced'
<1>1. sent \in Seq(Packet) /\ Len(sent) \in Nat
  <2>1. <<>> \in Seq(Packet) /\ Len(<<>>) = 0
    OBVIOUS
  <2>2. ASSUME NEW t \in Token, NEW e \in Epoch PROVE SwapCmd(<<t, e>>, 0) \in Seq(Packet)
    <3>1. [op |-> "Swap", ring |-> <<t, e>>, fade |-> 0] \in Packet
      BY DEF Packet, Cargo, Ring
    <3> QED
      BY <3>1 DEF SwapCmd
  <2>3. sent \in Seq(Packet)
    BY <2>1, <2>2
  <2> QED
    BY <2>3, LenProperties
<1>2. RingsIn(rt', cmds', want')
  BY RingsFresh
<1>3. Count(cmds', Cargo) = Len(cmds')
  <2>1. CASE sent = <<>>
    BY <2>1, CountEmpty
  <2>2. ASSUME NEW t \in Token, NEW e \in Epoch, sent = SwapCmd(<<t, e>>, 0)
        PROVE  Count(cmds', Cargo) = Len(cmds')
    <3> DEFINE m == [op |-> "Swap", ring |-> <<t, e>>, fade |-> 0]
    <3>1. m \in Packet /\ m \in Cargo
      BY DEF Packet, Cargo, Ring
    <3>2. cmds' = <<m>> /\ <<m>> = Append(<<>>, m) /\ Len(<<m>>) = 1
      BY <2>2 DEF SwapCmd
    <3> HIDE DEF m
    <3>3. PICK z \in Seq(Packet) : z = <<>>
      BY EmptySeq
    <3>4. Count(Append(<<>>, m), Cargo) = 1
      <4>1. Count(Append(z, m), Cargo) = Count(z, Cargo) + (IF m \in Cargo THEN 1 ELSE 0)
        BY <3>1, CountAppend
      <4>2. Count(z, Cargo) = 0
        BY <3>3, CountEmpty
      <4> QED
        BY <3>1, <3>3, <4>1, <4>2
    <3> QED
      BY <3>2, <3>4
  <2> QED
    BY <2>1, <2>2
<1>4. Cardinality(Held(rt')) = 0
  BY FreshRtHoldsNothing, FS_EmptySet
<1>5. Aloft(rt', cmds', retired') = outstanding'
  BY <1>1, <1>3, <1>4 DEF Aloft
<1>6. retired' \in Seq(Retirement) /\ rt' \in RtFields /\ reading' \in BOOLEAN
  BY FreshRtHoldsNothing, EmptySeq
<1> QED
  BY <1>1, <1>2, <1>5, <1>6 DEF RtTyped, Rings, Balanced

\* What a list of rings to drop sends back.
Ones(a, b, c) == {j \in 1 .. 3 : (j = 1 /\ a # NoRing) \/ (j = 2 /\ b # NoRing)
                                   \/ (j = 3 /\ c # NoRing)}
LEMMA OnesCount ==
  ASSUME NEW a, NEW b, NEW c
  PROVE  Cardinality(Ones(a, b, c)) = Bit(a) + Bit(b) + Bit(c)
<1> DEFINE A == IF a = NoRing THEN {} ELSE {1}
           B == IF b = NoRing THEN A ELSE A \cup {2}
           C == IF c = NoRing THEN B ELSE B \cup {3}
<1>1. IsFiniteSet(A) /\ Cardinality(A) = Bit(a) /\ A \subseteq {1}
  BY FS_EmptySet, FS_Singleton DEF Bit
<1>2. Bit(a) \in Nat /\ Bit(b) \in Nat
  BY DEF Bit
<1>3. Ones(a, b, c) = C
  BY DEF Ones
<1> HIDE DEF A
<1>4. IsFiniteSet(B) /\ Cardinality(B) = Bit(a) + Bit(b) /\ B \subseteq {1, 2}
  <2>1. CASE b = NoRing
    BY <1>1, <1>2, <2>1 DEF Bit
  <2>2. CASE b # NoRing
    BY <1>1, <1>2, <2>2, FS_AddElement DEF Bit
  <2> QED
    BY <2>1, <2>2
<1> HIDE DEF B
<1>5. Cardinality(C) = Bit(a) + Bit(b) + Bit(c)
  <2>1. CASE c = NoRing
    BY <1>2, <1>4, <2>1 DEF Bit
  <2>2. CASE c # NoRing
    BY <1>2, <1>4, <2>2, FS_AddElement DEF Bit
  <2> QED
    BY <2>1, <2>2
<1> QED
  BY <1>3, <1>5

LEMMA ShippedIs ==
  ASSUME NEW rings, NEW n \in Nat,
         n = Cardinality({j \in DOMAIN rings : rings[j] # NoRing})
  PROVE  Shipped(rings) \in Seq(Retirement) /\ Len(Shipped(rings)) = n
<1>1. Back("Ring", 0) \in Retirement
  BY DEF Back, Retirement
<1>2. Shipped(rings) = [i \in 1 .. n |-> Back("Ring", 0)]
  BY DEF Shipped
<1> HIDE DEF Back
<1> QED
  BY <1>1, <1>2

LEMMA BitIsNat == \A r : Bit(r) \in Nat
  BY DEF Bit

LEMMA ShippedThree ==
  ASSUME NEW a, NEW b, NEW c
  PROVE  /\ Shipped(<<a, b, c>>) \in Seq(Retirement)
         /\ Len(Shipped(<<a, b, c>>)) = Bit(a) + Bit(b) + Bit(c)
<1>1. {j \in DOMAIN <<a, b, c>> : <<a, b, c>>[j] # NoRing} = Ones(a, b, c)
  BY DEF Ones
<1>2. Cardinality({j \in DOMAIN <<a, b, c>> : <<a, b, c>>[j] # NoRing}) = Bit(a) + Bit(b) + Bit(c)
  BY <1>1, OnesCount
<1> QED
  BY <1>2, BitIsNat, ShippedIs

LEMMA ShippedTwo ==
  ASSUME NEW a, NEW b
  PROVE  /\ Shipped(<<a, b>>) \in Seq(Retirement)
         /\ Len(Shipped(<<a, b>>)) = Bit(a) + Bit(b)
<1>1. {j \in DOMAIN <<a, b>> : <<a, b>>[j] # NoRing} = Ones(a, b, NoRing)
  BY DEF Ones
<1>2. Cardinality(Ones(a, b, NoRing)) = Bit(a) + Bit(b)
  BY OnesCount, BitIsNat DEF Bit
<1>3. Cardinality({j \in DOMAIN <<a, b>> : <<a, b>>[j] # NoRing}) = Bit(a) + Bit(b)
  BY <1>1, <1>2
<1> QED
  BY <1>3, BitIsNat, ShippedIs

LEMMA ShippedOne ==
  ASSUME NEW a
  PROVE  Shipped(<<a>>) \in Seq(Retirement) /\ Len(Shipped(<<a>>)) = Bit(a)
<1>1. {j \in DOMAIN <<a>> : <<a>>[j] # NoRing} = Ones(a, NoRing, NoRing)
  BY DEF Ones
<1>2. Cardinality(Ones(a, NoRing, NoRing)) = Bit(a)
  BY OnesCount, BitIsNat DEF Bit
<1>3. Cardinality({j \in DOMAIN <<a>> : <<a>>[j] # NoRing}) = Bit(a)
  BY <1>1, <1>2
<1> QED
  BY <1>3, BitIsNat, ShippedIs

LEMMA ShippedNone == Shipped(<<>>) \in Seq(Retirement) /\ Len(Shipped(<<>>)) = 0
<1>1. {j \in DOMAIN <<>> : <<>>[j] # NoRing} = {}
  OBVIOUS
<1>2. Cardinality({j \in DOMAIN <<>> : <<>>[j] # NoRing}) = 0
  BY <1>1, FS_EmptySet
<1> QED
  BY <1>2, ShippedIs

Apart(s) == /\ s.active # NoRing => s.active # s.fading /\ s.active # s.next
            /\ s.fading # NoRing => s.fading # s.next
Bits(s) == Bit(s.active) + Bit(s.fading) + Bit(s.next)

\* The callback takes a command, or moves what it holds about.
LEMMA RingsPop ==
  ASSUME NEW s \in RtFields, NEW c \in Seq(Packet), c # <<>>, NEW w, RingsIn(s, c, w),
         NEW x \in RtFields, Apart(x),
         \A r \in Held(x) : r \in Held(s) \/ (Head(c) \in Cargo /\ r = Head(c).ring)
  PROVE  RingsIn(x, Tail(c), w)
<1>1. /\ Len(Tail(c)) = Len(c) - 1 /\ Len(c) \in Nat /\ Len(c) > 0 /\ Head(c) = c[1]
      /\ \A i \in 1 .. Len(Tail(c)) : Tail(c)[i] = c[i + 1] /\ i + 1 \in 1 .. Len(c)
  OBVIOUS
<1>2. 1 \in 1 .. Len(c)
  BY <1>1
<1>3. \A r \in Held(x) : r[2] <= w[r[1]]
  BY <1>1, <1>2 DEF RingsIn
<1>4. \A i \in 1 .. Len(Tail(c)) : Tail(c)[i] \in Cargo =>
          Tail(c)[i].ring \notin Held(x) /\ Tail(c)[i].ring[2] <= w[Tail(c)[i].ring[1]]
  BY <1>1, <1>2 DEF RingsIn
<1>5. \A i, j \in 1 .. Len(Tail(c)) : Tail(c)[i] \in Cargo /\ Tail(c)[j] \in Cargo
                                 /\ Tail(c)[i].ring = Tail(c)[j].ring => i = j
  BY <1>1 DEF RingsIn
<1> QED
  BY <1>3, <1>4, <1>5 DEF RingsIn, Apart

LEMMA RingsMove ==
  ASSUME NEW s, NEW c, NEW w, RingsIn(s, c, w), NEW x, Apart(x), Held(x) \subseteq Held(s)
  PROVE  RingsIn(x, c, w)
  BY DEF RingsIn, Apart

\* One command: nothing is lost, and nothing is held twice.
LEMMA ApplyKeepsCount ==
  ASSUME NEW s \in RtFields, NEW m \in Packet, Apart(s),
         m \in Cargo => m.ring \notin Held(s)
  PROVE  LET x == RtApply(s, m)
         IN  /\ x.rt \in RtFields /\ x.back \in Seq(Retirement) /\ Apart(x.rt)
             /\ Bits(x.rt) + Len(x.back) = Bits(s) + (IF m \in Cargo THEN 1 ELSE 0)
             /\ \A r \in Held(x.rt) : r \in Held(s) \/ (m \in Cargo /\ r = m.ring)
<1> DEFINE Good(x) ==
             /\ x.rt \in RtFields /\ x.back \in Seq(Retirement) /\ Apart(x.rt)
             /\ Bits(x.rt) + Len(x.back) = Bits(s) + (IF m \in Cargo THEN 1 ELSE 0)
             /\ \A r \in Held(x.rt) : r \in Held(s) \/ (m \in Cargo /\ r = m.ring)
<1>0. \A r : Bit(r) \in Nat
  BY BitIsNat
<1>1. CASE m.op = "Swap"
  <2>1. m \in Cargo /\ m.ring \in Ring /\ m.ring # NoRing /\ m.fade \in Nat
    BY <1>1, Numbers DEF Packet, Cargo
  <2>2. CASE MixesOut(s, m)
    <3> DEFINE x == [rt |-> [FreshRt EXCEPT !.active = m.ring, !.fading = s.active,
                                       !.fade = [gen |-> m.fade, progress |-> 0]],
                     back |-> Shipped(<<s.next, s.fading>>)]
    <3>1. RtApply(s, m) = x
      BY <1>1, <2>2 DEF RtApply
    <3>2. x.rt \in RtFields
      BY <2>1 DEF RtFields, FreshRt
    <3>3. /\ x.rt.active = m.ring /\ x.rt.fading = s.active /\ x.rt.next = NoRing
      BY DEF FreshRt
    <3>4. x.back \in Seq(Retirement) /\ Len(x.back) = Bit(s.next) + Bit(s.fading)
      BY ShippedOne, ShippedTwo, ShippedThree, ShippedNone
    <3> HIDE DEF x
    <3>5. Apart(x.rt) /\ \A r \in Held(x.rt) : r \in Held(s) \/ r = m.ring
      BY <2>1, <3>3 DEF Apart, Held
    <3>6. Bits(x.rt) = 1 + Bit(s.active)
      BY <2>1, <3>3, <1>0 DEF Bits, Bit
    <3>7. Bits(x.rt) + Len(x.back) = Bits(s) + 1
      BY <3>4, <3>6, <1>0 DEF Bits
    <3>8. Good(x)
      BY <2>1, <3>2, <3>4, <3>5, <3>7
    <3> QED
      BY <3>1, <3>8
  <2>3. CASE ~MixesOut(s, m)
    <3> DEFINE x == [rt |-> [FreshRt EXCEPT !.active = m.ring],
                     back |-> Shipped(<<s.next, s.fading, s.active>>)]
    <3>1. RtApply(s, m) = x
      BY <1>1, <2>3 DEF RtApply
    <3>2. x.rt \in RtFields
      BY <2>1 DEF RtFields, FreshRt
    <3>3. /\ x.rt.active = m.ring /\ x.rt.fading = NoRing /\ x.rt.next = NoRing
      BY DEF FreshRt
    <3>4. x.back \in Seq(Retirement) /\ Len(x.back) = Bit(s.next) + Bit(s.fading) + Bit(s.active)
      BY ShippedOne, ShippedTwo, ShippedThree, ShippedNone
    <3> HIDE DEF x
    <3>5. Apart(x.rt) /\ \A r \in Held(x.rt) : r \in Held(s) \/ r = m.ring
      BY <2>1, <3>3 DEF Apart, Held
    <3>6. Bits(x.rt) = 1
      BY <2>1, <3>3 DEF Bits, Bit
    <3>7. Bits(x.rt) + Len(x.back) = Bits(s) + 1
      BY <3>4, <3>6, <1>0 DEF Bits
    <3>8. Good(x)
      BY <2>1, <3>2, <3>4, <3>5, <3>7
    <3> QED
      BY <3>1, <3>8
  <2> QED
    BY <2>2, <2>3
<1>2. CASE m.op = "Queue"
  <2>1. m \in Cargo /\ m.ring \in Ring /\ m.ring # NoRing
    BY <1>2, Numbers DEF Packet, Cargo
  <2> DEFINE x == [rt |-> [s EXCEPT !.next = m.ring], back |-> Shipped(<<s.next>>)]
  <2>2. RtApply(s, m) = x
    BY <1>2 DEF RtApply
  <2>3. x.rt \in RtFields
    BY <2>1 DEF RtFields
  <2>4. x.rt.active = s.active /\ x.rt.fading = s.fading /\ x.rt.next = m.ring
    BY DEF RtFields
  <2>5. x.back \in Seq(Retirement) /\ Len(x.back) = Bit(s.next)
    BY ShippedOne, ShippedTwo, ShippedThree, ShippedNone
  <2> HIDE DEF x
  <2>6. Apart(x.rt) /\ \A r \in Held(x.rt) : r \in Held(s) \/ r = m.ring
    BY <2>1, <2>4 DEF Apart, Held
  <2>7. Bits(x.rt) = Bit(s.active) + Bit(s.fading) + 1
    BY <2>1, <2>4 DEF Bits, Bit
  <2>8. Bits(x.rt) + Len(x.back) = Bits(s) + 1
    BY <2>5, <2>7, <1>0 DEF Bits
  <2>9. Good(x)
    BY <2>1, <2>3, <2>5, <2>6, <2>8
  <2> QED
    BY <2>2, <2>9
<1>3. CASE m.op = "Unqueue"
  <2>1. m \notin Cargo
    BY <1>3 DEF Cargo
  <2>2. CASE IsNext(s, m.id)
    <3> DEFINE x == [rt |-> [s EXCEPT !.next = NoRing], back |-> Shipped(<<s.next>>)]
    <3>1. RtApply(s, m) = x
      BY <1>3, <2>2 DEF RtApply, TookOver
    <3>2. x.rt \in RtFields
      BY DEF RtFields
    <3>3. x.rt.active = s.active /\ x.rt.fading = s.fading /\ x.rt.next = NoRing
      BY DEF RtFields
    <3>4. x.back \in Seq(Retirement) /\ Len(x.back) = Bit(s.next)
      BY ShippedOne, ShippedTwo, ShippedThree, ShippedNone
    <3> HIDE DEF x
    <3>5. Apart(x.rt) /\ \A r \in Held(x.rt) : r \in Held(s)
      BY <3>3 DEF Apart, Held
    <3>6. Bits(x.rt) = Bit(s.active) + Bit(s.fading)
      BY <3>3, <1>0 DEF Bits, Bit
    <3>7. Bits(x.rt) + Len(x.back) = Bits(s)
      BY <3>4, <3>6, <1>0 DEF Bits
    <3>8. Good(x)
      BY <2>1, <3>2, <3>4, <3>5, <3>7, <1>0 DEF Bits
    <3> QED
      BY <3>1, <3>8
  <2>3. CASE TookOver(s, m.id)
    <3> DEFINE x == [rt |-> [s EXCEPT !.active = NoRing, !.promoted = 0],
                     back |-> Shipped(<<s.active>>)]
    <3>1. RtApply(s, m) = x
      BY <1>3, <2>3 DEF RtApply, TookOver
    <3>2. x.rt \in RtFields
      BY DEF RtFields
    <3>3. x.rt.active = NoRing /\ x.rt.fading = s.fading /\ x.rt.next = s.next
      BY DEF RtFields
    <3>4. x.back \in Seq(Retirement) /\ Len(x.back) = Bit(s.active)
      BY ShippedOne, ShippedTwo, ShippedThree, ShippedNone
    <3> HIDE DEF x
    <3>5. Apart(x.rt) /\ \A r \in Held(x.rt) : r \in Held(s)
      BY <3>3 DEF Apart, Held
    <3>6. Bits(x.rt) = Bit(s.fading) + Bit(s.next)
      BY <3>3, <1>0 DEF Bits, Bit
    <3>7. Bits(x.rt) + Len(x.back) = Bits(s)
      BY <3>4, <3>6, <1>0 DEF Bits
    <3>8. Good(x)
      BY <2>1, <3>2, <3>4, <3>5, <3>7, <1>0 DEF Bits
    <3> QED
      BY <3>1, <3>8
  <2>4. CASE ~IsNext(s, m.id) /\ ~TookOver(s, m.id)
    <3> DEFINE x == [rt |-> s, back |-> Shipped(<<>>)]
    <3>1. RtApply(s, m) = x
      BY <1>3, <2>4 DEF RtApply
    <3>2. x.back \in Seq(Retirement) /\ Len(x.back) = 0
      BY ShippedOne, ShippedTwo, ShippedThree, ShippedNone
    <3>3. Bits(x.rt) + Len(x.back) = Bits(s)
      BY <3>2, <1>0 DEF Bits
    <3>4. Good(x)
      BY <2>1, <3>2, <3>3, <1>0 DEF Bits
    <3> QED
      BY <3>1, <3>4
  <2> QED
    BY <2>2, <2>3, <2>4
<1>4. CASE m.op = "DropAll"
  <2>1. m \notin Cargo
    BY <1>4 DEF Cargo
  <2> DEFINE x == [rt |-> FreshRt, back |-> Shipped(<<s.next, s.fading, s.active>>)]
  <2>2. RtApply(s, m) = x
    BY <1>4 DEF RtApply
  <2>3. x.rt \in RtFields /\ Held(x.rt) = {} /\ Apart(x.rt) /\ Bits(x.rt) = 0
    BY FreshRtHoldsNothing DEF Apart, Bits, Bit, FreshRt
  <2>4. x.back \in Seq(Retirement) /\ Len(x.back) = Bit(s.next) + Bit(s.fading) + Bit(s.active)
    BY ShippedOne, ShippedTwo, ShippedThree, ShippedNone
  <2> HIDE DEF x
  <2>5. Bits(x.rt) + Len(x.back) = Bits(s)
    BY <2>3, <2>4, <1>0 DEF Bits
  <2>6. Good(x)
    BY <2>1, <2>3, <2>4, <2>5, <1>0 DEF Bits
  <2> QED
    BY <2>2, <2>6
<1> QED
  BY <1>1, <1>2, <1>3, <1>4 DEF Packet, Cargo

-----------------------------------------------------------------------------
(* The actions: the callback's, the client's, the workers', the actor's.     *)

\* The parts of the invariant that a step leaving these alone cannot disturb.
ActorStill == UNCHANGED <<current, fading, queued, open, want>>
LEMMA SessionsStill == ASSUME Sessions, ActorStill PROVE Sessions'
  BY DEF Sessions, ActorStill, Agrees
LEMMA BudgetStill == ASSUME Budgeted, UNCHANGED <<inbox, rebuild, want, commands>> PROVE Budgeted'
  BY DEF Budgeted
LEMMA LoadsStill ==
  ASSUME Loads, UNCHANGED <<inbox, pending, preparing, want, nextToken>> PROVE Loads'
  BY DEF Loads
LEMMA RingsStill ==
  ASSUME Rings, Balanced, UNCHANGED <<rt, cmds, retired, outstanding, want>>
  PROVE  Rings' /\ Balanced'
  BY DEF Rings, Balanced
LEMMA EofsStill == ASSUME Eofs, UNCHANGED <<worker, want, flag, inbox>> PROVE Eofs'
  BY DEF Eofs

LEMMA CallbackFrame ==
  ASSUME Inv, RtStep
  PROVE  /\ Budgeted' /\ Loads' /\ Sessions' /\ Eofs'
         /\ UNCHANGED <<want, open, outstanding, flag, worker, inbox>>
         /\ cmds' \in Seq(Packet) /\ retired' \in Seq(Retirement) /\ rt' \in RtFields
            /\ reading' \in BOOLEAN /\ buffered' \in [Ring -> 0 .. RingBlocks] => Typed'
<1>1. UNCHANGED <<pc, pending, current, fading, queued, paused, open, lastToken, fadeGen,
                  outstanding, rebuild, debounced, inbox, worker, want, closed, flag,
                  nextToken, preparing, commands>>
  BY DEF RtStep, actorVars, workerVars, clientVars
<1>2. Budgeted' /\ Loads' /\ Sessions' /\ Eofs'
  BY <1>1, BudgetStill, LoadsStill, SessionsStill, EofsStill DEF Inv, ActorStill
<1> QED
  BY <1>1, <1>2 DEF Inv, Typed

LEMMA RtDrainKeeps == ASSUME Inv, RtDrain PROVE Inv'
<1>1. /\ cmds \in Seq(Packet) /\ rt \in RtFields /\ retired \in Seq(Retirement)
      /\ buffered \in [Ring -> 0 .. RingBlocks] /\ reading \in BOOLEAN /\ outstanding \in Nat
      /\ RingsIn(rt, cmds, want) /\ outstanding = Aloft(rt, cmds, retired)
  BY DEF Inv, Typed, Rings, Balanced
<1>2. /\ RtStep /\ UNCHANGED buffered
  BY DEF RtDrain
<1>3. UNCHANGED <<want, outstanding>>
  BY <1>2, CallbackFrame
<1>4. CASE cmds = <<>>
  <2>1. reading' = TRUE /\ UNCHANGED <<rt, retired, cmds>>
    BY <1>4 DEF RtDrain
  <2>2. Typed' /\ Rings' /\ Balanced'
    BY <1>1, <1>2, <1>3, <2>1, CallbackFrame, RingsStill DEF Inv
  <2> QED
    BY <1>2, <2>2, CallbackFrame DEF Inv
<1>5. CASE cmds # <<>>
  <2> DEFINE m == Head(cmds)
             x == RtApply(rt, m)
  <2>1. /\ rt' = x.rt /\ retired' = retired \o x.back /\ cmds' = Tail(cmds)
        /\ reading' = reading
    BY <1>5 DEF RtDrain
  <2>2. m \in Packet /\ Tail(cmds) \in Seq(Packet)
    BY <1>1, <1>5
  <2>3. 1 \in 1 .. Len(cmds) /\ m = cmds[1]
    BY <1>1, <1>5
  <2>4. Apart(rt) /\ (m \in Cargo => m.ring \notin Held(rt))
    BY <1>1, <2>3 DEF RingsIn, Apart
  <2> HIDE DEF m, x
  <2>5. /\ x.rt \in RtFields /\ x.back \in Seq(Retirement) /\ Apart(x.rt)
        /\ Bits(x.rt) + Len(x.back) = Bits(rt) + (IF m \in Cargo THEN 1 ELSE 0)
        /\ \A r \in Held(x.rt) : r \in Held(rt) \/ (m \in Cargo /\ r = m.ring)
    BY <1>1, <2>2, <2>4, ApplyKeepsCount DEF x
  <2>6. RingsIn(x.rt, Tail(cmds), want)
    BY <1>1, <1>5, <2>5, RingsPop DEF m
  <2>7. /\ Cardinality(Held(rt)) = Bits(rt) /\ Cardinality(Held(x.rt)) = Bits(x.rt)
    BY <1>1, <2>5, <2>6, HeldCount DEF Bits
  <2>8. Len(retired \o x.back) = Len(retired) + Len(x.back) /\ retired \o x.back \in Seq(Retirement)
        /\ Len(retired) \in Nat /\ Len(x.back) \in Nat
    BY <1>1, <2>5, ConcatProperties, LenProperties
  <2>9. Count(Tail(cmds), Cargo) = Count(cmds, Cargo) - (IF m \in Cargo THEN 1 ELSE 0)
    BY <1>1, <1>5, CountTail DEF m
  <2>10. Count(cmds, Cargo) \in Nat /\ Bits(rt) \in Nat /\ Bits(x.rt) \in Nat
    BY <1>1, PlacesAreFinite, BitIsNat DEF Bits
  <2>11. Aloft(x.rt, Tail(cmds), retired \o x.back) = Aloft(rt, cmds, retired)
    BY SMTT(30), <2>5, <2>7, <2>8, <2>9, <2>10 DEF Aloft
  <2>12. Rings' /\ Balanced'
    BY <1>1, <1>3, <2>1, <2>6, <2>11 DEF Rings, Balanced
  <2>13. Typed'
    BY <1>1, <1>2, <2>1, <2>2, <2>5, <2>8, CallbackFrame
  <2> QED
    BY <1>2, <2>12, <2>13, CallbackFrame DEF Inv
<1> QED
  BY <1>4, <1>5

\* What a read does with the rings: it moves or retires some, and reads others.
LEMMA RtReadRings ==
  ASSUME Inv, RtFade \/ RtPlay
  PROVE  /\ rt' \in RtFields /\ retired' \in Seq(Retirement)
         /\ buffered' \in [Ring -> 0 .. RingBlocks]
         /\ Apart(rt') /\ Held(rt') \subseteq Held(rt)
         /\ Bits(rt') + Len(retired') = Bits(rt) + Len(retired)
<1>1. /\ rt \in RtFields /\ retired \in Seq(Retirement) /\ Len(retired) \in Nat
      /\ buffered \in [Ring -> 0 .. RingBlocks] /\ Apart(rt)
  BY DEF Inv, Typed, Rings, RingsIn, Apart
<1>2. \A r : Bit(r) \in Nat
  BY BitIsNat
<1>3. ASSUME rt' = rt, retired' = retired
      PROVE  /\ rt' \in RtFields /\ retired' \in Seq(Retirement)
             /\ Apart(rt') /\ Held(rt') \subseteq Held(rt)
             /\ Bits(rt') + Len(retired') = Bits(rt) + Len(retired)
  BY <1>1, <1>3
<1>4. CASE RtFade
  <2> DEFINE sides == Readable({rt.active, rt.fading})
             done == rt.fade.progress + 1 >= FadeBlocks
  <2>1. rt.fade # None /\ rt.fading # NoRing /\ rt.fade \in [gen : Nat, progress : Nat]
    BY <1>1, <1>4 DEF RtFade, RtFields
  <2>2. buffered' \in [Ring -> 0 .. RingBlocks]
    <3>1. buffered' = [r \in Ring |-> buffered[r] - (IF r \in sides THEN 1 ELSE 0)]
      BY <1>4 DEF RtFade
    <3>2. \A r \in sides : buffered[r] > 0
      BY DEF Readable
    <3> HIDE DEF sides
    <3> QED
      BY <1>1, <3>1, <3>2, Numbers
  <2>3. CASE sides = {}
    BY <1>3, <1>4, <2>2, <2>3 DEF RtFade
  <2>4. CASE sides # {} /\ done
    <3>1. /\ rt' = [rt EXCEPT !.fade = None, !.fading = NoRing]
          /\ retired' = Append(retired, Back("FadeComplete", rt.fade.gen))
      BY <1>4, <2>4 DEF RtFade
    <3>2. rt' \in RtFields /\ rt'.active = rt.active /\ rt'.fading = NoRing /\ rt'.next = rt.next
      BY <1>1, <3>1 DEF RtFields
    <3>3. Back("FadeComplete", rt.fade.gen) \in Retirement
      BY <2>1 DEF Back, Retirement
    <3>4. retired' \in Seq(Retirement) /\ Len(retired') = Len(retired) + 1
      BY <1>1, <3>1, <3>3, AppendProperties
    <3>5. Apart(rt') /\ Held(rt') \subseteq Held(rt)
      BY <1>1, <3>2 DEF Apart, Held
    <3>6. Bits(rt') + 1 = Bits(rt)
      BY <1>2, <2>1, <3>2 DEF Bits, Bit
    <3>7. Bits(rt') + Len(retired') = Bits(rt) + Len(retired)
      <4>1. Bits(rt') \in Nat /\ Bits(rt) \in Nat
        BY <1>2 DEF Bits
      <4> QED
        BY <1>1, <3>4, <3>6, <4>1
    <3> QED
      BY <2>2, <3>2, <3>4, <3>5, <3>7
  <2>5. CASE sides # {} /\ ~done
    <3>1. rt' = [rt EXCEPT !.fade.progress = @ + 1] /\ retired' = retired
      BY <1>4, <2>5 DEF RtFade
    <3>2. PICK n \in Nat : n = rt.fade.progress + 1
      BY <2>1
    <3>3. [rt.fade EXCEPT !.progress = n] \in [gen : Nat, progress : Nat]
      BY <2>1
    <3>4. rt' = [rt EXCEPT !.fade = [rt.fade EXCEPT !.progress = n]]
      BY <1>1, <3>1, <3>2 DEF RtFields
    <3>5. rt' \in RtFields /\ rt'.active = rt.active /\ rt'.fading = rt.fading /\ rt'.next = rt.next
      BY <1>1, <3>3, <3>4 DEF RtFields
    <3>6. Apart(rt') /\ Held(rt') = Held(rt) /\ Bits(rt') = Bits(rt)
      BY <1>1, <3>5 DEF Apart, Held, Bits
    <3> QED
      BY <1>1, <2>2, <3>1, <3>5, <3>6
  <2> QED
    BY <2>3, <2>4, <2>5
<1>5. CASE RtPlay
  <2>1. CASE rt.active # NoRing /\ buffered[rt.active] > 0
    <3>1. UNCHANGED <<rt, retired>> /\ buffered' = [buffered EXCEPT ![rt.active] = @ - 1]
      BY <1>5, <2>1 DEF RtPlay
    <3>2. rt.active \in Ring
      BY <1>1, <2>1 DEF RtFields
    <3>3. buffered' \in [Ring -> 0 .. RingBlocks]
      BY <1>1, <2>1, <3>1, <3>2, Numbers
    <3> QED
      BY <1>3, <3>1, <3>3
  <2>2. CASE ~(rt.active # NoRing /\ buffered[rt.active] > 0) /\
             ~(rt.active # NoRing /\ Drained(rt.active) /\ rt.next # NoRing)
    BY <1>1, <1>3, <1>5, <2>2 DEF RtPlay
  <2>3. CASE ~(rt.active # NoRing /\ buffered[rt.active] > 0) /\
             rt.active # NoRing /\ Drained(rt.active) /\ rt.next # NoRing
    <3>1. /\ rt' = [rt EXCEPT !.active = rt.next, !.next = NoRing, !.promoted = rt.next[1]]
          /\ retired' = Append(retired, Back("Advanced", rt.next[1])) /\ UNCHANGED buffered
      BY <1>5, <2>3 DEF RtPlay
    <3>2. rt.next \in Ring /\ rt.next[1] \in Token /\ rt.next[1] \in Nat
      BY <1>1, <2>3, Numbers DEF RtFields, Ring
    <3>3. rt' \in RtFields /\ rt'.active = rt.next /\ rt'.fading = rt.fading /\ rt'.next = NoRing
      BY <1>1, <3>1, <3>2 DEF RtFields
    <3>4. Back("Advanced", rt.next[1]) \in Retirement
      BY <3>2 DEF Back, Retirement
    <3>5. retired' \in Seq(Retirement) /\ Len(retired') = Len(retired) + 1
      BY <1>1, <3>1, <3>4, AppendProperties
    <3>6. Apart(rt') /\ Held(rt') \subseteq Held(rt)
      BY <1>1, <2>3, <3>3 DEF Apart, Held
    <3>7. Bits(rt') + 1 = Bits(rt)
      BY <1>2, <2>3, <3>3 DEF Bits, Bit
    <3>8. Bits(rt') + Len(retired') = Bits(rt) + Len(retired)
      <4>1. Bits(rt') \in Nat /\ Bits(rt) \in Nat
        BY <1>2 DEF Bits
      <4> QED
        BY <1>1, <3>5, <3>7, <4>1
    <3> QED
      BY <1>1, <3>1, <3>3, <3>5, <3>6, <3>8
  <2> QED
    BY <2>1, <2>2, <2>3
<1> QED
  BY <1>4, <1>5

LEMMA RtReadKeeps == ASSUME Inv, RtRead PROVE Inv'
<1>1. /\ cmds \in Seq(Packet) /\ rt \in RtFields /\ retired \in Seq(Retirement)
      /\ buffered \in [Ring -> 0 .. RingBlocks] /\ outstanding \in Nat
      /\ RingsIn(rt, cmds, want) /\ outstanding = Aloft(rt, cmds, retired)
  BY DEF Inv, Typed, Rings, Balanced
<1>2. RtStep /\ cmds' = cmds /\ reading' = FALSE
  BY DEF RtRead
<1>3. UNCHANGED <<want, outstanding>>
  BY <1>2, CallbackFrame
<1>4. CASE paused
  <2>1. UNCHANGED <<rt, retired, buffered>>
    BY <1>4 DEF RtRead
  <2>2. Typed' /\ Rings' /\ Balanced'
    BY <1>1, <1>2, <1>3, <2>1, CallbackFrame, RingsStill DEF Inv
  <2> QED
    BY <1>2, <2>2, CallbackFrame DEF Inv
<1>5. CASE ~paused
  <2>1. /\ rt' \in RtFields /\ retired' \in Seq(Retirement)
        /\ buffered' \in [Ring -> 0 .. RingBlocks]
        /\ Apart(rt') /\ Held(rt') \subseteq Held(rt)
        /\ Bits(rt') + Len(retired') = Bits(rt) + Len(retired)
    BY <1>5, RtReadRings DEF RtRead
  <2>2. RingsIn(rt', cmds, want)
    BY <1>1, <2>1, RingsMove
  <2>3. Cardinality(Held(rt)) = Bits(rt) /\ Cardinality(Held(rt')) = Bits(rt')
    BY <1>1, <2>1, <2>2, HeldCount DEF Bits
  <2>4. Count(cmds, Cargo) \in Nat /\ Bits(rt) \in Nat /\ Bits(rt') \in Nat
        /\ Len(retired) \in Nat /\ Len(retired') \in Nat
    BY <1>1, <2>1, PlacesAreFinite, BitIsNat, LenProperties DEF Bits
  <2>5. Aloft(rt', cmds, retired') = Aloft(rt, cmds, retired)
    BY <2>1, <2>3, <2>4 DEF Aloft
  <2>6. Rings' /\ Balanced'
    BY <1>1, <1>2, <1>3, <2>2, <2>5 DEF Rings, Balanced
  <2>7. Typed'
    BY <1>1, <1>2, <2>1, CallbackFrame
  <2> QED
    BY <1>2, <2>6, <2>7, CallbackFrame DEF Inv
<1> QED
  BY <1>4, <1>5

LEMMA MessageTypes ==
  /\ \A t \in Token : [type |-> "Ready", token |-> t] \in Msg /\ [type |-> "Failed", token |-> t] \in Msg
  /\ \A t \in Token, e \in Epoch : [type |-> "Eof", token |-> t, epoch |-> e] \in Msg
  /\ \A t \in Token, k \in Transition : [type |-> "Load", token |-> t, transition |-> k] \in Msg
  /\ [type |-> "CancelPending"] \in Msg
  /\ Control \subseteq Msg /\ Trouble \subseteq Msg
  /\ \A m \in Control \cup Trouble : m.type # "Load" /\ m.type # "Eof"
  BY DEF Msg, Control, Trouble

\* A message joins the inbox, paid for by a command.
LEMMA AskKeeps ==
  ASSUME Inv, NEW m \in Msg, Ask(m), m.type # "Eof"
  PROVE  /\ Budgeted' /\ Sessions' /\ Rings' /\ Balanced' /\ Eofs'
         /\ inbox' = Append(inbox, m) /\ inbox' \in Seq(Msg)
         /\ UNCHANGED <<want, pending>>
         /\ (preparing' \in Prepared \cup {None} /\ nextToken' \in Nat /\ nextToken' > 0) => Typed'
<1>1. /\ inbox \in Seq(Msg) /\ commands \in Epoch /\ want \in Wants
      /\ worker \in [Token -> WorkerFields]
  BY DEF Inv, Typed, Wants
<1>2. /\ inbox' = Append(inbox, m) /\ commands' = commands + 1 /\ commands < MaxCommands
      /\ UNCHANGED <<pc, pending, current, fading, queued, paused, open, lastToken, fadeGen,
                     outstanding, rebuild, debounced, cmds, retired, rt, reading, worker,
                     want, closed, buffered, flag>>
  BY DEF Ask, actorVars, rtVars, workerVars, ringVars
<1>3. inbox' \in Seq(Msg)
  BY <1>1, <1>2, AppendProperties
<1>4. commands' \in Epoch
  BY <1>1, <1>2, Numbers
<1>5. Budgeted'
  <2>1. Due(inbox', rebuild) = Due(inbox, rebuild) + (IF m \in Seeking THEN 1 ELSE 0)
    BY <1>1, <1>2, DueAppend
  <2>2. Due(inbox, rebuild) \in Nat
    BY <1>1, DueIsNat
  <2>3. \A t \in Token : want[t] \in Int
    BY <1>1, Numbers DEF Wants
  <2>4. commands \in Nat
    BY <1>1, Numbers
  <2> QED
    BY <1>2, <2>1, <2>2, <2>3, <2>4 DEF Inv, Budgeted, BudgetIn
<1>6. Sessions' /\ Rings' /\ Balanced'
  BY <1>2, SessionsStill, RingsStill DEF Inv, ActorStill
<1>7. Eofs'
  BY <1>1, <1>2, EofsAppend DEF Inv, Eofs
<1>8. (preparing' \in Prepared \cup {None} /\ nextToken' \in Nat /\ nextToken' > 0) => Typed'
  BY <1>2, <1>3, <1>4 DEF Inv, Typed
<1> QED
  BY <1>2, <1>3, <1>5, <1>6, <1>7, <1>8

LEMMA LoadMessage == ASSUME NEW m \in Msg, m.type = "Load" PROVE m.token \in Token
  BY DEF Msg, Control, Trouble

LEMMA StartLoadKeeps == ASSUME Inv, NEW k \in Kinds, StartLoad(k) PROVE Inv'
<1> DEFINE m == [type |-> "CancelPending"]
<1>1. /\ inbox \in Seq(Msg) /\ nextToken \in Nat /\ nextToken > 0 /\ nextToken <= MaxToken
      /\ pending \in Prepared \cup {None} /\ LoadsIn(inbox, pending, preparing, want, nextToken)
  BY DEF StartLoad, Inv, Typed, Loads
<1>2. /\ Ask(m) /\ nextToken' = nextToken + 1
      /\ preparing' = [token |-> nextToken, transition |-> k]
  BY DEF StartLoad
<1>3. m \in Msg /\ m.type # "Eof" /\ m.type # "Load"
  BY MessageTypes
<1> HIDE DEF m
<1>4. nextToken \in Token /\ k \in Transition
  BY <1>1, Numbers
<1>5. preparing' \in Prepared /\ preparing'.token = nextToken
  BY <1>2, <1>4 DEF Prepared
<1>6. /\ Budgeted' /\ Sessions' /\ Rings' /\ Balanced' /\ Eofs' /\ Typed'
      /\ inbox' = Append(inbox, m) /\ UNCHANGED <<want, pending>>
  BY <1>1, <1>2, <1>3, <1>5, AskKeeps
<1>7. LoadsIn(inbox', pending, preparing, want, nextToken)
  BY <1>1, <1>3, <1>6, LoadsAppend
<1>8. \A i \in 1 .. Len(inbox') : inbox'[i].type = "Load" => inbox'[i].token \in Nat
  BY <1>6, LoadMessage, Numbers DEF Typed
<1>9. want[nextToken] = -1
  BY <1>4, <1>7, <1>1 DEF LoadsIn
<1>10. pending # None => pending.token \in Nat
  BY <1>1, Numbers DEF Prepared
<1>11. \A t \in Token : t \in Nat
  BY Numbers
<1>12. Loads'
  <2>1. \A t \in Token : want[t] # -1 => t < nextToken + 1
    BY <1>1, <1>7, <1>11 DEF LoadsIn
  <2>2. pending # None => pending.token < nextToken + 1 /\ want[pending.token] = -1
                          /\ pending.token # nextToken
    BY <1>1, <1>7, <1>10 DEF LoadsIn
  <2>3. \A i \in 1 .. Len(inbox') : inbox'[i].type = "Load" =>
          /\ inbox'[i].token < nextToken + 1 /\ want[inbox'[i].token] = -1
          /\ pending # None => pending.token # inbox'[i].token
          /\ nextToken # inbox'[i].token
    BY <1>1, <1>7, <1>8 DEF LoadsIn
  <2>4. nextToken < nextToken + 1
    BY <1>1
  <2>5. LoadsIn(inbox', pending, preparing', want, nextToken + 1)
    BY <1>5, <1>7, <1>9, <2>1, <2>2, <2>3, <2>4 DEF LoadsIn
  <2> QED
    BY <1>2, <1>6, <2>5 DEF Loads
<1> QED
  BY <1>6, <1>12 DEF Inv

LEMMA SendLoadKeeps == ASSUME Inv, SendLoad PROVE Inv'
<1> DEFINE m == [type |-> "Load", token |-> preparing.token, transition |-> preparing.transition]
<1>1. /\ inbox \in Seq(Msg) /\ nextToken \in Nat /\ nextToken > 0 /\ preparing \in Prepared
      /\ pending \in Prepared \cup {None} /\ LoadsIn(inbox, pending, preparing, want, nextToken)
      /\ preparing # None
  BY DEF SendLoad, Inv, Typed, Loads
<1>2. Ask(m) /\ preparing' = None /\ nextToken' = nextToken
  BY DEF SendLoad
<1>3. m \in Msg /\ m.type = "Load" /\ m.token = preparing.token
  BY <1>1, MessageTypes DEF Prepared
<1> HIDE DEF m
<1>4. /\ Budgeted' /\ Sessions' /\ Rings' /\ Balanced' /\ Eofs' /\ Typed'
      /\ inbox' = Append(inbox, m) /\ UNCHANGED <<want, pending>>
  BY <1>1, <1>2, <1>3, AskKeeps
<1>5. /\ Len(inbox') = Len(inbox) + 1 /\ Len(inbox) \in Nat
      /\ \A i \in 1 .. Len(inbox) : inbox'[i] = inbox[i]
      /\ inbox'[Len(inbox) + 1] = m
  BY <1>1, <1>3, <1>4, AppendProperties, LenProperties
<1>6. \A i \in 1 .. Len(inbox') : i \in 1 .. Len(inbox) \/ i = Len(inbox) + 1
  BY <1>5
<1>7. LoadsIn(inbox', pending, None, want, nextToken)
  <2>1. \A i \in 1 .. Len(inbox') : inbox'[i].type = "Load" =>
          /\ inbox'[i].token < nextToken /\ want[inbox'[i].token] = -1
          /\ pending # None => pending.token # inbox'[i].token
    BY <1>1, <1>3, <1>5, <1>6 DEF LoadsIn
  <2>2. ASSUME NEW i \in 1 .. Len(inbox'), NEW j \in 1 .. Len(inbox'),
               inbox'[i].type = "Load", inbox'[j].type = "Load",
               inbox'[i].token = inbox'[j].token
        PROVE  i = j
    BY <1>1, <1>3, <1>5, <1>6, <2>2 DEF LoadsIn
  <2> QED
    BY <1>1, <2>1, <2>2 DEF LoadsIn
<1> QED
  BY <1>2, <1>4, <1>7 DEF Inv, Loads

LEMMA SendOtherKeeps == ASSUME Inv, SendOther PROVE Inv'
<1>1. PICK m \in Control \cup Trouble :
         /\ Ask(m) /\ nextToken' = nextToken
         /\ preparing' = IF m.type = "CancelPending" THEN None ELSE preparing
  BY DEF SendOther
<1>2. m \in Msg /\ m.type # "Eof" /\ m.type # "Load"
  BY MessageTypes
<1>3. /\ inbox \in Seq(Msg) /\ nextToken \in Nat /\ nextToken > 0
      /\ preparing \in Prepared \cup {None}
      /\ LoadsIn(inbox, pending, preparing, want, nextToken)
  BY DEF Inv, Typed, Loads
<1>4. preparing' \in Prepared \cup {None}
  BY <1>1, <1>3
<1>5. /\ Budgeted' /\ Sessions' /\ Rings' /\ Balanced' /\ Eofs' /\ Typed'
      /\ inbox' = Append(inbox, m) /\ UNCHANGED <<want, pending>>
  BY <1>1, <1>2, <1>3, <1>4, AskKeeps
<1>6. LoadsIn(inbox', pending, preparing, want, nextToken)
  BY <1>2, <1>3, <1>5, LoadsAppend
<1>7. LoadsIn(inbox', pending, preparing', want, nextToken)
  BY <1>1, <1>6, LoadsDrop
<1> QED
  BY <1>1, <1>5, <1>7 DEF Inv, Loads

-----------------------------------------------------------------------------
(* Workers.                                                                  *)

\* A worker that says nothing, or says something other than a load or a seek.
LEMMA WorkerKeeps ==
  ASSUME Inv, NEW t \in Token, NEW x \in WorkerFields, WorkerStep(t, x),
         buffered' \in [Ring -> 0 .. RingBlocks],
         EofsIn(worker', want, flag, inbox),
         \/ inbox' = inbox
         \/ \E m \in Msg : /\ Tell(m) /\ m.type \in {"Ready", "Failed", "Eof"}
                           /\ m.type = "Eof" => AtEof(m.token, m.epoch, worker', want)
  PROVE  Inv'
<1>1. /\ inbox \in Seq(Msg) /\ worker \in [Token -> WorkerFields]
      /\ LoadsIn(inbox, pending, preparing, want, nextToken)
      /\ BudgetIn(inbox, rebuild, want, commands)
  BY DEF Inv, Typed, Loads, Budgeted
<1>2. /\ worker' = [worker EXCEPT ![t] = x]
      /\ UNCHANGED <<pc, pending, current, fading, queued, paused, open, lastToken, fadeGen,
                     outstanding, rebuild, debounced, cmds, retired, rt, reading,
                     want, closed, flag, nextToken, preparing, commands>>
  BY DEF WorkerStep, actorVars, rtVars, clientVars
<1>3. worker' \in [Token -> WorkerFields]
  BY <1>1, <1>2
<1>4. Sessions' /\ Rings' /\ Balanced'
  BY <1>2, SessionsStill, RingsStill DEF Inv, ActorStill
<1>5. CASE inbox' = inbox
  BY <1>1, <1>2, <1>3, <1>4, <1>5 DEF Inv, Typed, Budgeted, Loads, Eofs
<1>6. ASSUME NEW m \in Msg, Tell(m), m.type \in {"Ready", "Failed", "Eof"},
             m.type = "Eof" => AtEof(m.token, m.epoch, worker', want)
      PROVE  Inv'
  <2>1. inbox' = Append(inbox, m) /\ m.type # "Load"
    BY <1>6 DEF Tell
  <2>2. inbox' \in Seq(Msg)
    BY <1>1, <2>1, AppendProperties
  <2>3. m \notin Seeking
    BY <1>6 DEF Seeking, Trouble
  <2>4. Due(inbox', rebuild) = Due(inbox, rebuild)
    BY <1>1, <2>1, <2>3, DueAppend, DueIsNat
  <2>5. Budgeted'
    BY <1>1, <1>2, <2>4 DEF Budgeted, BudgetIn
  <2>6. Loads'
    BY <1>1, <1>2, <2>1, LoadsAppend DEF Loads
  <2>7. Eofs'
    BY <1>1, <1>2, <1>6, <2>1, EofsAppend DEF Eofs
  <2> QED
    BY <1>2, <1>3, <1>4, <2>2, <2>5, <2>6, <2>7 DEF Inv, Typed
<1> QED
  BY <1>5, <1>6

LEMMA WorkersKeep ==
  ASSUME Inv, NEW t \in Token,
         ProbeOk(t) \/ WorkerFails(t) \/ TakeCommand(t) \/ Decode(t) \/ ReachEof(t)
  PROVE  Inv'
<1>1. /\ worker \in [Token -> WorkerFields] /\ want \in Wants
      /\ buffered \in [Ring -> 0 .. RingBlocks] /\ EofsIn(worker, want, flag, inbox)
      /\ inbox \in Seq(Msg)
  BY DEF Inv, Typed, Wants, Eofs
<1>2. /\ worker[t] \in WorkerFields /\ worker[t].ring \in Epoch /\ worker[t].left \in 0 .. TrackBlocks
      /\ want[t] \in Epoch \cup {-1} /\ want[t] \in Int /\ worker[t].ring \in Int
  BY <1>1, Numbers DEF WorkerFields, Wants
\* A step of one worker leaves what is known of its rings' ends true.
<1>3. ASSUME NEW x \in WorkerFields, worker' = [worker EXCEPT ![t] = x],
             x.state \in {"decoding", "parked"} => x.ring <= want[t],
             \A e \in Epoch : AtEof(t, e, worker, want) =>
                e < want[t] \/ (e = want[t] /\ x.ring = e /\ x.state \in {"parked", "gone"})
      PROVE  EofsIn(worker', want, flag, inbox)
  <2>1. \A u \in Token : worker'[u] = IF u = t THEN x ELSE worker[u]
    BY <1>1, <1>3
  <2>2. \A u \in Token, e \in Epoch : AtEof(u, e, worker, want) => AtEof(u, e, worker', want)
    BY <1>3, <2>1 DEF AtEof
  <2>3. \A i \in 1 .. Len(inbox) : inbox[i].type = "Eof" =>
            inbox[i].token \in Token /\ inbox[i].epoch \in Epoch
    BY <1>1, EofMessage
  <2> QED
    BY <1>1, <1>3, <2>1, <2>2, <2>3 DEF EofsIn
<1>4. CASE ProbeOk(t)
  <2> DEFINE x == [worker[t] EXCEPT !.state = "waiting"]
             m == [type |-> "Ready", token |-> t]
  <2>1. WorkerStep(t, x) /\ Tell(m) /\ buffered' = buffered /\ worker[t].state = "probing"
    BY <1>4 DEF ProbeOk
  <2>2. x \in WorkerFields /\ x.state = "waiting" /\ x.ring = worker[t].ring
    BY <1>2 DEF WorkerFields
  <2>3. m \in Msg /\ m.type = "Ready"
    BY MessageTypes
  <2> HIDE DEF x, m
  <2>4. worker' = [worker EXCEPT ![t] = x]
    BY <2>1 DEF WorkerStep
  <2>5. \A e \in Epoch : AtEof(t, e, worker, want) => e < want[t]
    BY <2>1 DEF AtEof
  <2>6. EofsIn(worker', want, flag, inbox)
    BY <1>3, <2>2, <2>4, <2>5
  <2> QED
    BY <1>1, <2>1, <2>2, <2>3, <2>6, WorkerKeeps
<1>5. CASE WorkerFails(t)
  <2> DEFINE x == [worker[t] EXCEPT !.state = "gone"]
             m == [type |-> "Failed", token |-> t]
  <2>1. WorkerStep(t, x) /\ Tell(m) /\ buffered' = buffered
    BY <1>5 DEF WorkerFails
  <2>2. x \in WorkerFields /\ x.state = "gone" /\ x.ring = worker[t].ring
    BY <1>2 DEF WorkerFields
  <2>3. m \in Msg /\ m.type = "Failed"
    BY MessageTypes
  <2> HIDE DEF x, m
  <2>4. worker' = [worker EXCEPT ![t] = x]
    BY <2>1 DEF WorkerStep
  <2>5. EofsIn(worker', want, flag, inbox)
    BY <1>3, <2>2, <2>4 DEF AtEof
  <2> QED
    BY <1>1, <2>1, <2>2, <2>3, <2>5, WorkerKeeps
<1>6. CASE TakeCommand(t)
  <2>1. PICK left \in 0 .. TrackBlocks :
           WorkerStep(t, [state |-> "decoding", ring |-> want[t], left |-> left])
    BY <1>6 DEF TakeCommand
  <2>2. \/ worker[t].state = "waiting" /\ want[t] >= 0
        \/ worker[t].state \in {"decoding", "parked"} /\ want[t] # worker[t].ring
    BY <1>6 DEF TakeCommand
  <2> DEFINE x == [state |-> "decoding", ring |-> want[t], left |-> left]
  <2>3. want[t] >= 0
    BY <1>1, <1>2, <2>2, Numbers DEF EofsIn
  <2>4. want[t] \in Epoch
    BY <1>2, <2>3
  <2>5. x \in WorkerFields /\ x.state = "decoding" /\ x.ring = want[t]
    BY <2>4 DEF WorkerFields
  <2> HIDE DEF x
  <2>6. worker' = [worker EXCEPT ![t] = x] /\ WorkerStep(t, x)
    BY <2>1 DEF WorkerStep, x
  <2>7. \A e \in Epoch : AtEof(t, e, worker, want) => e < want[t]
    BY <2>2 DEF AtEof
  <2>10. x.ring <= want[t]
    BY <1>2, <2>5
  <2>8. EofsIn(worker', want, flag, inbox)
    BY <1>3, <2>5, <2>6, <2>7, <2>10
  <2>9. inbox' = inbox /\ buffered' = buffered
    BY <1>6 DEF TakeCommand
  <2> QED
    BY <1>1, <2>5, <2>6, <2>8, <2>9, WorkerKeeps
<1>7. CASE Decode(t)
  <2>1. PICK n \in 0 .. TrackBlocks : n = worker[t].left - 1
    BY <1>2, <1>7, Numbers DEF Decode
  <2> DEFINE x == [worker[t] EXCEPT !.left = n]
             r == <<t, worker[t].ring>>
  <2>2. WorkerStep(t, x)
    BY <1>2, <1>7, <2>1 DEF Decode, WorkerFields
  <2>3. /\ inbox' = inbox /\ buffered' = [buffered EXCEPT ![r] = @ + 1]
        /\ buffered[r] < RingBlocks /\ worker[t].state = "decoding"
    BY <1>7 DEF Decode
  <2>4. r \in Ring
    BY <1>2 DEF Ring
  <2>5. x \in WorkerFields /\ x.state = "decoding" /\ x.ring = worker[t].ring
    BY <1>2, <2>1, <2>3 DEF WorkerFields
  <2> HIDE DEF x, r
  <2>6. buffered' \in [Ring -> 0 .. RingBlocks]
    BY <1>1, <2>3, <2>4, Numbers
  <2>7. worker' = [worker EXCEPT ![t] = x]
    BY <2>2 DEF WorkerStep
  <2>8. \A e \in Epoch : AtEof(t, e, worker, want) => e < want[t]
    BY <2>3 DEF AtEof
  <2>9. x.ring <= want[t]
    BY <1>1, <2>3, <2>5 DEF EofsIn
  <2>10. EofsIn(worker', want, flag, inbox)
    BY <1>3, <2>5, <2>7, <2>8, <2>9
  <2> QED
    BY <2>2, <2>3, <2>5, <2>6, <2>10, WorkerKeeps
<1>8. CASE ReachEof(t)
  <2> DEFINE x == [worker[t] EXCEPT !.state = "parked"]
             m == [type |-> "Eof", token |-> t, epoch |-> worker[t].ring]
  <2>1. WorkerStep(t, x) /\ Tell(m) /\ buffered' = buffered /\ worker[t].state = "decoding"
    BY <1>8 DEF ReachEof
  <2>2. x \in WorkerFields /\ x.state = "parked" /\ x.ring = worker[t].ring
    BY <1>2 DEF WorkerFields
  <2>3. m \in Msg /\ m.type = "Eof" /\ m.token = t /\ m.epoch = worker[t].ring
    BY <1>2, MessageTypes
  <2> HIDE DEF x, m
  <2>4. worker' = [worker EXCEPT ![t] = x] /\ worker'[t] = x
    BY <1>1, <2>1 DEF WorkerStep
  <2>5. worker[t].ring <= want[t]
    BY <1>1, <2>1 DEF EofsIn
  <2>6. \A e \in Epoch : AtEof(t, e, worker, want) => e < want[t]
    BY <2>1 DEF AtEof
  <2>7. EofsIn(worker', want, flag, inbox)
    BY <1>3, <2>2, <2>4, <2>5, <2>6
  <2>8. AtEof(m.token, m.epoch, worker', want)
    BY <1>2, <2>2, <2>3, <2>4, <2>5 DEF AtEof
  <2> QED
    BY <1>1, <2>1, <2>2, <2>3, <2>7, <2>8, WorkerKeeps
<1> QED
  BY <1>4, <1>5, <1>6, <1>7, <1>8

-----------------------------------------------------------------------------
(* The actor.                                                                *)

\* The inbox after the actor's step: its first message taken, or left alone.
Drawn == (inbox # <<>> /\ inbox' = Tail(inbox)) \/ inbox' = inbox

LEMMA DrawnFacts ==
  ASSUME Inv, Drawn
  PROVE  /\ inbox \in Seq(Msg) /\ inbox' \in Seq(Msg)
         /\ LoadsIn(inbox', pending, preparing, want, nextToken)
         /\ EofsIn(worker, want, flag, inbox')
         /\ \A rb : Due(inbox', rb) <= Due(inbox, rb) /\ Due(inbox', rb) \in Nat
                    /\ Due(inbox, rb) \in Nat
<1>1. /\ inbox \in Seq(Msg) /\ LoadsIn(inbox, pending, preparing, want, nextToken)
      /\ EofsIn(worker, want, flag, inbox)
  BY DEF Inv, Typed, Loads, Eofs
<1>2. CASE inbox' = inbox
  BY <1>1, <1>2, DueIsNat
<1>3. CASE inbox # <<>> /\ inbox' = Tail(inbox)
  <2>1. inbox' \in Seq(Msg)
    BY <1>1, <1>3, HeadTailProperties
  <2>2. LoadsIn(inbox', pending, preparing, want, nextToken)
    BY <1>1, <1>3, LoadsTail
  <2>3. EofsIn(worker, want, flag, inbox')
    BY <1>1, <1>3, EofsTail
  <2>4. ASSUME NEW rb
        PROVE  Due(inbox', rb) <= Due(inbox, rb) /\ Due(inbox', rb) \in Nat /\ Due(inbox, rb) \in Nat
    <3>1. Due(inbox', rb) = Due(inbox, rb) - (IF Head(inbox) \in Seeking THEN 1 ELSE 0)
      BY <1>1, <1>3, DueTail
    <3>2. Due(inbox', rb) \in Nat /\ Due(inbox, rb) \in Nat
      BY <1>1, <2>1, DueIsNat
    <3> QED
      BY <3>1, <3>2
  <2> QED
    BY <1>1, <2>1, <2>2, <2>3, <2>4
<1> QED
  BY <1>2, <1>3 DEF Drawn

\* What a handler that gives no session a ring cannot disturb.
LEMMA NoRingTaken ==
  ASSUME Inv, Drawn, pending' = pending \/ pending' = None,
         UNCHANGED <<worker, want, flag, rebuild, preparing, nextToken, commands>>
  PROVE  Budgeted' /\ Loads' /\ Eofs'
<1>1. /\ LoadsIn(inbox', pending, preparing, want, nextToken)
      /\ EofsIn(worker, want, flag, inbox')
      /\ Due(inbox', rebuild) <= Due(inbox, rebuild) /\ Due(inbox', rebuild) \in Nat
      /\ Due(inbox, rebuild) \in Nat
  BY DrawnFacts
<1>2. \A t \in Token : want[t] \in Int
  BY Numbers DEF Inv, Typed
<1>3. commands \in Nat
  BY Numbers DEF Inv, Typed
<1>4. Budgeted'
  BY <1>1, <1>2, <1>3 DEF Inv, Budgeted, BudgetIn
<1>5. Loads'
  BY <1>1, LoadsDrop DEF Loads
<1>6. Eofs'
  BY <1>1 DEF Eofs
<1> QED
  BY <1>4, <1>5, <1>6

\* A session's next ring, paid for by a message or a deferred rebuild; or the
\* first ring of the pending session.
LEMMA RingTaken ==
  ASSUME Inv, Drawn, NEW t \in Token, NEW e \in Epoch, e > want[t],
         want' = [want EXCEPT ![t] = e],
         UNCHANGED <<worker, flag, preparing, nextToken, commands>>,
         \/ /\ pending' = pending /\ want[t] # -1 /\ e = want[t] + 1
            /\ Due(inbox', rebuild') + 1 <= Due(inbox, rebuild)
         \/ /\ pending # None /\ t = pending.token /\ pending' = None /\ e = 0
            /\ rebuild' = rebuild
  PROVE  Budgeted' /\ Loads' /\ Eofs' /\ want' \in Wants
<1>1. /\ inbox' \in Seq(Msg) /\ want \in Wants /\ worker \in [Token -> WorkerFields]
      /\ pending \in Prepared \cup {None} /\ preparing \in Prepared \cup {None}
      /\ LoadsIn(inbox', pending, preparing, want, nextToken)
      /\ EofsIn(worker, want, flag, inbox')
      /\ BudgetIn(inbox, rebuild, want, commands)
  BY DrawnFacts DEF Inv, Typed, Wants, Budgeted
<1>2. want' \in Wants
  BY <1>1 DEF Wants
<1>3. /\ Due(inbox', rebuild) <= Due(inbox, rebuild)
      /\ Due(inbox', rebuild) \in Nat /\ Due(inbox', rebuild') \in Nat /\ Due(inbox, rebuild) \in Nat
  BY DrawnFacts
<1>4. commands \in Nat /\ \A u \in Token : want[u] \in Int /\ want'[u] = IF u = t THEN e ELSE want[u]
  BY <1>1, Numbers DEF Inv, Typed, Wants
<1>5. Budgeted'
  <2>1. Due(inbox', rebuild') <= Due(inbox, rebuild)
    BY <1>3
  <2>2. ASSUME NEW u \in Token PROVE want'[u] + Due(inbox', rebuild') <= commands
    <3>1. CASE u # t
      BY <1>1, <1>3, <1>4, <2>1, <3>1 DEF BudgetIn
    <3>2. CASE u = t /\ e = want[t] + 1 /\ Due(inbox', rebuild') + 1 <= Due(inbox, rebuild)
      BY <1>1, <1>3, <1>4, <3>2 DEF BudgetIn
    <3>3. CASE u = t /\ e = 0
      BY <1>1, <1>3, <1>4, <2>1, <3>3 DEF BudgetIn
    <3> QED
      BY <3>1, <3>2, <3>3
  <2> QED
    BY <1>1, <1>3, <1>4, <2>1, <2>2 DEF Budgeted, BudgetIn
<1>6. LoadsIn(inbox', pending', preparing, want', nextToken)
  <2>1. /\ want[t] # -1 => LoadsIn(inbox', pending, preparing, want', nextToken)
        /\ pending # None /\ t = pending.token => LoadsIn(inbox', None, preparing, want', nextToken)
    BY <1>1, LoadsRing
  <2> QED
    BY <2>1
<1>7. EofsIn(worker, want', flag, inbox')
  BY <1>1, EofsGrow
<1> QED
  BY <1>2, <1>5, <1>6, <1>7 DEF Loads, Eofs

LEMMA ClosedTyped ==
  ASSUME Typed, NEW S, \A s \in S : s \in {pending, current, fading, queued}
  PROVE  closed \cup TokensOf(S) \in SUBSET Token
<1>1. \A s \in S \ {None} : s.token \in Token
  BY DEF Typed, Prepared, Session
<1> QED
  BY <1>1 DEF Typed, TokensOf

\* The message in hand.
LEMMA Message ==
  ASSUME Typed, inbox # <<>>
  PROVE  /\ msg \in Msg
         /\ msg.type \in {"Load", "Ready", "Failed", "Eof"} => msg.token \in Token
         /\ msg.type = "Load" => msg.transition \in Transition
         /\ msg.type = "Eof" => msg.epoch \in Epoch
         /\ msg.type = "Seek" => msg \in Seeking
         /\ msg.type = "DeviceError" => msg \in Seeking /\ msg.lost \in BOOLEAN
         /\ msg.type = "DefaultDeviceChanged" => msg \in Seeking
<1>1. msg \in Msg
  BY HeadTailProperties DEF Typed, msg
<1> QED
  BY <1>1 DEF Msg, Control, Trouble, Seeking

LEMMA SessionFields ==
  /\ \A s \in Session : s.token \in Token /\ s.epoch \in Epoch /\ s.ended \in BOOLEAN
  /\ \A t \in Token : /\ NewSession(t) \in Session /\ NewSession(t).token = t
                      /\ NewSession(t).epoch = 0 /\ RingOf(NewSession(t)) = <<t, 0>>
  /\ \A s \in Session : s.epoch + 1 \in Epoch =>
        /\ Reringed(s) \in Session /\ Reringed(s).token = s.token
        /\ Reringed(s).epoch = s.epoch + 1 /\ RingOf(Reringed(s)) = <<s.token, s.epoch + 1>>
<1>1. \A s \in Session : s.token \in Token /\ s.epoch \in Epoch /\ s.ended \in BOOLEAN
  BY DEF Session
<1>2. 0 \in Epoch
  BY Numbers
<1>3. ASSUME NEW t \in Token
      PROVE  /\ NewSession(t) \in Session /\ NewSession(t).token = t
             /\ NewSession(t).epoch = 0 /\ RingOf(NewSession(t)) = <<t, 0>>
  BY <1>2 DEF NewSession, Session, RingOf
<1>4. ASSUME NEW s \in Session, s.epoch + 1 \in Epoch
      PROVE  /\ Reringed(s) \in Session /\ Reringed(s).token = s.token
             /\ Reringed(s).epoch = s.epoch + 1 /\ RingOf(Reringed(s)) = <<s.token, s.epoch + 1>>
  <2>1. PICK n \in Epoch : n = s.epoch + 1
    BY <1>4
  <2>2. Reringed(s) = [s EXCEPT !.epoch = n, !.ended = FALSE]
    BY <2>1 DEF Reringed
  <2>3. Reringed(s) \in Session /\ Reringed(s).token = s.token /\ Reringed(s).epoch = n
    BY <2>1, <2>2 DEF Session
  <2> QED
    BY <2>1, <2>3 DEF RingOf
<1> QED
  BY <1>1, <1>3, <1>4

LEMMA SwapIs ==
  ASSUME NEW r \in Ring, NEW n \in Nat
  PROVE  \E m \in Cargo : m.ring = r /\ SwapCmd(r, n) = <<m>>
<1> DEFINE m == [op |-> "Swap", ring |-> r, fade |-> n]
<1>1. m \in Cargo /\ m.ring = r
  BY DEF Cargo
<1>2. SwapCmd(r, n) = <<m>>
  BY DEF SwapCmd
<1> QED
  BY <1>1, <1>2

LEMMA TookDraws ==
  ASSUME NEW type, Took(type)
  PROVE  Drawn /\ inbox # <<>> /\ msg.type = type /\ pc' = "tick"
  BY DEF Took, Drawn, msg

LEMMA HandlerFrameIs ==
  ASSUME HandlerFrame PROVE UNCHANGED <<worker, buffered, nextToken, preparing, commands>>
  BY DEF HandlerFrame, clientVars

LEMMA Traffic ==
  ASSUME Inv PROVE RtTyped /\ Rings /\ Balanced /\ Typed /\ want \in Wants
  BY DEF Inv, RtTyped, Typed, Wants

LEMMA HandleLoadKeeps == ASSUME Inv, HandleLoad PROVE Inv'
<1>1. Drawn /\ inbox # <<>> /\ msg.type = "Load" /\ pc' = "tick"
  BY TookDraws DEF HandleLoad
<1>2. msg \in Msg /\ msg.token \in Token /\ msg.transition \in Transition
  BY <1>1, Message DEF Inv
<1>3. /\ UNCHANGED <<current, fading, queued, paused, open, lastToken, fadeGen, outstanding,
                     rebuild, debounced, cmds, retired, rt, reading, want, buffered, flag,
                     nextToken, preparing, commands>>
  BY DEF HandleLoad, rtVars, ringVars, clientVars
<1>4. Sessions' /\ Rings' /\ Balanced'
  BY <1>3, SessionsStill, RingsStill DEF Inv, ActorStill
<1>5. /\ inbox \in Seq(Msg) /\ inbox' \in Seq(Msg)
      /\ LoadsIn(inbox', pending, preparing, want, nextToken)
      /\ EofsIn(worker, want, flag, inbox')
      /\ Due(inbox', rebuild) <= Due(inbox, rebuild) /\ Due(inbox', rebuild) \in Nat
      /\ Due(inbox, rebuild) \in Nat
  BY <1>1, DrawnFacts
<1>6. Budgeted'
  <2>1. \A t \in Token : want[t] \in Int
    BY Numbers DEF Inv, Typed
  <2>2. commands \in Nat
    BY Numbers DEF Inv, Typed
  <2> QED
    BY <1>3, <1>5, <2>1, <2>2 DEF Inv, Budgeted, BudgetIn
<1>7. /\ 1 \in 1 .. Len(inbox) /\ msg = inbox[1] /\ inbox' = Tail(inbox)
      /\ Len(inbox') = Len(inbox) - 1 /\ Len(inbox) \in Nat
      /\ \A i \in 1 .. Len(inbox') : inbox'[i] = inbox[i + 1] /\ i + 1 \in 1 .. Len(inbox)
  <2>1. inbox' = Tail(inbox)
    BY DEF HandleLoad, Took
  <2> QED
    BY <1>1, <1>5, <2>1 DEF msg
<1>8. LoadsIn(inbox, pending, preparing, want, nextToken)
  BY DEF Inv, Loads
<1>9. want[msg.token] = -1
  BY <1>1, <1>7, <1>8 DEF LoadsIn
<1>10. closed' \in SUBSET Token
  <2>1. closed' = closed \cup TokensOf({pending})
    BY DEF HandleLoad, Close
  <2> QED
    BY <2>1, ClosedTyped DEF Inv
<1>11. CASE pending' = None /\ worker' = worker
  <2>1. Loads' /\ Eofs'
    BY <1>3, <1>5, <1>11, LoadsDrop DEF Loads, Eofs
  <2>2. Typed'
    BY <1>1, <1>3, <1>5, <1>10, <1>11 DEF Inv, Typed
  <2> QED
    BY <1>4, <1>6, <2>1, <2>2 DEF Inv
<1>12. CASE /\ pending' = [token |-> msg.token, transition |-> msg.transition]
            /\ worker' = [worker EXCEPT ![msg.token].state = "probing"]
  <2> DEFINE t == msg.token
  <2>1. pending' \in Prepared /\ pending'.token = t
    BY <1>2, <1>12 DEF Prepared
  <2>2. worker \in [Token -> WorkerFields]
    BY DEF Inv, Typed
  <2> DEFINE x == [worker[t] EXCEPT !.state = "probing"]
  <2>3. x \in WorkerFields /\ x.state = "probing" /\ worker' = [worker EXCEPT ![t] = x]
    BY <1>2, <1>12, <2>2 DEF WorkerFields
  <2>4. worker' \in [Token -> WorkerFields] /\ \A u \in Token : worker'[u] = IF u = t THEN x ELSE worker[u]
    BY <2>2, <2>3
  <2>5. Typed'
    BY <1>1, <1>3, <1>5, <1>10, <2>1, <2>4 DEF Inv, Typed
  <2>6. Loads'
    <3>1. t < nextToken
      BY <1>1, <1>7, <1>8 DEF LoadsIn
    <3>2. preparing # None => t # preparing.token
      BY <1>1, <1>7, <1>8 DEF LoadsIn
    <3>3. \A i \in 1 .. Len(inbox') : inbox'[i].type = "Load" => t # inbox'[i].token
      BY <1>1, <1>7, <1>8 DEF LoadsIn
    <3>4. LoadsIn(inbox', pending', preparing, want, nextToken)
      BY <1>5, <1>9, <2>1, <3>1, <3>2, <3>3 DEF LoadsIn
    <3> QED
      BY <1>3, <3>4 DEF Loads
  <2>7. Eofs'
    <3>1. \A e \in Epoch : ~AtEof(t, e, worker, want)
      BY <1>9, Numbers DEF AtEof
    <3>2. \A u \in Token, e \in Epoch : AtEof(u, e, worker, want) => AtEof(u, e, worker', want)
      BY <2>4, <3>1 DEF AtEof
    <3>3. \A i \in 1 .. Len(inbox') : inbox'[i].type = "Eof" =>
              inbox'[i].token \in Token /\ inbox'[i].epoch \in Epoch
      BY <1>5, EofMessage
    <3>4. EofsIn(worker', want, flag, inbox')
      BY <1>5, <2>3, <2>4, <3>2, <3>3 DEF EofsIn
    <3> QED
      BY <1>3, <3>4 DEF Eofs
  <2> QED
    BY <1>4, <1>6, <2>5, <2>6, <2>7 DEF Inv
<1> QED
  BY <1>11, <1>12 DEF HandleLoad

LEMMA HandleCancelPendingKeeps == ASSUME Inv, HandleCancelPending PROVE Inv'
<1>1. Drawn /\ inbox # <<>> /\ pc' = "tick"
  BY TookDraws DEF HandleCancelPending
<1>2. /\ pending' = None /\ queued' = None /\ SendRt(UnqueueCmd)
      /\ closed' = closed \cup TokensOf({pending, queued})
      /\ UNCHANGED <<current, fading, paused, open, lastToken, fadeGen, outstanding, rebuild,
                     debounced, retired, rt, reading, rtVars, want, flag, worker, buffered,
                     nextToken, preparing, commands>>
  BY HandlerFrameIs DEF HandleCancelPending, Close, rtVars
<1>3. Budgeted' /\ Loads' /\ Eofs' /\ inbox' \in Seq(Msg)
  BY <1>1, <1>2, NoRingTaken, DrawnFacts
<1>4. RtTyped' /\ Rings' /\ Balanced'
  BY <1>2, Traffic, PlainSent
<1>5. Sessions'
  BY <1>2 DEF Inv, Sessions, Agrees
<1>6. closed' \in SUBSET Token
  BY <1>2, ClosedTyped DEF Inv
<1>7. Typed'
  BY <1>1, <1>2, <1>3, <1>4, <1>6 DEF Inv, Typed, RtTyped
<1> QED
  BY <1>3, <1>4, <1>5, <1>7 DEF Inv

LEMMA HandlePauseResumeKeeps == ASSUME Inv, HandlePauseResume PROVE Inv'
<1>1. Drawn /\ inbox # <<>> /\ pc' = "tick"
  BY TookDraws DEF HandlePauseResume
<1>2. /\ paused' \in BOOLEAN
      /\ UNCHANGED <<pending, current, fading, queued, open, lastToken, fadeGen, outstanding,
                     rebuild, debounced, cmds, retired, rt, reading, want, closed, flag,
                     worker, buffered, nextToken, preparing, commands>>
  BY HandlerFrameIs DEF HandlePauseResume, rtVars
<1>3. Budgeted' /\ Loads' /\ Eofs' /\ inbox' \in Seq(Msg)
  BY <1>1, <1>2, NoRingTaken, DrawnFacts
<1>4. Sessions' /\ Rings' /\ Balanced'
  BY <1>2, SessionsStill, RingsStill DEF Inv, ActorStill
<1>5. Typed'
  BY <1>1, <1>2, <1>3 DEF Inv, Typed
<1> QED
  BY <1>3, <1>4, <1>5 DEF Inv

LEMMA HandleStopKeeps == ASSUME Inv, HandleStop PROVE Inv'
<1> DEFINE m == [op |-> "DropAll"]
<1>1. Drawn /\ inbox # <<>> /\ pc' = "tick"
  BY TookDraws DEF HandleStop
<1>2. /\ pending' = None /\ current' = None /\ fading' = None /\ queued' = None
      /\ paused' = FALSE /\ closed' = closed \cup TokensOf({pending, current, fading, queued})
      /\ SameOutput(UnqueueCmd \o <<m>>, 0)
      /\ UNCHANGED <<lastToken, fadeGen, rebuild, debounced, want, flag, worker, buffered,
                     nextToken, preparing, commands>>
  BY HandlerFrameIs DEF HandleStop, Close
<1>3. Budgeted' /\ Loads' /\ Eofs' /\ inbox' \in Seq(Msg)
  BY <1>1, <1>2, NoRingTaken, DrawnFacts
<1>4. m \in Packet \ Cargo
  BY DEF Packet, Cargo
<1> HIDE DEF m
<1>5. SendRt(UnqueueCmd \o <<m>>) /\ UNCHANGED <<open, rtVars, retired, outstanding>>
  BY <1>2 DEF SameOutput, Inv, Typed
<1>6. RtTyped' /\ Rings' /\ Balanced'
  BY <1>2, <1>4, <1>5, Traffic, PlainSent
<1>7. Sessions'
  BY <1>2 DEF Sessions, Agrees
<1>8. closed' \in SUBSET Token
  BY <1>2, ClosedTyped DEF Inv
<1>9. Typed'
  BY <1>1, <1>2, <1>3, <1>6, <1>8 DEF Inv, Typed, RtTyped
<1> QED
  BY <1>3, <1>6, <1>7, <1>9 DEF Inv

\* The next ring of a session, and that it fits the bound on epochs.
LEMMA NextRing ==
  ASSUME Inv, Drawn, NEW s \in Session, want[s.token] = s.epoch, NEW rb,
         Due(inbox', rb) + 1 <= Due(inbox, rebuild)
  PROVE  /\ s.epoch + 1 \in Epoch /\ s.epoch + 1 > want[s.token] /\ want[s.token] # -1
         /\ s.token \in Token /\ s.epoch \in Nat
<1>1. s.token \in Token /\ s.epoch \in Nat
  BY SessionFields, Numbers
<1>2. Due(inbox', rb) \in Nat /\ Due(inbox, rebuild) \in Nat
  BY DrawnFacts
<1>3. want[s.token] + Due(inbox, rebuild) <= commands
  BY <1>1 DEF Inv, Budgeted, BudgetIn
<1>4. commands \in Nat /\ commands <= MaxCommands
  BY Numbers DEF Inv, Typed
<1>5. s.epoch + 1 \in Nat /\ s.epoch + 1 <= MaxCommands
  <2>1. Due(inbox, rebuild) >= 1
    BY <1>2
  <2>2. s.epoch + Due(inbox, rebuild) <= commands
    BY <1>3
  <2> QED
    BY <1>1, <1>2, <1>4, <2>1, <2>2, Numbers
<1> QED
  BY <1>1, <1>5, Numbers

LEMMA HandleSeekKeeps == ASSUME Inv, HandleSeek PROVE Inv'
<1>1. Drawn /\ inbox # <<>> /\ msg.type = "Seek" /\ pc' = "tick" /\ inbox' = Tail(inbox)
  BY TookDraws DEF HandleSeek, Took
<1>2. UNCHANGED <<fadeGen, rebuild, debounced, flag, worker, buffered, nextToken, preparing, commands>>
  BY HandlerFrameIs DEF HandleSeek
<1>3. inbox' \in Seq(Msg) /\ inbox \in Seq(Msg)
  BY <1>1, DrawnFacts
<1>4. CASE ~SeekAllowed(msg.token)
  <2>1. UNCHANGED <<pending, current, fading, queued, paused, open, lastToken,
                    outstanding, cmds, retired, rt, reading, want, closed>>
    BY <1>4 DEF HandleSeek, rtVars
  <2>2. Budgeted' /\ Loads' /\ Eofs'
    BY <1>1, <1>2, <2>1, NoRingTaken
  <2>3. Sessions' /\ Rings' /\ Balanced'
    BY <2>1, SessionsStill, RingsStill DEF Inv, ActorStill
  <2>4. Typed'
    BY <1>1, <1>2, <1>3, <2>1 DEF Inv, Typed
  <2> QED
    BY <2>2, <2>3, <2>4 DEF Inv
<1>5. CASE SeekAllowed(msg.token)
  <2> DEFINE s == Reringed(Visible)
  <2>1. /\ closed' = closed \cup TokensOf({queued} \cup (IF fading # None THEN {current} ELSE {}))
        /\ queued' = None /\ fading' = None /\ current' = s
        /\ lastToken' = IF fading # None THEN s.token ELSE lastToken
        /\ want' = [want EXCEPT ![s.token] = s.epoch]
        /\ paused' = IF Visible.ended THEN FALSE ELSE paused
        /\ SameOutput(UnqueueCmd \o SwapCmd(RingOf(s), 0), 1)
        /\ UNCHANGED pending
    BY <1>5 DEF HandleSeek, Close
  <2>2. Visible \in Session /\ want[Visible.token] = Visible.epoch /\ open /\ Visible # None
    BY <1>5 DEF SeekAllowed, Visible, Inv, Typed, Sessions, Agrees
  <2>3. Due(inbox', rebuild) + 1 <= Due(inbox, rebuild)
    <3>1. Due(inbox', rebuild) = Due(inbox, rebuild) - 1
      BY <1>1, <1>3, Message, DueTail DEF Inv, msg
    <3> QED
      BY <1>1, <3>1, DrawnFacts
  <2> DEFINE t == Visible.token
             e == Visible.epoch + 1
  <2>4. e \in Epoch /\ e > want[t] /\ want[t] # -1 /\ t \in Token /\ e = want[t] + 1
    BY <1>1, <2>2, <2>3, NextRing
  <2>5. s \in Session /\ s.token = t /\ s.epoch = e /\ RingOf(s) = <<t, e>>
    BY <2>2, <2>4, SessionFields
  <2>6. want' = [want EXCEPT ![t] = e]
    BY <2>1, <2>5
  <2>7. <<t, e>> \in Ring
    BY <2>4 DEF Ring
  <2>8. PICK m \in Cargo : m.ring = <<t, e>> /\ SwapCmd(<<t, e>>, 0) = <<m>>
    BY <2>7, SwapIs
  <2>9. SameOutput(UnqueueCmd \o <<m>>, 1)
    BY <2>1, <2>5, <2>8
  <2> HIDE DEF s, t, e
  <2>10. RtTyped' /\ Rings' /\ Balanced'
    BY <2>2, <2>4, <2>6, <2>8, <2>9, Traffic, RingSent
  <2>11. Budgeted' /\ Loads' /\ Eofs' /\ want' \in Wants
    BY <1>1, <1>2, <2>1, <2>3, <2>4, <2>6, RingTaken
  <2>12. open' = open
    BY <2>9 DEF SameOutput
  <2>13. want'[t] = e
    BY <2>4, <2>6 DEF Inv, Typed
  <2>14. Sessions'
    BY <2>1, <2>2, <2>5, <2>12, <2>13 DEF Sessions, Agrees
  <2>15. closed' \in SUBSET Token
    BY <2>1, ClosedTyped DEF Inv
  <2>16. lastToken' \in Token \cup {0} /\ paused' \in BOOLEAN /\ pending' \in Prepared \cup {None}
    BY <2>1, <2>4, <2>5 DEF Inv, Typed
  <2>17. Typed'
    BY <1>1, <1>2, <1>3, <2>1, <2>5, <2>10, <2>11, <2>15, <2>16 DEF Inv, Typed, RtTyped, Wants
  <2> QED
    BY <2>10, <2>11, <2>14, <2>17 DEF Inv
<1> QED
  BY <1>4, <1>5

\* The pending session starts on ring 0.
LEMMA StartTakes ==
  ASSUME Inv, StartsPending, NEW t, t = pending.token, want' = [want EXCEPT ![t] = 0], StartFrame(t)
  PROVE  /\ Drawn /\ inbox' \in Seq(Msg) /\ pc' = "tick"
         /\ t \in Token /\ want[t] = -1 /\ 0 \in Epoch /\ 0 > want[t] /\ want'[t] = 0
         /\ \A u \in Token : u # t => want'[u] = want[u]
         /\ <<t, 0>> \in Ring /\ pending' = None
         /\ \A s \in Session : Agrees(s, want) => Agrees(s, want')
         /\ Budgeted' /\ Loads' /\ Eofs' /\ want' \in Wants
         /\ UNCHANGED <<rebuild, debounced, flag, worker, buffered, nextToken, preparing, commands>>
         /\ NewSession(t) \in Session /\ Agrees(NewSession(t), want')
<1>1. Drawn /\ inbox # <<>> /\ pc' = "tick"
  BY TookDraws DEF StartsPending
<1>2. inbox' \in Seq(Msg)
  BY <1>1, DrawnFacts
<1>3. pending \in Prepared /\ pending # None /\ t \in Token
  BY DEF StartsPending, Inv, Typed, Prepared
<1>4. want[t] = -1
  BY <1>3 DEF Inv, Loads, LoadsIn
<1>5. UNCHANGED <<rebuild, debounced, flag, worker, buffered, nextToken, preparing, commands>>
      /\ pending' = None
  BY HandlerFrameIs DEF StartFrame
<1>6. 0 \in Epoch /\ 0 > want[t]
  BY <1>4, Numbers
<1>7. Budgeted' /\ Loads' /\ Eofs' /\ want' \in Wants
  BY <1>1, <1>3, <1>5, <1>6, RingTaken
<1>8. want'[t] = 0 /\ \A u \in Token : u # t => want'[u] = want[u]
  BY <1>3 DEF Inv, Typed
<1>9. ASSUME NEW s \in Session, Agrees(s, want) PROVE Agrees(s, want')
  <2>1. s # None => s.token # t
    BY <1>4, <1>9, SessionFields, Numbers DEF Agrees
  <2> QED
    BY <1>8, <1>9, <2>1, SessionFields DEF Agrees
<1>10. NewSession(t) \in Session /\ Agrees(NewSession(t), want')
  BY <1>3, <1>8, SessionFields DEF Agrees
<1>11. <<t, 0>> \in Ring
  BY <1>3, <1>6 DEF Ring
<1> QED
  BY <1>1, <1>2, <1>3, <1>4, <1>5, <1>6, <1>7, <1>8, <1>9, <1>10, <1>11

LEMMA StartFadeKeeps == ASSUME Inv, StartFade PROVE Inv'
<1> DEFINE t == pending.token
<1>1. /\ StartsPending /\ CanFade /\ StartFrame(t)
      /\ closed' = closed \cup TokensOf({queued, fading})
      /\ queued' = None /\ fading' = current /\ current' = NewSession(t)
      /\ fadeGen' = fadeGen + 1 /\ lastToken' = t
      /\ want' = [want EXCEPT ![t] = 0]
      /\ SameOutput(UnqueueCmd \o SwapCmd(<<t, 0>>, fadeGen + 1), 1)
      /\ UNCHANGED paused
  BY DEF StartFade, Close
<1> HIDE DEF t
<1>2. /\ Drawn /\ inbox' \in Seq(Msg) /\ pc' = "tick"
      /\ t \in Token /\ want[t] = -1 /\ 0 \in Epoch /\ 0 > want[t] /\ <<t, 0>> \in Ring
      /\ pending' = None /\ \A s \in Session : Agrees(s, want) => Agrees(s, want')
      /\ Budgeted' /\ Loads' /\ Eofs' /\ want' \in Wants
      /\ UNCHANGED <<rebuild, debounced, flag, worker, buffered, nextToken, preparing, commands>>
      /\ NewSession(t) \in Session /\ Agrees(NewSession(t), want')
  BY <1>1, StartTakes DEF t
<1>3. open /\ fadeGen + 1 \in Nat
  BY <1>1 DEF CanFade, Inv, Typed
<1>4. PICK m \in Cargo : m.ring = <<t, 0>> /\ SwapCmd(<<t, 0>>, fadeGen + 1) = <<m>>
  BY <1>2, <1>3, SwapIs
<1>5. RtTyped' /\ Rings' /\ Balanced'
  BY <1>1, <1>2, <1>3, <1>4, Traffic, RingSent
<1>6. open' = open
  BY <1>1 DEF SameOutput
<1>7. current \in Session /\ Agrees(current, want)
  BY <1>1 DEF CanFade, Outlasts, Inv, Typed, Sessions
<1>8. Sessions'
  BY <1>1, <1>2, <1>3, <1>6, <1>7 DEF Sessions, Agrees
<1>9. closed' \in SUBSET Token
  BY <1>1, ClosedTyped DEF Inv
<1>10. Typed'
  BY <1>1, <1>2, <1>3, <1>5, <1>7, <1>9 DEF Inv, Typed, RtTyped, Wants
<1> QED
  BY <1>2, <1>5, <1>8, <1>10 DEF Inv

LEMMA StartGaplessKeeps == ASSUME Inv, StartGapless PROVE Inv'
<1> DEFINE t == pending.token
           m == [op |-> "Queue", ring |-> <<t, 0>>]
<1>1. /\ StartsPending /\ CanQueue /\ StartFrame(t)
      /\ closed' = closed \cup TokensOf({queued})
      /\ queued' = NewSession(t)
      /\ want' = [want EXCEPT ![t] = 0]
      /\ SameOutput(UnqueueCmd \o <<m>>, 1)
      /\ UNCHANGED <<current, fading, fadeGen, lastToken, paused>>
  BY DEF StartGapless, Close
<1> HIDE DEF t
<1>2. /\ Drawn /\ inbox' \in Seq(Msg) /\ pc' = "tick"
      /\ t \in Token /\ want[t] = -1 /\ 0 \in Epoch /\ 0 > want[t] /\ <<t, 0>> \in Ring
      /\ pending' = None /\ \A s \in Session : Agrees(s, want) => Agrees(s, want')
      /\ Budgeted' /\ Loads' /\ Eofs' /\ want' \in Wants
      /\ UNCHANGED <<rebuild, debounced, flag, worker, buffered, nextToken, preparing, commands>>
      /\ NewSession(t) \in Session /\ Agrees(NewSession(t), want')
  BY <1>1, StartTakes DEF t
<1>3. open /\ fading = None
  BY <1>1 DEF CanQueue
<1>4. m \in Cargo /\ m.ring = <<t, 0>>
  BY <1>2 DEF Cargo
<1> HIDE DEF m
<1>5. RtTyped' /\ Rings' /\ Balanced'
  BY <1>1, <1>2, <1>3, <1>4, Traffic, RingSent
<1>6. open' = open
  BY <1>1 DEF SameOutput
<1>7. current \in Session /\ Agrees(current, want)
  BY <1>1 DEF CanQueue, Outlasts, Inv, Typed, Sessions
<1>8. Sessions'
  BY <1>1, <1>2, <1>3, <1>6, <1>7 DEF Sessions, Agrees
<1>9. closed' \in SUBSET Token
  BY <1>1, ClosedTyped DEF Inv
<1>10. Typed'
  BY <1>1, <1>2, <1>3, <1>5, <1>7, <1>9 DEF Inv, Typed, RtTyped, Wants
<1> QED
  BY <1>2, <1>5, <1>8, <1>10 DEF Inv

LEMMA StartNowKeeps == ASSUME Inv, StartNow PROVE Inv'
<1> DEFINE t == pending.token
<1>1. /\ StartsPending /\ StartFrame(t)
      /\ closed' = closed \cup TokensOf({queued, current, fading})
      /\ queued' = None /\ fading' = None /\ current' = NewSession(t)
      /\ lastToken' = t
      /\ want' = [want EXCEPT ![t] = 0]
      /\ paused' = (paused /\ pending.transition # "immediate")
      /\ \/ FreshOutput(SwapCmd(<<t, 0>>, 0))
         \/ open /\ SameOutput(UnqueueCmd \o SwapCmd(<<t, 0>>, 0), 1)
      /\ UNCHANGED fadeGen
  BY DEF StartNow, Close
<1> HIDE DEF t
<1>2. /\ Drawn /\ inbox' \in Seq(Msg) /\ pc' = "tick"
      /\ t \in Token /\ want[t] = -1 /\ 0 \in Epoch /\ 0 > want[t] /\ <<t, 0>> \in Ring
      /\ pending' = None /\ want'[t] = 0
      /\ Budgeted' /\ Loads' /\ Eofs' /\ want' \in Wants
      /\ UNCHANGED <<rebuild, debounced, flag, worker, buffered, nextToken, preparing, commands>>
      /\ NewSession(t) \in Session /\ Agrees(NewSession(t), want')
  BY <1>1, StartTakes DEF t
<1>3. RtTyped' /\ Rings' /\ Balanced' /\ open'
  <2>1. CASE FreshOutput(SwapCmd(<<t, 0>>, 0))
    <3>1. /\ open' = TRUE /\ rt' = FreshRt /\ reading' = FALSE
          /\ cmds' = SwapCmd(<<t, 0>>, 0) /\ retired' = <<>> /\ outstanding' = Len(SwapCmd(<<t, 0>>, 0))
      BY <2>1 DEF FreshOutput
    <3> QED
      BY <1>2, <3>1, FreshSent
  <2>2. CASE open /\ SameOutput(UnqueueCmd \o SwapCmd(<<t, 0>>, 0), 1)
    <3>1. PICK m \in Cargo : m.ring = <<t, 0>> /\ SwapCmd(<<t, 0>>, 0) = <<m>>
      BY <1>2, SwapIs
    <3>2. RtTyped' /\ Rings' /\ Balanced'
      BY <1>1, <1>2, <2>2, <3>1, Traffic, RingSent
    <3> QED
      BY <2>2, <3>2 DEF SameOutput
  <2> QED
    BY <1>1, <2>1, <2>2
<1>4. Sessions'
  BY <1>1, <1>2, <1>3 DEF Sessions, Agrees
<1>5. closed' \in SUBSET Token /\ paused' \in BOOLEAN
  BY <1>1, ClosedTyped DEF Inv
<1>6. Typed'
  BY <1>1, <1>2, <1>3, <1>5 DEF Inv, Typed, RtTyped, Wants
<1> QED
  BY <1>2, <1>3, <1>4, <1>6 DEF Inv

LEMMA StartFailsKeeps == ASSUME Inv, StartFails PROVE Inv'
<1>1. Drawn /\ inbox # <<>> /\ pc' = "tick"
  BY TookDraws DEF StartFails, StartsPending
<1>2. /\ pending' = None /\ queued' = None /\ SameOutput(UnqueueCmd, 0)
      /\ closed' = closed \cup TokensOf({queued, pending})
      /\ UNCHANGED <<current, fading, paused, lastToken, fadeGen, rebuild,
                     debounced, want, flag, worker, buffered, nextToken, preparing, commands>>
  BY HandlerFrameIs DEF StartFails, Close
<1>3. Budgeted' /\ Loads' /\ Eofs' /\ inbox' \in Seq(Msg)
  BY <1>1, <1>2, NoRingTaken, DrawnFacts
<1>4. SendRt(UnqueueCmd) /\ UNCHANGED <<open, rtVars, retired, outstanding>>
  BY <1>2 DEF SameOutput, Inv, Typed
<1>5. RtTyped' /\ Rings' /\ Balanced'
  BY <1>2, <1>4, Traffic, PlainSent
<1>6. Sessions'
  BY <1>2, <1>4 DEF Inv, Sessions, Agrees
<1>7. closed' \in SUBSET Token
  BY <1>2, ClosedTyped DEF Inv
<1>8. Typed'
  BY <1>1, <1>2, <1>3, <1>5, <1>7 DEF Inv, Typed, RtTyped
<1> QED
  BY <1>3, <1>5, <1>6, <1>8 DEF Inv

LEMMA IgnoreKeeps == ASSUME Inv, Drawn, Ignore, pc' \in {"recv", "tick", "reap", "latch"} PROVE Inv'
<1>1. UNCHANGED <<pending, current, fading, queued, paused, open, lastToken, fadeGen,
                  outstanding, rebuild, debounced, cmds, retired, rt, reading, want, closed,
                  flag, worker, buffered, nextToken, preparing, commands>>
  BY HandlerFrameIs DEF Ignore, rtVars
<1>2. Budgeted' /\ Loads' /\ Eofs' /\ inbox' \in Seq(Msg)
  BY <1>1, NoRingTaken, DrawnFacts
<1>3. Sessions' /\ Rings' /\ Balanced'
  BY <1>1, SessionsStill, RingsStill DEF Inv, ActorStill
<1>4. Typed'
  BY <1>1, <1>2 DEF Inv, Typed
<1> QED
  BY <1>2, <1>3, <1>4 DEF Inv

LEMMA HandleEofKeeps == ASSUME Inv, HandleEof PROVE Inv'
<1>1. Drawn /\ inbox # <<>> /\ msg.type = "Eof" /\ pc' = "tick"
  BY TookDraws DEF HandleEof
<1>2. /\ flag' = [r \in Ring |-> flag[r] \/ r \in {RingOf(s) : s \in Owner(msg.token, msg.epoch)}]
      /\ UNCHANGED <<pending, current, fading, queued, paused, open, lastToken, fadeGen,
                     outstanding, rebuild, debounced, cmds, retired, rt, reading, want,
                     closed, worker, buffered, nextToken, preparing, commands>>
  BY HandlerFrameIs DEF HandleEof, rtVars
<1>3. /\ inbox' \in Seq(Msg) /\ EofsIn(worker, want, flag, inbox')
      /\ LoadsIn(inbox', pending, preparing, want, nextToken)
      /\ Due(inbox', rebuild) <= Due(inbox, rebuild) /\ Due(inbox', rebuild) \in Nat
      /\ Due(inbox, rebuild) \in Nat /\ inbox \in Seq(Msg)
  BY <1>1, DrawnFacts
<1>4. Budgeted'
  <2>1. commands \in Nat /\ \A t \in Token : want[t] \in Int
    BY Numbers DEF Inv, Typed
  <2> QED
    BY <1>2, <1>3, <2>1 DEF Inv, Budgeted, BudgetIn
<1>5. Loads'
  BY <1>2, <1>3 DEF Loads
<1>6. Sessions' /\ Rings' /\ Balanced'
  BY <1>2, SessionsStill, RingsStill DEF Inv, ActorStill
<1>7. AtEof(msg.token, msg.epoch, worker, want)
  <2>1. 1 \in 1 .. Len(inbox) /\ msg = inbox[1]
    BY <1>1, <1>3 DEF msg
  <2> QED
    BY <1>1, <2>1 DEF Inv, Eofs, EofsIn
<1>8. Eofs'
  <2>1. ASSUME NEW t \in Token, NEW e \in Epoch, flag'[<<t, e>>] PROVE AtEof(t, e, worker, want)
    <3>1. <<t, e>> \in Ring
      BY DEF Ring
    <3>2. CASE flag[<<t, e>>]
      BY <1>3, <3>2 DEF EofsIn
    <3>3. CASE \E s \in Owner(msg.token, msg.epoch) : <<t, e>> = RingOf(s)
      BY <1>7, <3>3 DEF Owner, RingOf
    <3> QED
      BY <1>2, <2>1, <3>1, <3>2, <3>3
  <2> QED
    BY <1>2, <1>3, <2>1 DEF Eofs, EofsIn
<1>9. flag' \in [Ring -> BOOLEAN]
  <2>1. \A r \in Ring : flag'[r] \in BOOLEAN
    BY <1>2
  <2> QED
    BY <1>2, <2>1, Zenon
<1>10. Typed'
  BY <1>1, <1>2, <1>3, <1>9 DEF Inv, Typed
<1> QED
  BY <1>4, <1>5, <1>6, <1>8, <1>10 DEF Inv

LEMMA HandleFailedKeeps == ASSUME Inv, HandleFailed PROVE Inv'
<1> DEFINE t == msg.token
<1>1. Drawn /\ inbox # <<>> /\ msg.type = "Failed" /\ pc' = "tick"
  BY TookDraws DEF HandleFailed
<1>2. t \in Token
  BY <1>1, Message DEF Inv
<1>3. UNCHANGED <<paused, open, lastToken, fadeGen, outstanding, rebuild, debounced,
                  retired, rt, reading, rtVars, want, flag, worker, buffered, nextToken,
                  preparing, commands>>
  BY HandlerFrameIs DEF HandleFailed, rtVars
<1>4. /\ pending' \in {pending, None} /\ current' \in {current, None}
      /\ fading' \in {fading, None} /\ queued' \in {queued, None}
      /\ closed' = closed \/ closed' = closed \cup {t}
      /\ SendRt(UnqueueCmd) \/ SendRt(<<>>) \/ cmds' = cmds
  BY DEF HandleFailed
<1> HIDE DEF t
<1>5. Budgeted' /\ Loads' /\ Eofs' /\ inbox' \in Seq(Msg)
  BY <1>1, <1>3, <1>4, NoRingTaken, DrawnFacts
<1>6. RtTyped' /\ Rings' /\ Balanced'
  <2>1. CASE SendRt(UnqueueCmd) \/ SendRt(<<>>)
    BY <1>3, <2>1, Traffic, PlainSent
  <2>2. CASE cmds' = cmds
    BY <1>3, <2>2, Traffic, RingsStill DEF RtTyped
  <2> QED
    BY <1>4, <2>1, <2>2
<1>7. Sessions'
  BY <1>3, <1>4 DEF Inv, Sessions, Agrees
<1>8. Typed'
  BY <1>1, <1>2, <1>3, <1>4, <1>5, <1>6 DEF Inv, Typed, RtTyped
<1> QED
  BY <1>5, <1>6, <1>7, <1>8 DEF Inv

\* handle_device_error, with the message or the deferred rebuild that pays for it.
LEMMA DeviceErrorKeeps ==
  ASSUME Inv, NEW lost \in BOOLEAN, DeviceError(lost), Drawn,
         pc' \in {"recv", "tick", "reap", "latch"},
         Due(inbox', "none") + 1 <= Due(inbox, rebuild)
  PROVE  Inv'
<1>1. inbox' \in Seq(Msg) /\ inbox \in Seq(Msg)
  BY DrawnFacts
<1>2. UNCHANGED <<fadeGen, flag, worker, buffered, nextToken, preparing, commands>>
  BY HandlerFrameIs DEF DeviceError
<1>3. CASE debounced
  <2>1. /\ rebuild' \in {"lost", "stall"}
        /\ UNCHANGED <<pending, current, fading, queued, paused, open, lastToken, outstanding,
                       debounced, cmds, retired, rt, reading, want, closed>>
    BY <1>3 DEF DeviceError, rtVars
  <2>2. Due(inbox', rebuild') <= Due(inbox, rebuild)
    <3>1. Due(inbox', rebuild') = Due(inbox', "none") + 1
      BY <1>1, <2>1, DueIsNat
    <3> QED
      BY <3>1
  <2>3. Budgeted'
    <3>1. commands \in Nat /\ \A t \in Token : want[t] \in Int
      BY Numbers DEF Inv, Typed
    <3>2. Due(inbox', rebuild') \in Nat /\ Due(inbox, rebuild) \in Nat
      BY DrawnFacts
    <3> QED
      BY <1>2, <2>1, <2>2, <3>1, <3>2 DEF Inv, Budgeted, BudgetIn
  <2>4. Loads' /\ Eofs'
    BY <1>2, <2>1, DrawnFacts DEF Loads, Eofs
  <2>5. Sessions' /\ Rings' /\ Balanced'
    BY <2>1, SessionsStill, RingsStill DEF Inv, ActorStill
  <2>6. Typed'
    BY <1>1, <1>2, <2>1 DEF Inv, Typed
  <2> QED
    BY <2>3, <2>4, <2>5, <2>6 DEF Inv
<1>4. CASE ~debounced
  <2>1. /\ rebuild' = "none" /\ debounced' = TRUE /\ fading' = None /\ queued' = None
        /\ RebuildSeeking(lost) \/ RebuildBare \/ RebuildFails
    BY <1>4 DEF DeviceError
  <2>2. Due(inbox', rebuild') + 1 <= Due(inbox, rebuild)
    BY <2>1
  <2>3. CASE RebuildSeeking(lost)
    <3> DEFINE s == Reringed(current)
               t == current.token
               e == current.epoch + 1
    <3>1. /\ current' = s /\ want' = [want EXCEPT ![s.token] = s.epoch]
          /\ paused' = (HoldsAfter(lost) \/ (paused /\ ~current.ended))
          /\ closed' = closed \cup TokensOf({fading, queued})
          /\ open' = TRUE /\ rt' = FreshRt /\ reading' = FALSE
          /\ cmds' = SwapCmd(RingOf(s), 0) /\ retired' = <<>>
          /\ outstanding' = Len(SwapCmd(RingOf(s), 0))
          /\ UNCHANGED <<pending, lastToken>>
      BY <2>3 DEF RebuildSeeking, FreshOutput, Close
    <3>2. current \in Session /\ current # None /\ want[t] = current.epoch
      BY <2>3 DEF RebuildSeeking, Inv, Typed, Sessions, Agrees
    <3>3. e \in Epoch /\ e > want[t] /\ want[t] # -1 /\ t \in Token /\ e = want[t] + 1
      BY <2>2, <3>2, NextRing
    <3>4. s \in Session /\ s.token = t /\ s.epoch = e /\ RingOf(s) = <<t, e>>
      BY <3>2, <3>3, SessionFields
    <3>5. want' = [want EXCEPT ![t] = e]
      BY <3>1, <3>4
    <3> HIDE DEF s, t, e
    <3>6. Budgeted' /\ Loads' /\ Eofs' /\ want' \in Wants
      BY <1>2, <2>2, <3>1, <3>3, <3>5, RingTaken
    <3>7. want'[t] = e
      BY <3>3, <3>5 DEF Inv, Typed
    <3>8. RtTyped' /\ Rings' /\ Balanced'
      BY <3>1, <3>3, <3>4, <3>6, <3>7, FreshSent
    <3>9. Sessions'
      BY <2>1, <3>1, <3>4, <3>7 DEF Sessions, Agrees
    <3>10. closed' \in SUBSET Token /\ paused' \in BOOLEAN
      BY <3>1, ClosedTyped DEF Inv
    <3>11. pending' \in Prepared \cup {None} /\ lastToken' \in Token \cup {0}
      BY <3>1 DEF Inv, Typed
    <3>12. Typed'
      BY <1>1, <1>2, <2>1, <3>1, <3>4, <3>6, <3>8, <3>10, <3>11 DEF Inv, Typed, RtTyped, Wants
    <3> QED
      BY <3>6, <3>8, <3>9, <3>12 DEF Inv
  <2>4. CASE RebuildBare \/ RebuildFails
    <3>1. /\ current' = None /\ want' = want
          /\ \E S \in SUBSET {pending, current, fading, queued} : closed' = closed \cup TokensOf(S)
          /\ open' \in BOOLEAN /\ rt' = FreshRt /\ reading' = FALSE
          /\ cmds' = <<>> /\ retired' = <<>> /\ outstanding' = Len(<<>>)
          /\ pending' = pending \/ pending' = None
          /\ lastToken' = lastToken
          /\ paused' \in BOOLEAN
      <4>1. CASE RebuildBare
        BY <4>1 DEF RebuildBare, FreshOutput, Close, Inv, Typed
      <4>2. CASE RebuildFails
        BY <4>2, EmptySeq DEF RebuildFails, Close
      <4> QED
        BY <2>4, <4>1, <4>2
    <3>2. want' \in Wants
      BY <3>1, Traffic
    <3>3. RtTyped' /\ Rings' /\ Balanced'
      BY <3>1, <3>2, FreshSent
    <3>4. Budgeted'
      <4>1. commands \in Nat /\ \A t \in Token : want[t] \in Int
        BY Numbers DEF Inv, Typed
      <4>2. Due(inbox', rebuild') \in Nat /\ Due(inbox, rebuild) \in Nat
        BY DrawnFacts
      <4> QED
        BY <1>2, <2>2, <3>1, <4>1, <4>2 DEF Inv, Budgeted, BudgetIn
    <3>5. Loads' /\ Eofs'
      BY <1>2, <3>1, DrawnFacts, LoadsDrop DEF Loads, Eofs
    <3>6. Sessions'
      BY <2>1, <3>1 DEF Sessions, Agrees
    <3>7. closed' \in SUBSET Token
      BY <3>1, ClosedTyped DEF Inv
    <3>8. pending' \in Prepared \cup {None} /\ lastToken' \in Token \cup {0}
      BY <3>1 DEF Inv, Typed
    <3>9. Typed'
      BY <1>1, <1>2, <2>1, <3>1, <3>2, <3>3, <3>7, <3>8 DEF Inv, Typed, RtTyped, Wants
    <3> QED
      BY <3>3, <3>4, <3>5, <3>6, <3>9 DEF Inv
  <2> QED
    BY <2>1, <2>3, <2>4
<1> QED
  BY <1>3, <1>4

LEMMA HandleDeviceErrorKeeps == ASSUME Inv, HandleDeviceError PROVE Inv'
<1>1. Drawn /\ inbox # <<>> /\ msg.type = "DeviceError" /\ pc' = "tick" /\ inbox' = Tail(inbox)
  BY TookDraws DEF HandleDeviceError, Took
<1>2. msg \in Seeking /\ msg.lost \in BOOLEAN
  BY <1>1, Message DEF Inv
<1>3. Due(inbox', "none") + 1 <= Due(inbox, rebuild)
  <2>1. Due(inbox', "none") = Due(inbox, "none") - 1 /\ Due(inbox, "none") \in Nat
    BY <1>1, <1>2, DueTail, DrawnFacts DEF msg
  <2>2. Due(inbox, rebuild) >= Due(inbox, "none") /\ Due(inbox, rebuild) \in Nat
    BY <1>1, DrawnFacts, DueIsNat
  <2> QED
    BY <2>1, <2>2
<1> QED
  BY <1>1, <1>2, <1>3, DeviceErrorKeeps DEF HandleDeviceError

LEMMA HandleDefaultDeviceChangedKeeps == ASSUME Inv, HandleDefaultDeviceChanged PROVE Inv'
<1>1. Drawn /\ inbox # <<>> /\ msg.type = "DefaultDeviceChanged" /\ pc' = "tick"
      /\ inbox' = Tail(inbox)
  BY TookDraws DEF HandleDefaultDeviceChanged, Took
<1>2. msg \in Seeking
  BY <1>1, Message DEF Inv
<1>3. Due(inbox', "none") + 1 <= Due(inbox, rebuild)
  <2>1. Due(inbox', "none") = Due(inbox, "none") - 1 /\ Due(inbox, "none") \in Nat
    BY <1>1, <1>2, DueTail, DrawnFacts DEF msg
  <2>2. Due(inbox, rebuild) >= Due(inbox, "none") /\ Due(inbox, rebuild) \in Nat
    BY <1>1, DrawnFacts, DueIsNat
  <2> QED
    BY <2>1, <2>2
<1> QED
  BY <1>1, <1>3, DeviceErrorKeeps, IgnoreKeeps DEF HandleDefaultDeviceChanged

LEMMA TickRebuildKeeps == ASSUME Inv, TickRebuild PROVE Inv'
<1>1. Drawn /\ inbox' = inbox /\ pc' = "reap" /\ rebuild # "none"
  BY DEF TickRebuild, RebuildDue, Drawn
<1>2. Due(inbox', "none") + 1 <= Due(inbox, rebuild)
  <2>1. Due(inbox, "none") = Due(inbox, rebuild) - 1 /\ Due(inbox, rebuild) \in Nat
    BY <1>1, DrawnFacts, DueIsNat
  <2> QED
    BY <1>1, <2>1
<1> QED
  BY <1>1, <1>2, DeviceErrorKeeps DEF TickRebuild

LEMMA DebounceElapsesKeeps == ASSUME Inv, DebounceElapses PROVE Inv'
<1>1. /\ debounced' \in BOOLEAN
      /\ UNCHANGED <<pc, pending, current, fading, queued, paused, open, lastToken, fadeGen,
                     outstanding, rebuild, inbox, cmds, retired, rt, reading, worker, want,
                     closed, buffered, flag, nextToken, preparing, commands>>
  BY DEF DebounceElapses, rtVars, workerVars, ringVars, clientVars
<1>2. /\ Budgeted' /\ Loads' /\ Sessions' /\ Rings' /\ Balanced' /\ Eofs'
  BY <1>1, BudgetStill, LoadsStill, SessionsStill, RingsStill, EofsStill DEF Inv, ActorStill
<1>3. Typed'
  BY <1>1 DEF Inv, Typed
<1> QED
  BY <1>2, <1>3 DEF Inv

LEMMA ReapKeeps == ASSUME Inv, Reap PROVE Inv'
<1>1. /\ Drawn /\ pc' = "latch"
      /\ retired' = <<>>
      /\ outstanding' = IF Len(retired) > outstanding THEN 0 ELSE outstanding - Len(retired)
      /\ fading' = IF FadeOver THEN None ELSE fading
      /\ current' = IF Takeover THEN queued ELSE current
      /\ queued' = IF Takeover THEN None ELSE queued
      /\ lastToken' = IF Takeover THEN queued.token ELSE lastToken
      /\ closed' = closed \cup TokensOf((IF FadeOver THEN {fading} ELSE {})
                                           \cup (IF Takeover THEN {current} ELSE {}))
      /\ UNCHANGED <<pending, paused, open, fadeGen, rebuild, debounced, cmds, rt, reading, want,
                     flag, worker, buffered, nextToken, preparing, commands>>
  BY HandlerFrameIs DEF Reap, Drawn, Close, rtVars
<1>2. Budgeted' /\ Loads' /\ Eofs' /\ inbox' \in Seq(Msg)
  BY <1>1, NoRingTaken, DrawnFacts
<1>3. Rings'
  BY <1>1 DEF Inv, Rings
<1>4. Balanced' /\ outstanding' \in Nat /\ retired' \in Seq(Retirement)
  <2>1. /\ cmds \in Seq(Packet) /\ rt \in RtFields /\ retired \in Seq(Retirement)
        /\ Rings /\ outstanding = Aloft(rt, cmds, retired)
    BY DEF Inv, Typed, Balanced
  <2>2. Count(cmds, Cargo) \in Nat /\ Len(retired) \in Nat /\ Cardinality(Held(rt)) \in Nat
    <3>1. Cardinality(Held(rt)) = Bits(rt)
      BY <2>1, HeldCount DEF Rings, Bits
    <3> QED
      BY <2>1, <3>1, PlacesAreFinite, LenProperties, BitIsNat DEF Bits
  <2>3. outstanding' = Count(cmds, Cargo) + Cardinality(Held(rt)) /\ outstanding' \in Nat
    BY <1>1, <2>1, <2>2 DEF Aloft
  <2>4. Len(retired') = 0 /\ retired' \in Seq(Retirement)
    BY <1>1, EmptySeq
  <2> QED
    BY <1>1, <2>2, <2>3, <2>4 DEF Balanced, Aloft
<1>5. Takeover => queued \in Session
  BY DEF Takeover, Inv, Typed
<1>6. Sessions'
  BY <1>1, <1>5 DEF Inv, Sessions, Agrees, Takeover
<1>7. closed' \in SUBSET Token
  BY <1>1, ClosedTyped DEF Inv
<1>8. Typed'
  BY <1>1, <1>2, <1>4, <1>5, <1>7, SessionFields DEF Inv, Typed
<1> QED
  BY <1>2, <1>3, <1>4, <1>6, <1>8 DEF Inv

LEMMA LatchKeeps == ASSUME Inv, Latch PROVE Inv'
<1>1. /\ Drawn /\ pc' = "recv"
      /\ current' = current \/ (DrainComplete /\ current' = [current EXCEPT !.ended = TRUE])
      /\ UNCHANGED <<pending, fading, paused, lastToken, queued, open, fadeGen, outstanding,
                     rebuild, debounced, cmds, retired, rt, reading, want, closed, flag,
                     worker, buffered, nextToken, preparing, commands>>
  BY HandlerFrameIs DEF Latch, Drawn, rtVars
<1>2. Budgeted' /\ Loads' /\ Eofs' /\ inbox' \in Seq(Msg)
  BY <1>1, NoRingTaken, DrawnFacts
<1>3. Rings' /\ Balanced'
  BY <1>1, RingsStill DEF Inv
<1>4. DrainComplete => current \in Session /\ current # None
  BY DEF DrainComplete, Outlasts, Inv, Typed
<1>5. current' \in Session \cup {None} /\ Agrees(current', want) /\ (current = None => current' = None)
  <2>1. CASE current' = current
    BY <2>1 DEF Inv, Typed, Sessions
  <2>2. CASE DrainComplete /\ current' = [current EXCEPT !.ended = TRUE]
    <3>1. current' \in Session /\ current'.token = current.token /\ current'.epoch = current.epoch
      BY <1>4, <2>2 DEF Session
    <3> QED
      BY <1>4, <2>2, <3>1 DEF Inv, Sessions, Agrees
  <2> QED
    BY <1>1, <2>1, <2>2
<1>6. Sessions'
  BY <1>1, <1>5 DEF Inv, Sessions, Agrees
<1>7. Typed'
  BY <1>1, <1>2, <1>5 DEF Inv, Typed
<1> QED
  BY <1>2, <1>3, <1>6, <1>7 DEF Inv

-----------------------------------------------------------------------------
LEMMA InitInv == Init => Inv
<1> SUFFICES ASSUME Init PROVE Inv
  OBVIOUS
<1>1. Typed
  <2>1. 0 \in Epoch /\ 0 \in 0 .. TrackBlocks /\ 0 \in 0 .. RingBlocks
    BY Numbers
  <2>2. worker \in [Token -> WorkerFields] /\ want \in [Token -> Epoch \cup {-1}]
        /\ buffered \in [Ring -> 0 .. RingBlocks] /\ flag \in [Ring -> BOOLEAN]
    BY <2>1 DEF Init, WorkerFields
  <2>3. inbox \in Seq(Msg) /\ cmds \in Seq(Packet) /\ retired \in Seq(Retirement)
    BY EmptySeq DEF Init
  <2>4. rt \in RtFields
    BY FreshRtHoldsNothing DEF Init
  <2>5. /\ pc = "recv" /\ pending = None /\ preparing = None /\ current = None
        /\ fading = None /\ queued = None /\ rebuild = "none" /\ lastToken = 0 /\ fadeGen = 0
        /\ outstanding = 0 /\ closed = {} /\ nextToken = 1 /\ commands = 0
    BY DEF Init
  <2>6. paused \in BOOLEAN /\ open \in BOOLEAN /\ debounced \in BOOLEAN /\ reading \in BOOLEAN
    BY DEF Init
  <2> QED
    BY <2>1, <2>2, <2>3, <2>4, <2>5, <2>6 DEF Typed
<1>2. Budgeted
  <2>1. Due(inbox, rebuild) = 0
    BY CountEmpty DEF Init, Due
  <2> QED
    BY <2>1 DEF Init, Budgeted, BudgetIn
<1>3. Loads
  BY DEF Init, Loads, LoadsIn
<1>4. Sessions
  BY DEF Init, Sessions, Agrees
<1>5. Rings
  BY RingsFresh DEF Init, Rings, Wants
<1>6. Balanced
  <2>1. Count(cmds, Cargo) = 0 /\ Cardinality(Held(rt)) = 0 /\ Len(retired) = 0
    BY CountEmpty, FreshRtHoldsNothing, FS_EmptySet DEF Init
  <2> QED
    BY <2>1 DEF Init, Balanced, Aloft
<1>7. Eofs
  <2>1. \A t \in Token, e \in Epoch : ~flag[<<t, e>>]
    BY DEF Init, Ring
  <2>2. \A t \in Token : worker[t].state = "unborn"
    BY DEF Init
  <2>3. Len(inbox) = 0
    BY DEF Init
  <2> QED
    BY <2>1, <2>2, <2>3 DEF Eofs, EofsIn
<1> QED
  BY <1>1, <1>2, <1>3, <1>4, <1>5, <1>6, <1>7 DEF Inv

LEMMA NextInv == Inv /\ [Next]_vars => Inv'
<1> SUFFICES ASSUME Inv, [Next]_vars PROVE Inv'
  OBVIOUS
<1>1. CASE Client
  BY <1>1, StartLoadKeeps, SendLoadKeeps, SendOtherKeeps DEF Client
<1>2. CASE Workers
  BY <1>2, WorkersKeep DEF Workers
<1>3. CASE Callback
  BY <1>3, RtDrainKeeps, RtReadKeeps DEF Callback
<1>4. CASE Handle
  <2>1. CASE StaleReady
    BY <2>1, TookDraws, IgnoreKeeps DEF StaleReady
  <2> QED
    BY <1>4, <2>1, HandleLoadKeeps, HandleCancelPendingKeeps, HandlePauseResumeKeeps,
       HandleStopKeeps, HandleSeekKeeps, StartFadeKeeps, StartGaplessKeeps, StartNowKeeps,
       StartFailsKeeps, HandleEofKeeps, HandleFailedKeeps, HandleDeviceErrorKeeps,
       HandleDefaultDeviceChangedKeeps DEF Handle
<1>5. CASE Tick
  <2>1. CASE Timeout
    BY <2>1, IgnoreKeeps DEF Timeout, Drawn
  <2> QED
    BY <1>5, <2>1, TickRebuildKeeps, ReapKeeps, LatchKeeps DEF Tick
<1>6. CASE DebounceElapses
  BY <1>6, DebounceElapsesKeeps
<1>7. CASE UNCHANGED vars
  <2>1. UNCHANGED <<pc, pending, current, fading, queued, paused, open, lastToken, fadeGen,
                    outstanding, rebuild, debounced, inbox, cmds, retired, rt, reading, worker,
                    want, closed, buffered, flag, nextToken, preparing, commands>>
    BY <1>7 DEF vars, actorVars, rtVars, workerVars, ringVars, clientVars
  <2>2. /\ Budgeted' /\ Loads' /\ Sessions' /\ Rings' /\ Balanced' /\ Eofs'
    BY <2>1, BudgetStill, LoadsStill, SessionsStill, RingsStill, EofsStill DEF Inv, ActorStill
  <2>3. Typed'
    BY <2>1 DEF Inv, Typed
  <2> QED
    BY <2>2, <2>3 DEF Inv
<1> QED
  BY <1>1, <1>2, <1>3, <1>4, <1>5, <1>6, <1>7 DEF Next

LEMMA InvHolds == Spec => []Inv
  BY InitInv, NextInv, PTL DEF Spec

\* Every field of the engine keeps its type, whatever the threads do: the callback
\* holds only rings of sessions that were loaded, a ring never holds more than it
\* has room for, and no epoch exceeds the seeks that were asked for.
THEOREM EngineTyped == Spec => []TypeOK
<1>1. Inv => TypeOK
  BY DEF Inv, Typed, TypeOK, Prepared, RtFields
<1> QED
  BY <1>1, InvHolds, PTL

\* rt_rings_outstanding is exact: it counts the rings in the commands not yet
\* drained, in the callback, and in the retirements not yet reaped (send_rt, reap,
\* RtState::apply and retire), over seeks, fades, takeovers, stops and rebuilds, so
\* the actor blocks on recv only when nothing is left to reap.
THEOREM RingsAreCounted == Spec => []RingsBalanced
<1>1. Inv => RingsBalanced
  <2> SUFFICES ASSUME Inv PROVE RingsBalanced
    OBVIOUS
  <2>1. cmds \in Seq(Packet) /\ Balanced
    BY DEF Inv, Typed
  <2>2. \A p \in Packet : p \in Cargo <=> p.op \in {"Swap", "Queue"}
    BY DEF Packet, Cargo
  <2>3. DOMAIN cmds = 1 .. Len(cmds) /\ \A i \in 1 .. Len(cmds) : cmds[i] \in Packet
    BY <2>1
  <2>4. {i \in DOMAIN cmds : cmds[i].op \in {"Swap", "Queue"}} = Places(cmds, Cargo)
    BY <2>2, <2>3 DEF Places
  <2>5. Carried = Count(cmds, Cargo)
    BY <2>4 DEF Carried, Count
  <2>6. {r \in {rt.active, rt.fading, rt.next} : r # NoRing} = Held(rt)
    BY DEF Held
  <2>7. Holding = Cardinality(Held(rt))
    BY <2>6 DEF Holding
  <2> QED
    BY <2>1, <2>5, <2>7 DEF RingsBalanced, Balanced, Aloft
<1> QED
  BY <1>1, InvHolds, PTL

-----------------------------------------------------------------------------
(* What Ended says.                                                          *)

NoEnd(ev) == \A i \in DOMAIN ev : ev[i].type # "Ended"
PhaseEvent == [type |-> "PhaseChanged", token |-> lastToken', phase |-> status'.phase]

\* Events other than Ended, one after another, are still other than Ended.
LEMMA Chatter ==
  ASSUME NEW a, NEW b, a.type # "Ended", b.type # "Ended"
  PROVE  LET A == {a, b, PhaseEvent}
         IN  /\ PhaseChange \in Seq(A) /\ <<>> \in Seq(A) /\ <<a>> \in Seq(A) /\ <<b>> \in Seq(A)
             /\ \A s, u \in Seq(A) : s \o u \in Seq(A)
             /\ \A s \in Seq(A) : NoEnd(s)
<1> DEFINE A == {a, b, PhaseEvent}
<1>1. PhaseEvent.type # "Ended"
  BY DEF PhaseEvent
<1>2. PhaseChange = <<>> \/ PhaseChange = <<PhaseEvent>>
  BY DEF PhaseChange, PhaseEvent
<1> HIDE DEF PhaseEvent
<1>3. <<>> \in Seq(A) /\ <<a>> \in Seq(A) /\ <<b>> \in Seq(A) /\ <<PhaseEvent>> \in Seq(A)
  BY EmptySeq
<1>4. \A s, u \in Seq(A) : s \o u \in Seq(A)
  BY ConcatProperties
<1>5. ASSUME NEW s \in Seq(A) PROVE NoEnd(s)
  <2>1. \A i \in DOMAIN s : s[i] \in A
    OBVIOUS
  <2> QED
    BY <1>1, <2>1 DEF NoEnd
<1> QED
  BY <1>2, <1>3, <1>4, <1>5

LEMMA PhaseChangeNoEnd == NoEnd(PhaseChange) /\ NoEnd(<<>>)
<1> DEFINE a == [type |-> "Loaded"]
<1>1. a.type # "Ended"
  OBVIOUS
<1> HIDE DEF a
<1> QED
  BY <1>1, Chatter

LEMMA OneAndPhaseChange ==
  ASSUME NEW a, a.type # "Ended"
  PROVE  NoEnd(<<a>> \o PhaseChange) /\ NoEnd(PhaseChange \o <<a>>) /\ NoEnd(<<>> \o PhaseChange)
BY Chatter

LEMMA OutsidersEndNothing == ASSUME Client \/ Workers \/ Callback \/ DebounceElapses PROVE NoEnd(events')
<1>1. events' = <<>>
  <2>1. CASE Client
    BY <2>1 DEF Client, StartLoad, SendLoad, SendOther, Ask
  <2>2. CASE Workers
    BY <2>2 DEF Workers, ProbeOk, WorkerFails, TakeCommand, Decode, ReachEof, WorkerStep
  <2>3. CASE Callback
    BY <2>3 DEF Callback, RtDrain, RtRead, RtStep
  <2>4. CASE DebounceElapses
    BY <2>4 DEF DebounceElapses
  <2> QED
    BY <2>1, <2>2, <2>3, <2>4
<1> QED
  BY <1>1, PhaseChangeNoEnd

LEMMA DeviceErrorEndsNothing == ASSUME NEW lost, DeviceError(lost) PROVE NoEnd(events')
<1>1. CASE debounced
  BY <1>1, PhaseChangeNoEnd DEF DeviceError
<1>2. CASE ~debounced /\ RebuildSeeking(lost)
  <2> DEFINE a == [type |-> "PhaseChanged", token |-> lastToken, phase |-> "Playing"]
  <2>1. a.type # "Ended"
    OBVIOUS
  <2>2. events' = (IF current.ended /\ HoldsAfter(lost) THEN <<a>> ELSE <<>>) \o PhaseChange
    BY <1>2 DEF RebuildSeeking
  <2> HIDE DEF a
  <2> QED
    BY <2>1, <2>2, OneAndPhaseChange
<1>3. CASE ~debounced /\ RebuildBare
  <2> DEFINE a == [type |-> "Error", token |-> current.token]
  <2>1. a.type # "Ended"
    OBVIOUS
  <2>2. events' = (IF current = None THEN <<>> ELSE <<a>>) \o PhaseChange
    BY <1>3 DEF RebuildBare
  <2> HIDE DEF a
  <2> QED
    BY <2>1, <2>2, OneAndPhaseChange
<1>4. CASE ~debounced /\ RebuildFails
  <2> DEFINE a == [type |-> "Error", token |-> lastToken]
  <2>1. a.type # "Ended"
    OBVIOUS
  <2>2. events' = PhaseChange \o <<a>>
    BY <1>4 DEF RebuildFails
  <2> HIDE DEF a
  <2> QED
    BY <2>1, <2>2, OneAndPhaseChange
<1> QED
  BY <1>1, <1>2, <1>3, <1>4 DEF DeviceError

LEMMA HandleEndsNothing == ASSUME Handle PROVE NoEnd(events')
<1> DEFINE e == [type |-> "Error", token |-> msg.token]
           l == [type |-> "Loaded", token |-> pending.token]
<1>1. e.type # "Ended" /\ l.type # "Ended"
  OBVIOUS
<1>2. CASE HandleLoad
  <2>1. events' = PhaseChange \/ events' = <<e>> \o PhaseChange
    BY <1>2 DEF HandleLoad
  <2> HIDE DEF e
  <2> QED
    BY <1>1, <2>1, OneAndPhaseChange, PhaseChangeNoEnd
<1>3. CASE HandleCancelPending \/ HandlePauseResume \/ HandleStop
  BY <1>3, PhaseChangeNoEnd DEF HandleCancelPending, HandlePauseResume, HandleStop
<1>4. CASE HandleSeek
  <2>1. CASE SeekAllowed(msg.token)
    BY <1>4, <2>1, PhaseChangeNoEnd DEF HandleSeek
  <2>2. CASE ~SeekAllowed(msg.token)
    BY <1>4, <2>2, PhaseChangeNoEnd DEF HandleSeek
  <2> QED
    BY <2>1, <2>2
<1>5. CASE StartFade \/ StartGapless \/ StartNow
  <2>1. events' = PhaseChange \o <<l>>
    BY <1>5 DEF StartFade, StartGapless, StartNow, StartFrame
  <2> HIDE DEF l
  <2> QED
    BY <1>1, <2>1, OneAndPhaseChange
<1>6. CASE StartFails
  <2>1. events' = <<e>> \o PhaseChange
    BY <1>6 DEF StartFails
  <2> HIDE DEF e
  <2> QED
    BY <1>1, <2>1, OneAndPhaseChange
<1>7. CASE StaleReady \/ HandleEof
  BY <1>7, PhaseChangeNoEnd DEF StaleReady, Ignore, HandleEof
<1>8. CASE HandleFailed
  <2>1. events' = <<>> \/ events' = <<>> \o PhaseChange \/ events' = <<e>> \o PhaseChange
    BY <1>8 DEF HandleFailed
  <2> HIDE DEF e
  <2> QED
    BY <1>1, <2>1, OneAndPhaseChange, PhaseChangeNoEnd
<1>9. CASE HandleDeviceError
  BY <1>9, DeviceErrorEndsNothing DEF HandleDeviceError
<1>10. CASE HandleDefaultDeviceChanged
  BY <1>10, DeviceErrorEndsNothing, PhaseChangeNoEnd DEF HandleDefaultDeviceChanged, Ignore
<1> QED
  BY <1>2, <1>3, <1>4, <1>5, <1>6, <1>7, <1>8, <1>9, <1>10 DEF Handle

LEMMA ReapEndsNothing == ASSUME Reap PROVE NoEnd(events')
<1> DEFINE a == [type |-> "TrackSwitched", token |-> current.token, from_token |-> fading.token]
           b == [type |-> "TrackSwitched", token |-> queued.token, from_token |-> current.token]
           A == {a, b, PhaseEvent}
<1>1. a.type # "Ended" /\ b.type # "Ended"
  OBVIOUS
<1>2. Switched(current, fading) = <<a>> /\ Switched(queued, current) = <<b>>
  BY DEF Switched
<1> HIDE DEF a, b
<1>3. /\ PhaseChange \in Seq(A) /\ <<>> \in Seq(A) /\ <<a>> \in Seq(A) /\ <<b>> \in Seq(A)
      /\ \A s, u \in Seq(A) : s \o u \in Seq(A)
      /\ \A s \in Seq(A) : NoEnd(s)
  BY <1>1, Chatter
<1>4. PICK s \in Seq(A), u \in Seq(A) : events' = s \o u \o PhaseChange
  BY <1>2, <1>3 DEF Reap
<1> QED
  BY <1>3, <1>4

\* What latch_drained announces is what the invariant knows of a drained ring.
LEMMA LatchHeard ==
  ASSUME Inv, Latch, NEW i \in DOMAIN events', events'[i].type = "Ended"
  PROVE  LET t == events'[i].token
         IN  /\ worker[t].state # "decoding"
             /\ worker[t].ring = want[t]
             /\ buffered[<<t, want[t]>>] = 0
<1> DEFINE a == [type |-> "Ended", token |-> current.token]
<1>1. DrainComplete
  BY PhaseChangeNoEnd DEF Latch, NoEnd
<1>2. events' = <<a>> \o PhaseChange
  BY <1>1 DEF Latch
<1>3. events'[i].token = current.token
  <2>1. PhaseChange = <<>> \/ PhaseChange = <<PhaseEvent>>
    BY DEF PhaseChange, PhaseEvent
  <2>2. PhaseEvent.type # "Ended" /\ a.token = current.token
    BY DEF PhaseEvent
  <2> HIDE DEF a, PhaseEvent
  <2>3. CASE PhaseChange = <<>>
    BY <1>2, <2>2, <2>3
  <2>4. CASE PhaseChange = <<PhaseEvent>>
    <3>1. <<a>> \in Seq({a, PhaseEvent}) /\ <<PhaseEvent>> \in Seq({a, PhaseEvent})
      OBVIOUS
    <3>2. /\ Len(events') = 2 /\ events' \in Seq({a, PhaseEvent})
          /\ events'[1] = a /\ events'[2] = PhaseEvent
      BY <1>2, <2>4, <3>1, ConcatProperties
    <3>3. i = 1 \/ i = 2
      BY <3>2
    <3> QED
      BY <2>2, <3>2, <3>3
  <2> QED
    BY <2>1, <2>3, <2>4
<1>4. current \in Session /\ current # None /\ Drained(RingOf(current))
  BY <1>1 DEF DrainComplete, Outlasts, Inv, Typed
<1> DEFINE t == current.token
           e == current.epoch
<1>5. want[t] = e /\ t \in Token /\ e \in Epoch /\ e \in Nat /\ RingOf(current) = <<t, e>>
  BY <1>4, SessionFields, Numbers DEF Inv, Sessions, Agrees, RingOf
<1>6. flag[<<t, e>>] /\ buffered[<<t, e>>] = 0
  BY <1>4, <1>5 DEF Drained
<1>7. AtEof(t, e, worker, want)
  BY <1>5, <1>6 DEF Inv, Eofs, EofsIn
<1>8. worker[t].ring = e /\ worker[t].state \in {"parked", "gone"}
  BY <1>5, <1>7 DEF AtEof
<1> QED
  BY <1>3, <1>5, <1>6, <1>8

\* An Ended tells the client that the track was heard to the end of its latest
\* seek: its worker is parked on that ring, or gone, and the ring is empty
\* (latch_drained, handle_eof, handle_seek), although the Eof may have been in
\* flight while the track was seeked.
THEOREM EndedIsHeard == Spec => EndedWasHeard
<1>1. ASSUME Inv, [Next]_vars
      PROVE  [\A i \in DOMAIN events' : events'[i].type = "Ended" =>
                LET t == events'[i].token
                IN  /\ worker[t].state # "decoding"
                    /\ worker[t].ring = want[t]
                    /\ buffered[<<t, want[t]>>] = 0]_vars
  <2>1. CASE NoEnd(events')
    BY <2>1 DEF NoEnd
  <2>2. CASE Latch
    BY <1>1, <2>2, LatchHeard
  <2>3. Timeout => NoEnd(events')
    BY PhaseChangeNoEnd DEF Timeout, Ignore
  <2>4. TickRebuild => NoEnd(events')
    BY DeviceErrorEndsNothing DEF TickRebuild
  <2> QED
    BY <1>1, <2>1, <2>2, <2>3, <2>4, OutsidersEndNothing, HandleEndsNothing, ReapEndsNothing
       DEF Next, Tick
<1> QED
  BY <1>1, InvHolds, PTL DEF Spec, EndedWasHeard
=============================================================================

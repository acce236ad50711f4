--------------------------- MODULE PlayedTheorems ---------------------------
(***************************************************************************)
(* What a played song leaves behind.                                       *)
(*                                                                         *)
(* That the daemon forgets no listen, for every list of services, cap,     *)
(* number of drains and bound of Scrobble; and that table and index of the *)
(* offline cache agree, for every set of songs, tasks and caps and every   *)
(* bound of OfflineCache (the second half).                                *)
(***************************************************************************)
EXTENDS Scrobble, OfflineCache, TLAPS

TaskStates == {"ahead", "playing", "submit", "queue", "over"}
DrainStates == {"idle", "begin", "next", "delete"}

TypeInv ==
    /\ held \subseteq Service
    /\ queue \subseteq Row
    /\ flow \in [Listen -> [at: TaskStates, left: SUBSET Service, ok: BOOLEAN,
                            now: Service \cup {None}]]
    /\ drain \in [Drains -> [at: DrainStates, creds: SUBSET Service, rows: SUBSET Row,
                             row: Row \cup {None}]]

\* The listens that have not been heard yet, so that nothing of them can be about.
Unheard == {l \in Listen : flow[l].at \in {"ahead", "playing"}}
\* The rows that are queued, read by a drain or just delivered by one.
About ==
    {r \in Row : \/ r \in queue
                 \/ \E d \in Drains : r \in drain[d].rows
                 \/ \E d \in Drains : drain[d].at = "delete" /\ drain[d].row = r}

\* NothingForgotten is not inductive.  A drain deletes the row it delivered a step
\* later: in between that row must not be owed (Delivered), which could only
\* come from the listen being heard after its row was about (HeardBefore).
Delivered ==
    \A d \in Drains : drain[d].at = "delete" => drain[d].row \in Row \ owed
HeardBefore == \A r \in About : r[1] \notin Unheard
QueuesNow == \A l \in Listen : flow[l].at = "queue" => flow[l].now \in flow[l].left

IInv == TypeInv /\ Delivered /\ HeardBefore /\ QueuesNow /\ NothingForgotten
-----------------------------------------------------------------------------
(* The tasks *)

\* A task takes the sign-ins of the moment.
LEMMA CommitKeeps ==
    ASSUME IInv, NEW l \in Listen, Commit(l)
    PROVE  IInv'
<1>1. /\ flow[l] = Ahead
      /\ flow' = [flow EXCEPT ![l].at = "playing", ![l].left = held]
      /\ UNCHANGED <<held, offline, queue, drain, owed, events>>
  BY DEF Commit
<1>2. TypeInv'
  BY ZenonT(30), <1>1 DEF IInv, TypeInv, TaskStates
<1>3. /\ Unheard' = Unheard
      /\ \A k \in Listen : Todo(k)' = Todo(k)
  <2>1. flow'[l].at = "playing" /\ flow[l].at = "ahead"
    BY <1>1 DEF IInv, TypeInv, Ahead
  <2>2. \A k \in Listen \ {l} : flow'[k] = flow[k]
    BY <1>1 DEF IInv, TypeInv
  <2>3. Unheard' = Unheard
    BY <2>1, <2>2 DEF Unheard
  <2>4. ASSUME NEW k \in Listen PROVE Todo(k)' = Todo(k)
    <3>1. CASE k = l
      BY <2>1, <3>1 DEF Todo
    <3>2. CASE k # l
      BY <2>2, <3>2 DEF Todo
    <3> QED BY <3>1, <3>2
  <2> QED BY <2>3, <2>4
<1>4. HeardBefore'
  BY <1>1, <1>3 DEF IInv, HeardBefore, About
<1>5. Delivered' /\ QueuesNow'
  BY <1>1 DEF IInv, TypeInv, Delivered, QueuesNow
<1>6. NothingForgotten'
  <2> SUFFICES ASSUME NEW r \in owed'
               PROVE  r \in queue \/ \E k \in Listen : r \in Todo(k)'
    BY <1>1 DEF NothingForgotten
  <2>1. r \in owed => r \in queue \/ \E k \in Listen : r \in Todo(k)
    BY DEF IInv, NothingForgotten
  <2> QED BY <1>1, <1>3, <2>1
<1> QED BY <1>2, <1>4, <1>5, <1>6 DEF IInv

\* The rows of a listen become owed when it is heard; none was about before.
LEMMA HeardKeeps ==
    ASSUME IInv, NEW l \in Listen, Heard(l)
    PROVE  IInv'
<1>1. /\ flow[l].at = "playing"
      /\ flow' = [flow EXCEPT ![l].at = "submit"]
      /\ owed' = owed \cup ({l} \X flow[l].left)
      /\ UNCHANGED <<held, offline, queue, drain, events>>
  BY DEF Heard
<1>2. TypeInv'
  BY <1>1 DEF IInv, TypeInv, TaskStates
<1>3. /\ Unheard' \subseteq Unheard
      /\ \A k \in Listen : Todo(k) \subseteq Todo(k)'
  BY <1>1 DEF IInv, TypeInv, Unheard, Todo
<1>4. {l} \X flow[l].left \subseteq Todo(l)'
  BY <1>1 DEF IInv, TypeInv, Todo
<1>5. Delivered'
  <2> SUFFICES ASSUME NEW d \in Drains, drain[d].at = "delete"
               PROVE  drain[d].row \in Row \ owed'
    BY <1>1 DEF Delivered
  <2>1. drain[d].row \in Row \ owed
    BY DEF IInv, Delivered
  <2>2. drain[d].row \in About
    BY <2>1 DEF About
  <2>3. drain[d].row[1] # l
    BY <1>1, <2>2 DEF IInv, HeardBefore, Unheard
  <2> QED BY <1>1, <2>1, <2>3
<1>6. HeardBefore'
  BY <1>1, <1>3 DEF IInv, HeardBefore, About
<1>7. QueuesNow'
  BY <1>1 DEF IInv, TypeInv, QueuesNow
<1>8. NothingForgotten'
  <2> SUFFICES ASSUME NEW r \in owed'
               PROVE  r \in queue \/ \E k \in Listen : r \in Todo(k)'
    BY <1>1 DEF NothingForgotten
  <2>1. r \in owed => r \in queue \/ \E k \in Listen : r \in Todo(k)
    BY DEF IInv, NothingForgotten
  <2> QED BY <1>1, <1>3, <1>4, <2>1
<1> QED BY <1>2, <1>5, <1>6, <1>7, <1>8 DEF IInv

\* What the steps of a task that was heard have in common: it lets go of the
\* rows it settles or queues, and of no others.
LEMMA TaskKeeps ==
    ASSUME IInv, NEW l \in Listen, NEW f,
           f \in [at: {"submit", "queue", "over"}, left: SUBSET Service, ok: BOOLEAN,
                  now: Service \cup {None}],
           f.at = "queue" => f.now \in f.left,
           l \notin Unheard \/ f = Over,
           flow' = [flow EXCEPT ![l] = f],
           queue' \subseteq queue \cup ({l} \X Service),
           queue' = queue \/ l \notin Unheard,
           owed' \subseteq owed,
           owed' \cap (queue \cup Todo(l)) \subseteq queue' \cup Todo(l)',
           drain' = drain \/ \E d \in Drains : drain' = [drain EXCEPT ![d] = ToBegin],
           held' = held
    PROVE  IInv'
<1>1. TypeInv'
  <2>1. queue' \subseteq Row
    BY DEF IInv, TypeInv, Row
  <2>2. flow' \in [Listen -> [at: TaskStates, left: SUBSET Service, ok: BOOLEAN,
                              now: Service \cup {None}]]
    BY DEF IInv, TypeInv, TaskStates
  <2>3. drain' \in [Drains -> [at: DrainStates, creds: SUBSET Service, rows: SUBSET Row,
                               row: Row \cup {None}]]
    BY DEF IInv, TypeInv, DrainStates, ToBegin, Idle
  <2> QED BY <2>1, <2>2, <2>3 DEF IInv, TypeInv
<1>2. \A k \in Listen \ {l} : flow'[k] = flow[k]
  BY DEF IInv, TypeInv
<1>3. flow'[l] = f
  BY DEF IInv, TypeInv
<1>4. \A d \in Drains : drain'[d] = drain[d] \/ drain'[d] = ToBegin
  BY DEF IInv, TypeInv
<1>5. Delivered'
  BY <1>4 DEF IInv, Delivered, ToBegin, Idle
<1>6. Unheard' \subseteq Unheard \ {l}
  BY <1>2, <1>3 DEF Unheard, Over
<1>7. HeardBefore'
  <2> SUFFICES ASSUME NEW r \in About', r[1] \in Unheard'
               PROVE  FALSE
    BY DEF HeardBefore
  <2>1. r[1] # l /\ r \notin About
    BY <1>6 DEF IInv, HeardBefore
  <2>2. r \notin queue'
    BY <2>1 DEF About, Row
  <2>3. \A d \in Drains : r \notin drain'[d].rows /\ ~(drain'[d].at = "delete" /\ drain'[d].row = r)
    BY <1>4, <2>1 DEF About, ToBegin, Idle
  <2> QED BY <2>2, <2>3 DEF About
<1>8. QueuesNow'
  BY <1>2, <1>3 DEF IInv, QueuesNow
<1>9. NothingForgotten'
  <2>1. \A k \in Listen \ {l} : Todo(k)' = Todo(k)
    BY <1>2 DEF Todo
  <2>2. \A k \in Listen : Todo(k) \subseteq {k} \X Service
    BY DEF Todo, IInv, TypeInv
  <2> SUFFICES ASSUME NEW r \in owed'
               PROVE  r \in queue' \/ \E k \in Listen : r \in Todo(k)'
    BY DEF NothingForgotten
  <2>3. r \in queue \/ \E k \in Listen : r \in Todo(k)
    BY DEF IInv, NothingForgotten
  <2> QED BY <2>1, <2>3
<1> QED BY <1>1, <1>5, <1>7, <1>8, <1>9 DEF IInv

LEMMA SubmitKeeps ==
    ASSUME IInv, NEW l \in Listen, Submit(l)
    PROVE  IInv'
<1>1. PICK s \in flow[l].left :
        /\ flow[l].at = "submit"
        /\ \/ /\ Accepted(<<l, s>>)
              /\ flow' = [flow EXCEPT ![l] = Onward(@, s, TRUE)]
           \/ /\ Unanswered(<<l, s>>)
              /\ flow' = [flow EXCEPT ![l].at = "queue", ![l].now = s]
           \/ /\ Denied(<<l, s>>)
              /\ flow' = [flow EXCEPT ![l] = Onward(@, s, FALSE)]
        /\ UNCHANGED <<held, offline, queue, drain>>
  BY DEF Submit
<1>2. flow[l] \in [at: {"submit"}, left: SUBSET Service, ok: BOOLEAN, now: Service \cup {None}]
  BY <1>1 DEF IInv, TypeInv
<1>3. l \notin Unheard
  BY <1>1 DEF Unheard
<1>4. CASE /\ Unanswered(<<l, s>>)
           /\ flow' = [flow EXCEPT ![l].at = "queue", ![l].now = s]
  <2> DEFINE f == [flow[l] EXCEPT !.at = "queue", !.now = s]
  <2>1. /\ f \in [at: {"submit", "queue", "over"}, left: SUBSET Service, ok: BOOLEAN,
                   now: Service \cup {None}]
        /\ f.now \in f.left
        /\ f.left = flow[l].left
        /\ f.at = "queue"
    BY <1>2
  <2>2. flow' = [flow EXCEPT ![l] = f]
    BY <1>4
  <2> HIDE DEF f
  <2>3. owed' \subseteq owed
    BY <1>4 DEF Unanswered, Settle
  <2>4. Todo(l)' = Todo(l)
    BY <1>1, <2>1, <2>2 DEF Todo, IInv, TypeInv
  <2> QED BY <1>1, <1>3, <2>1, <2>2, <2>3, <2>4, TaskKeeps
<1>5. CASE /\ Accepted(<<l, s>>) \/ Denied(<<l, s>>)
           /\ \E ok \in BOOLEAN : flow' = [flow EXCEPT ![l] = Onward(@, s, ok)]
  <2>1. PICK ok \in BOOLEAN : flow' = [flow EXCEPT ![l] = Onward(@, s, ok)]
    BY <1>5
  <2> DEFINE f == Onward(flow[l], s, ok)
  <2>2. /\ f \in [at: {"submit", "queue", "over"}, left: SUBSET Service, ok: BOOLEAN,
                   now: Service \cup {None}]
        /\ f.at = "submit"
        /\ f.left = flow[l].left \ {s}
    BY <1>2 DEF Onward
  <2>3. flow' = [flow EXCEPT ![l] = f]
    BY <2>1
  <2> HIDE DEF f
  <2>4. owed' = owed \ {<<l, s>>}
    BY <1>5 DEF Accepted, Denied, Settle
  <2>5. Todo(l) \subseteq Todo(l)' \cup {<<l, s>>}
    BY <1>1, <2>2, <2>3 DEF Todo, IInv, TypeInv
  <2> QED BY <1>1, <1>3, <2>2, <2>3, <2>4, <2>5, TaskKeeps
<1> QED BY <1>1, <1>4, <1>5

\* The push queues the row, and what it pushes out is not owed any more.
LEMMA EnqueueKeeps ==
    ASSUME IInv, NEW l \in Listen, Enqueue(l)
    PROVE  IInv'
<1> DEFINE s == flow[l].now
           r == <<l, s>>
           f == Onward(flow[l], s, FALSE)
<1>1. /\ flow[l].at = "queue"
      /\ \/ queue' = Pushed(r) /\ Settle(Overflow(queue \cup {r}))
         \/ Settle({r}) /\ queue' = queue
      /\ flow' = [flow EXCEPT ![l] = f]
      /\ UNCHANGED <<held, offline, drain>>
  BY DEF Enqueue
<1>2. /\ flow[l] \in [at: {"queue"}, left: SUBSET Service, ok: BOOLEAN, now: Service \cup {None}]
      /\ s \in Service /\ s \in flow[l].left
  BY <1>1 DEF IInv, TypeInv, QueuesNow
<1>3. /\ f \in [at: {"submit", "queue", "over"}, left: SUBSET Service, ok: BOOLEAN,
                 now: Service \cup {None}]
      /\ f.at = "submit"
      /\ f.left = flow[l].left \ {s}
  BY <1>2 DEF Onward
<1>4. l \notin Unheard
  BY <1>1 DEF Unheard
<1> HIDE DEF f, s
<1>5. Todo(l) \subseteq Todo(l)' \cup {r}
  BY <1>1, <1>3 DEF Todo, IInv, TypeInv
<1>6. /\ queue' \subseteq queue \cup {r}
      /\ owed' \subseteq owed
      /\ owed' \cap (queue \cup {r}) \subseteq queue'
  BY <1>1 DEF Pushed, Settle
<1>7. r \in {l} \X Service
  BY <1>2
<1> HIDE DEF r
<1> QED BY <1>1, <1>3, <1>4, <1>5, <1>6, <1>7, TaskKeeps

LEMMA OverKeeps ==
    ASSUME IInv, NEW l \in Listen, Skipped(l) \/ Finish(l)
    PROVE  IInv'
<1>1. /\ Over \in [at: {"submit", "queue", "over"}, left: SUBSET Service, ok: BOOLEAN,
                    now: Service \cup {None}]
      /\ Over.at = "over"
  BY DEF Over
<1>2. /\ flow' = [flow EXCEPT ![l] = Over]
      /\ UNCHANGED <<held, offline, queue, owed, events>>
      /\ drain' = drain \/ \E d \in Drains : drain' = [drain EXCEPT ![d] = ToBegin]
  BY DEF Skipped, Finish, Free
<1>3. Todo(l) = {}
  BY DEF Skipped, Finish, Todo
<1> QED BY <1>1, <1>2, <1>3, TaskKeeps
-----------------------------------------------------------------------------
(* The drains *)

\* What the steps of a drain have in common: it works on rows that were queued,
\* and takes out of the queue only what is not owed.
LEMMA DrainKeeps ==
    ASSUME IInv, NEW d \in Drains, NEW D,
           D \in [at: DrainStates, creds: SUBSET Service, rows: SUBSET Row, row: Row \cup {None}],
           D.rows \subseteq drain[d].rows \cup queue,
           D.at = "delete" => D.row \in (Row \ owed') \cap About,
           drain' = [drain EXCEPT ![d] = D],
           queue' \subseteq queue,
           owed' \subseteq owed,
           owed' \cap queue \subseteq queue',
           held' = held, flow' = flow
    PROVE  IInv'
<1>1. TypeInv'
  BY DEF IInv, TypeInv
<1>2. /\ drain'[d] = D
      /\ \A e \in Drains \ {d} : drain'[e] = drain[e]
  BY DEF IInv, TypeInv
<1>3. Delivered'
  BY <1>2 DEF IInv, Delivered
<1>4. About' \subseteq About
  <2> SUFFICES ASSUME NEW r \in About'
               PROVE  r \in About
    OBVIOUS
  <2>1. r \in Row
    BY DEF About
  <2>2. CASE r \in queue'
    BY <2>1, <2>2 DEF About
  <2>3. CASE \E e \in Drains : r \in drain'[e].rows \/ (drain'[e].at = "delete" /\ drain'[e].row = r)
    <3>1. PICK e \in Drains : r \in drain'[e].rows \/ (drain'[e].at = "delete" /\ drain'[e].row = r)
      BY <2>3
    <3>2. CASE e = d
      BY <1>2, <2>1, <3>1, <3>2 DEF About
    <3>3. CASE e # d
      BY <1>2, <2>1, <3>1, <3>3 DEF About
    <3> QED BY <3>2, <3>3
  <2> QED BY <2>2, <2>3 DEF About
<1>5. HeardBefore'
  BY <1>4 DEF IInv, HeardBefore, Unheard
<1>6. QueuesNow'
  BY DEF IInv, QueuesNow
<1>7. NothingForgotten'
  <2>1. \A l \in Listen : Todo(l)' = Todo(l)
    BY DEF Todo
  <2> QED BY <2>1 DEF IInv, NothingForgotten
<1> QED BY <1>1, <1>3, <1>5, <1>6, <1>7 DEF IInv

LEMMA BeginKeeps ==
    ASSUME IInv, NEW d \in Drains, Begin(d)
    PROVE  IInv'
<1>1. /\ \/ drain' = [drain EXCEPT ![d] = Idle]
         \/ drain' = [drain EXCEPT ![d] =
                [at |-> "next", creds |-> held, rows |-> queue, row |-> None]]
      /\ UNCHANGED <<held, queue, flow, owed>>
  BY DEF Begin
<1>2. CASE drain' = [drain EXCEPT ![d] = Idle]
  <2>1. /\ Idle \in [at: DrainStates, creds: SUBSET Service, rows: SUBSET Row, row: Row \cup {None}]
        /\ Idle.rows = {} /\ Idle.at = "idle"
    BY DEF Idle, DrainStates
  <2> QED BY <1>1, <1>2, <2>1, DrainKeeps
<1>3. CASE drain' = [drain EXCEPT ![d] =
                [at |-> "next", creds |-> held, rows |-> queue, row |-> None]]
  <2> DEFINE D == [at |-> "next", creds |-> held, rows |-> queue, row |-> None]
  <2>1. /\ D \in [at: DrainStates, creds: SUBSET Service, rows: SUBSET Row, row: Row \cup {None}]
        /\ D.rows = queue /\ D.at = "next"
    BY DEF DrainStates, IInv, TypeInv
  <2>2. drain' = [drain EXCEPT ![d] = D]
    BY <1>3
  <2> HIDE DEF D
  <2> QED BY <1>1, <2>1, <2>2, DrainKeeps
<1> QED BY <1>1, <1>2, <1>3

LEMMA ResubmitKeeps ==
    ASSUME IInv, NEW d \in Drains, Resubmit(d)
    PROVE  IInv'
<1>1. PICK r \in drain[d].rows :
        drain[d].at = "next" /\ Attempt(d, r) /\ UNCHANGED <<held, queue, flow>>
  BY DEF Resubmit
<1>2. /\ drain[d] \in [at: {"next"}, creds: SUBSET Service, rows: SUBSET Row, row: Row \cup {None}]
      /\ r \in Row
  BY <1>1 DEF IInv, TypeInv
<1>3. CASE /\ drain' = [drain EXCEPT ![d].rows = GiveUp(@, r[2])]
           /\ owed' \subseteq owed
  <2> DEFINE D == [drain[d] EXCEPT !.rows = GiveUp(@, r[2])]
  <2>1. /\ D \in [at: DrainStates, creds: SUBSET Service, rows: SUBSET Row, row: Row \cup {None}]
        /\ D.rows \subseteq drain[d].rows /\ D.at = "next"
    BY <1>2 DEF DrainStates, GiveUp
  <2>2. drain' = [drain EXCEPT ![d] = D]
    BY <1>3
  <2> HIDE DEF D
  <2>3. owed' \cap queue \subseteq queue'
    BY <1>1
  <2> QED BY <1>1, <1>3, <2>1, <2>2, <2>3, DrainKeeps
<1>4. CASE /\ drain' = [drain EXCEPT ![d].rows = @ \ {r}, ![d].at = "delete", ![d].row = r]
           /\ owed' = owed \ {r}
  <2> DEFINE D == [drain[d] EXCEPT !.rows = @ \ {r}, !.at = "delete", !.row = r]
  <2>1. /\ D \in [at: DrainStates, creds: SUBSET Service, rows: SUBSET Row, row: Row \cup {None}]
        /\ D.rows \subseteq drain[d].rows /\ D.at = "delete" /\ D.row = r
    BY <1>2 DEF DrainStates
  <2>2. drain' = [drain EXCEPT ![d] = D]
    BY <1>4
  <2> HIDE DEF D
  <2>3. r \in Row \ owed'
    BY <1>2, <1>4
  <2>4. r \in About
    BY <1>1, <1>2 DEF About
  <2> QED BY <1>1, <1>4, <2>1, <2>2, <2>3, <2>4, DrainKeeps
<1>5. \/ drain' = [drain EXCEPT ![d].rows = GiveUp(@, r[2])] /\ owed' \subseteq owed
      \/ /\ drain' = [drain EXCEPT ![d].rows = @ \ {r}, ![d].at = "delete", ![d].row = r]
         /\ owed' = owed \ {r}
  BY <1>1 DEF Attempt, Accepted, Denied, Unanswered, Settle
<1> QED BY <1>3, <1>4, <1>5

\* The row it deletes was settled when it was delivered, and nothing has made it
\* owed since.
LEMMA DeleteKeeps ==
    ASSUME IInv, NEW d \in Drains, Delete(d)
    PROVE  IInv'
<1> DEFINE D == [drain[d] EXCEPT !.at = "next", !.row = None]
<1>1. /\ drain[d].at = "delete"
      /\ queue' = queue \ {drain[d].row} \/ queue' = queue
      /\ drain' = [drain EXCEPT ![d] = D]
      /\ UNCHANGED <<held, flow, owed>>
  BY DEF Delete, Without
<1>2. drain[d].row \notin owed
  BY <1>1 DEF IInv, Delivered
<1>3. /\ D \in [at: DrainStates, creds: SUBSET Service, rows: SUBSET Row, row: Row \cup {None}]
      /\ D.rows = drain[d].rows /\ D.at = "next"
  BY DEF DrainStates, IInv, TypeInv
<1> HIDE DEF D
<1>4. owed' \cap queue \subseteq queue'
  BY <1>1, <1>2
<1> QED BY <1>1, <1>3, <1>4, DrainKeeps

LEMMA IdleKeeps ==
    ASSUME IInv, ListenOn \/ \E d \in Drains : Drained(d)
    PROVE  IInv'
<1>1. PICK d \in Drains, D \in {Idle, ToBegin} :
        drain' = [drain EXCEPT ![d] = D] /\ UNCHANGED <<held, queue, flow, owed>>
  BY DEF ListenOn, Drained, Free
<1>2. /\ D \in [at: DrainStates, creds: SUBSET Service, rows: SUBSET Row, row: Row \cup {None}]
      /\ D.rows = {} /\ D.at # "delete"
  BY DEF Idle, ToBegin, DrainStates
<1> QED BY <1>1, <1>2, DrainKeeps
-----------------------------------------------------------------------------
(* The surroundings *)

LEMMA SwitchKeeps ==
    ASSUME IInv, SwitchOffline \/ \E s \in Service : SwitchAccount(s)
    PROVE  IInv'
<1>1. UNCHANGED <<queue, flow, drain, owed>> /\ held' \subseteq Service
  BY DEF SwitchOffline, SwitchAccount, IInv, TypeInv
<1>2. TypeInv'
  BY <1>1 DEF IInv, TypeInv
<1>3. About' = About /\ Unheard' = Unheard /\ \A l \in Listen : Todo(l)' = Todo(l)
  BY <1>1 DEF About, Unheard, Todo
<1> QED
  BY <1>1, <1>2, <1>3 DEF IInv, Delivered, HeardBefore, QueuesNow, NothingForgotten

\* What the tasks had not come to is settled with them.
LEMMA RestartKeeps ==
    ASSUME IInv, Restart
    PROVE  IInv'
<1>1. /\ owed' = owed \ UNION {Todo(l) : l \in Listen}
      /\ flow' = [l \in Listen |-> IF flow[l] = Ahead THEN Ahead ELSE Over]
      /\ drain' = Starting
      /\ UNCHANGED <<held, queue>>
  BY DEF Restart, Settle
<1>2. \A d \in Drains : drain'[d] \in {Idle, ToBegin}
  BY <1>1 DEF Starting
<1>3. TypeInv'
  <2>1. {Ahead, Over} \subseteq [at: TaskStates, left: SUBSET Service, ok: BOOLEAN,
                                 now: Service \cup {None}]
    BY DEF Ahead, Over, TaskStates
  <2>2. {Idle, ToBegin} \subseteq [at: DrainStates, creds: SUBSET Service, rows: SUBSET Row,
                                   row: Row \cup {None}]
    BY DEF Idle, ToBegin, DrainStates
  <2>3. /\ flow' \in [Listen -> {Ahead, Over}]
        /\ drain' \in [Drains -> {Idle, ToBegin}]
    BY <1>1 DEF Starting
  <2> QED BY <1>1, <2>1, <2>2, <2>3 DEF IInv, TypeInv
<1>4. Delivered'
  BY <1>2 DEF Delivered, Idle, ToBegin
<1>5. HeardBefore'
  <2>1. About' \subseteq About
    BY <1>1, <1>2 DEF About, Idle, ToBegin
  <2>2. Unheard' \subseteq Unheard
    BY <1>1 DEF Unheard, Ahead, Over
  <2> QED BY <2>1, <2>2 DEF IInv, HeardBefore
<1>6. QueuesNow'
  BY <1>1 DEF QueuesNow, Ahead, Over
<1>7. NothingForgotten'
  BY <1>1 DEF IInv, NothingForgotten
<1> QED BY <1>3, <1>4, <1>5, <1>6, <1>7 DEF IInv
-----------------------------------------------------------------------------
LEMMA InitIsGood == Init => IInv
<1> SUFFICES ASSUME Init PROVE IInv
  OBVIOUS
<1>1. {Idle, ToBegin} \subseteq [at: DrainStates, creds: SUBSET Service, rows: SUBSET Row,
                                 row: Row \cup {None}]
  BY DEF Idle, ToBegin, DrainStates
<1>2. Ahead \in [at: TaskStates, left: SUBSET Service, ok: BOOLEAN, now: Service \cup {None}]
  BY DEF Ahead, TaskStates
<1>3. drain \in [Drains -> {Idle, ToBegin}]
  BY DEF Init, Starting
<1>4. TypeInv
  BY <1>1, <1>2, <1>3 DEF Init, TypeInv
<1>5. About = {} /\ Delivered
  BY <1>3 DEF Init, About, Delivered, Idle, ToBegin
<1> QED BY <1>4, <1>5 DEF Init, IInv, HeardBefore, QueuesNow, NothingForgotten, Ahead

LEMMA NextIsGood == IInv /\ [Next]_vars => IInv'
<1> SUFFICES ASSUME IInv, [Next]_vars PROVE IInv'
  OBVIOUS
<1>1. CASE UNCHANGED vars
  <2>1. UNCHANGED <<held, queue, flow, drain, owed>>
    BY <1>1 DEF vars
  <2>2. About' = About /\ Unheard' = Unheard /\ \A l \in Listen : Todo(l)' = Todo(l)
    BY <2>1 DEF About, Unheard, Todo
  <2> QED
    BY <2>1, <2>2 DEF IInv, TypeInv, Delivered, HeardBefore, QueuesNow, NothingForgotten
<1>2. CASE \E l \in Listen : Commit(l) \/ Task(l)
  BY <1>2, CommitKeeps, HeardKeeps, OverKeeps, SubmitKeeps, EnqueueKeeps DEF Task
<1>3. CASE \E d \in Drains : Draining(d)
  BY <1>3, BeginKeeps, ResubmitKeeps, DeleteKeeps, IdleKeeps DEF Draining
<1>4. CASE ListenOn
  BY <1>4, IdleKeeps
<1>5. CASE SwitchOffline \/ \E s \in Service : SwitchAccount(s)
  BY <1>5, SwitchKeeps
<1>6. CASE Restart
  BY <1>6, RestartKeeps
<1> QED BY <1>1, <1>2, <1>3, <1>4, <1>5, <1>6 DEF Next

\* Whatever goes wrong between tasks, drains, services and restarts, a heard
\* listen that no service has taken or refused is in the queue or with its task
\* (scrobbler.rs submit_flow, queue.rs drain, scrobble_queue.rs push).
THEOREM NoListenForgotten == Spec => []NothingForgotten
<1>1. IInv => NothingForgotten
  BY DEF IInv
<1> QED BY <1>1, InitIsGood, NextIsGood, PTL DEF Spec

-----------------------------------------------------------------------------
(* The offline cache.                                                        *)

Fields == {"at", "kind", "song", "songs"}
TasksAreRecords ==
    /\ DOMAIN task = Tasks
    /\ \A t \in Tasks : DOMAIN task[t] = Fields

\* A task holds the writer lock from its row write to the index update, and only
\* then; in between row and index differ by the songs it works on.
Holds(t) == task[t].at \in {"insert", "unmap"}
LockIsHeld == writer \in Tasks \cup {Nothing} /\ \A t \in Tasks : Holds(t) <=> writer = t
Touched(t) == IF task[t].at = "insert" THEN {task[t].song} ELSE task[t].songs
Halfway ==
    \A t \in Tasks : Holds(t) =>
       /\ \A k \in Songs \ torn : k \notin Touched(t) => (k \in rows <=> k \in kept)
       /\ task[t].at = "insert" => task[t].song \in rows
       /\ task[t].at = "unmap" => task[t].songs \cap rows = {}

\* IndexAgrees says nothing of the time in which the lock is held, and is not
\* inductive for that reason.
CacheInv == TasksAreRecords /\ LockIsHeld /\ Halfway /\ IndexAgrees
-----------------------------------------------------------------------------
\* A step that touches neither row nor index nor lock, of a task without the lock.
LEMMA QuietKeeps ==
    ASSUME CacheInv, NEW t \in Tasks, ~Holds(t),
           NEW X, DOMAIN X = Fields, X.at \notin {"insert", "unmap"},
           task' = [task EXCEPT ![t] = X],
           kept' = kept, rows' = rows, writer' = writer, torn \subseteq torn'
    PROVE  CacheInv'
<1>1. task'[t] = X /\ \A u \in Tasks \ {t} : task'[u] = task[u]
  BY DEF CacheInv, TasksAreRecords
<1>2. TasksAreRecords'
  BY <1>1 DEF CacheInv, TasksAreRecords
<1>3. \A u \in Tasks : Holds(u)' <=> Holds(u)
  BY <1>1 DEF Holds
<1>4. LockIsHeld'
  BY <1>3 DEF CacheInv, LockIsHeld
<1>5. Halfway'
  <2> SUFFICES ASSUME NEW u \in Tasks, Holds(u)'
               PROVE  /\ \A k \in Songs \ torn' : k \notin Touched(u)' => (k \in rows <=> k \in kept)
                      /\ task'[u].at = "insert" => task'[u].song \in rows
                      /\ task'[u].at = "unmap" => task'[u].songs \cap rows = {}
    BY DEF Halfway
  <2>1. u # t /\ task'[u] = task[u] /\ Holds(u) /\ Touched(u)' = Touched(u)
    BY <1>1 DEF Holds, Touched
  <2> QED BY <2>1 DEF CacheInv, Halfway
<1>6. IndexAgrees'
  BY DEF CacheInv, IndexAgrees
<1> QED BY <1>2, <1>4, <1>5, <1>6 DEF CacheInv

\* A step of nobody in particular.
LEMMA UntouchedKeeps ==
    ASSUME CacheInv, UNCHANGED <<task, kept, rows, writer, torn>>
    PROVE  CacheInv'
BY DEF CacheInv, TasksAreRecords, LockIsHeld, Halfway, IndexAgrees, Holds, Touched

\* The lock is taken with the row write, by a task that found it free.
LEMMA LockKeeps ==
    ASSUME CacheInv, NEW t \in Tasks, ~Holds(t), writer = Nothing,
           NEW X, DOMAIN X = Fields, X.at \in {"insert", "unmap"},
           task' = [task EXCEPT ![t] = X],
           kept' = kept, writer' = t, torn' = torn,
           X.at = "insert" => rows' = rows \cup {X.song},
           X.at = "unmap" => rows' = rows \ X.songs
    PROVE  CacheInv'
<1>1. task'[t] = X /\ \A u \in Tasks \ {t} : task'[u] = task[u]
  BY DEF CacheInv, TasksAreRecords
<1>2. TasksAreRecords'
  BY <1>1 DEF CacheInv, TasksAreRecords
<1>3. Holds(t)' /\ \A u \in Tasks \ {t} : ~Holds(u)'
  BY <1>1, NothingIsNoTask DEF Holds, CacheInv, LockIsHeld
<1>4. LockIsHeld'
  BY <1>3 DEF LockIsHeld
<1>5. \A k \in Songs \ torn : k \in rows <=> k \in kept
  BY DEF CacheInv, IndexAgrees
<1>6. Halfway'
  <2>1. CASE X.at = "insert"
    BY <1>1, <1>3, <1>5, <2>1 DEF Halfway, Touched
  <2>2. CASE X.at = "unmap"
    BY <1>1, <1>3, <1>5, <2>2 DEF Halfway, Touched
  <2> QED BY <2>1, <2>2
<1>7. IndexAgrees'
  BY NothingIsNoTask DEF IndexAgrees
<1> QED BY <1>2, <1>4, <1>6, <1>7 DEF CacheInv

\* The lock is let go with the index update, or by a task that dies with it.
LEMMA UnlockKeeps ==
    ASSUME CacheInv, NEW t \in Tasks, Holds(t),
           NEW X, DOMAIN X = Fields, X.at \notin {"insert", "unmap"},
           task' = [task EXCEPT ![t] = X],
           rows' = rows, writer' = Nothing, torn \subseteq torn',
           \/ Touched(t) \subseteq torn' /\ kept' = kept
           \/ task[t].at = "insert" /\ kept' = kept \cup {task[t].song}
           \/ task[t].at = "unmap" /\ kept' = kept \ task[t].songs
    PROVE  CacheInv'
<1>1. task'[t] = X /\ \A u \in Tasks \ {t} : task'[u] = task[u]
  BY DEF CacheInv, TasksAreRecords
<1>2. TasksAreRecords'
  BY <1>1 DEF CacheInv, TasksAreRecords
<1>3. \A u \in Tasks : ~Holds(u)'
  BY <1>1 DEF Holds, CacheInv, LockIsHeld
<1>4. LockIsHeld' /\ Halfway'
  BY <1>3, NothingIsNoTask DEF LockIsHeld, Halfway
<1>5. /\ \A k \in Songs \ torn : k \notin Touched(t) => (k \in rows <=> k \in kept)
      /\ task[t].at = "insert" => task[t].song \in rows
      /\ task[t].at = "unmap" => task[t].songs \cap rows = {}
  BY DEF CacheInv, Halfway
<1>6. IndexAgrees'
  <2> SUFFICES ASSUME NEW k \in Songs \ torn'
               PROVE  k \in rows <=> k \in kept'
    BY DEF IndexAgrees
  <2> QED BY <1>5 DEF Touched
<1> QED BY <1>2, <1>4, <1>6 DEF CacheInv
-----------------------------------------------------------------------------
LEMMA Records ==
    /\ DOMAIN NoTask = Fields /\ NoTask.at = "idle"
    /\ \A at, kind, song : DOMAIN Fill(at, kind, song) = Fields /\ Fill(at, kind, song).at = at
    /\ \A at, songs : DOMAIN Housework(at, songs) = Fields /\ Housework(at, songs).at = at
BY DEF NoTask, Fill, Housework, Fields

LEMMA Edited ==
    ASSUME CacheInv, NEW t \in Tasks, NEW at, NEW songs
    PROVE  LET X == [task[t] EXCEPT !.at = at]
               Y == [task[t] EXCEPT !.at = at, !.songs = songs]
           IN  /\ DOMAIN X = Fields /\ X.at = at
               /\ X.song = task[t].song /\ X.songs = task[t].songs
               /\ DOMAIN Y = Fields /\ Y.at = at
BY DEF CacheInv, TasksAreRecords, Fields

\* Tasks that are about to start, whatever for.
LEMMA StartKeeps ==
    ASSUME CacheInv, NEW t \in Tasks, task[t] = NoTask,
           NEW X, DOMAIN X = Fields, X.at \notin {"insert", "unmap"},
           task' = [task EXCEPT ![t] = X], UNCHANGED <<entries, disk, writer, ghosts>>
    PROVE  CacheInv'
<1>1. ~Holds(t)
  BY Records DEF Holds
<1>2. UNCHANGED <<kept, rows, writer, torn>>
  BY DEF entries, disk, ghosts
<1> QED BY <1>1, <1>2, QuietKeeps

LEMMA FillsKeep ==
    ASSUME CacheInv, NEW t \in Tasks, NEW k \in Songs, Capture(t, k) \/ Prefetch(t, k)
    PROVE  CacheInv'
<1>1. CASE UNCHANGED <<task, entries, disk, writer, ghosts>>
  BY <1>1, UntouchedKeeps DEF entries, disk, ghosts
<1>2. CASE /\ task[t] = NoTask
           /\ \E at \in {"stream", "wait"}, kind \in {"stream", "prefetch"} : task' = [task EXCEPT ![t] = Fill(at, kind, k)]
           /\ UNCHANGED <<entries, disk, writer, ghosts>>
  <2>1. PICK at \in {"stream", "wait"}, kind \in {"stream", "prefetch"} : task' = [task EXCEPT ![t] = Fill(at, kind, k)]
    BY <1>2
  <2> DEFINE X == Fill(at, kind, k)
  <2>2. DOMAIN X = Fields /\ X.at \notin {"insert", "unmap"}
    BY Records
  <2>3. task' = [task EXCEPT ![t] = X]
    BY <2>1
  <2> HIDE DEF X
  <2> QED BY <1>2, <2>2, <2>3, StartKeeps
<1>3. CASE Capture(t, k)
  BY <1>2, <1>3 DEF Capture, Go
<1>4. CASE Prefetch(t, k)
  BY <1>1, <1>2, <1>4 DEF Prefetch
<1> QED BY <1>3, <1>4

LEMMA HouseworkKeeps ==
    ASSUME CacheInv, NEW t \in Tasks,
           \/ \E songs : Forget(t, songs)
           \/ \E k \in Songs : Take(t, k)
           \/ SetLimits(t)
    PROVE  CacheInv'
<1>1. CASE \E songs : Forget(t, songs)
  <2>1. PICK songs : Forget(t, songs)
    BY <1>1
  <2> DEFINE X == Housework("remove", songs)
  <2>2. DOMAIN X = Fields /\ X.at = "remove"
    BY Records
  <2>3. /\ task[t] = NoTask /\ task' = [task EXCEPT ![t] = X]
        /\ UNCHANGED <<entries, disk, writer, ghosts>>
    BY <2>1 DEF Forget, Go
  <2> HIDE DEF X
  <2> QED BY <2>2, <2>3, StartKeeps
<1>2. CASE SetLimits(t)
  <2>1. CASE task' = task
    BY <1>2, <2>1, UntouchedKeeps DEF SetLimits, entries, disk, ghosts
  <2>2. CASE task' = [task EXCEPT ![t] = Housework("evict", {})]
    <3> DEFINE X == Housework("evict", {})
    <3>1. DOMAIN X = Fields /\ X.at = "evict" /\ task' = [task EXCEPT ![t] = X]
      BY <2>2, Records
    <3>2. task[t] = NoTask /\ UNCHANGED <<entries, disk, writer, ghosts>>
      BY <1>2 DEF SetLimits
    <3> HIDE DEF X
    <3> QED BY <3>1, <3>2, StartKeeps
  <2> QED BY <1>2, <2>1, <2>2 DEF SetLimits, Go
<1>3. CASE \E k \in Songs : Take(t, k)
  <2>1. PICK k \in Songs : Take(t, k)
    BY <1>3
  <2> DEFINE X == [Housework("remove", {k}) EXCEPT !.kind = IF k \in files THEN "take" ELSE @]
  <2>2. DOMAIN X = Fields /\ X.at = "remove"
    BY Records DEF Fields
  <2>3. /\ task[t] = NoTask /\ task' = [task EXCEPT ![t] = X]
        /\ UNCHANGED <<entries, disk, writer, ghosts>>
    BY <2>1 DEF Take, Go
  <2> HIDE DEF X
  <2> QED BY <2>2, <2>3, StartKeeps
<1> QED BY <1>1, <1>2, <1>3

LEMMA StoringKeeps ==
    ASSUME CacheInv, NEW t \in Tasks, Storing(t)
    PROVE  CacheInv'
<1>1. ASSUME ~Holds(t), NEW at \in {"fetch", "publish", "put"},
             \/ task' = [task EXCEPT ![t] = [task[t] EXCEPT !.at = at]]
             \/ task' = [task EXCEPT ![t] = NoTask],
             UNCHANGED <<kept, rows, writer, torn>>
      PROVE  CacheInv'
  <2> DEFINE X == [task[t] EXCEPT !.at = at]
  <2>1. DOMAIN X = Fields /\ X.at = at
    BY Edited
  <2>2. CASE task' = [task EXCEPT ![t] = X]
    <3> HIDE DEF X
    <3> QED BY <1>1, <2>1, <2>2, QuietKeeps
  <2>3. CASE task' = [task EXCEPT ![t] = NoTask]
    BY <1>1, <2>3, Records, QuietKeeps
  <2> QED BY <1>1, <2>2, <2>3
<1>2. CASE StreamsOver(t)
  BY <1>1, <1>2 DEF StreamsOver, Go, At, Holds, entries, disk, ghosts
<1>3. CASE Arrives(t)
  BY <1>1, <1>3 DEF Arrives, Go, End, At, Holds, entries, disk, ghosts
<1>4. CASE Publish(t)
  BY <1>1, <1>4 DEF Publish, Go, End, At, Holds, entries, ghosts
<1>5. CASE Put(t)
  <2>1. task[t].at = "put" /\ writer = Nothing /\ ~Holds(t) /\ kept' = kept /\ torn' = torn
    BY <1>5 DEF Put, At, Unlocked, Holds, entries, ghosts
  <2>2. CASE End(t) /\ UNCHANGED <<rows, writer>>
    BY <1>1, <2>1, <2>2 DEF End
  <2>3. CASE /\ rows' = rows \cup {task[t].song} /\ writer' = t
             /\ task' = [task EXCEPT ![t] = [task[t] EXCEPT !.at = "insert"]]
    <3> DEFINE X == [task[t] EXCEPT !.at = "insert"]
    <3>1. /\ DOMAIN X = Fields /\ X.at = "insert" /\ X.song = task[t].song
          /\ task' = [task EXCEPT ![t] = X]
      BY <2>3, Edited
    <3> HIDE DEF X
    <3> QED BY <2>1, <2>3, <3>1, LockKeeps
  <2> QED BY <1>5, <2>2, <2>3 DEF Put, Go
<1>6. CASE Insert(t)
  <2>1. /\ task[t].at = "insert" /\ kept' = kept \cup {task[t].song} /\ writer' = Nothing
        /\ task' = [task EXCEPT ![t] = [task[t] EXCEPT !.at = "evict"]]
        /\ rows' = rows /\ torn' = torn
    BY <1>6 DEF Insert, At, Newest, Go, disk, ghosts
  <2>2. Holds(t)
    BY <2>1 DEF Holds
  <2> DEFINE X == [task[t] EXCEPT !.at = "evict"]
  <2>3. DOMAIN X = Fields /\ X.at = "evict" /\ task' = [task EXCEPT ![t] = X]
    BY <2>1, Edited
  <2> HIDE DEF X
  <2> QED BY <2>1, <2>2, <2>3, UnlockKeeps
<1> QED BY <1>2, <1>3, <1>4, <1>5, <1>6 DEF Storing

LEMMA DroppingKeeps ==
    ASSUME CacheInv, NEW t \in Tasks, Dropping(t)
    PROVE  CacheInv'
<1>1. ASSUME ~Holds(t), task' = [task EXCEPT ![t] = NoTask], UNCHANGED <<kept, rows, writer, torn>>
      PROVE  CacheInv'
  BY <1>1, Records, QuietKeeps
<1>2. CASE Evict(t)
  <2>1. ~Holds(t) /\ UNCHANGED <<kept, rows, writer, torn>>
    BY <1>2 DEF Evict, At, Holds, entries, disk
  <2>2. \/ task' = [task EXCEPT ![t] = NoTask]
        \/ \E songs : task' = [task EXCEPT ![t] = [task[t] EXCEPT !.at = "remove", !.songs = songs]]
    BY <1>2 DEF Evict, Go, End
  <2>3. ASSUME NEW songs,
               task' = [task EXCEPT ![t] = [task[t] EXCEPT !.at = "remove", !.songs = songs]]
        PROVE  CacheInv'
    <3> DEFINE X == [task[t] EXCEPT !.at = "remove", !.songs = songs]
    <3>1. DOMAIN X = Fields /\ X.at = "remove" /\ task' = [task EXCEPT ![t] = X]
      BY <2>3, Edited
    <3> HIDE DEF X
    <3> QED BY <2>1, <3>1, QuietKeeps
  <2> QED BY <1>1, <2>1, <2>2, <2>3
<1>3. CASE Unlist(t)
  <2>1. task[t].at = "remove" /\ writer = Nothing /\ ~Holds(t) /\ kept' = kept /\ torn' = torn
    BY <1>3 DEF Unlist, At, Unlocked, Holds, entries
  <2>2. CASE End(t) /\ UNCHANGED <<rows, writer>>
    BY <1>1, <2>1, <2>2 DEF End
  <2>3. CASE /\ rows' = rows \ task[t].songs /\ writer' = t
             /\ task' = [task EXCEPT ![t] = [task[t] EXCEPT !.at = "unmap"]]
    <3> DEFINE X == [task[t] EXCEPT !.at = "unmap"]
    <3>1. /\ DOMAIN X = Fields /\ X.at = "unmap" /\ X.songs = task[t].songs
          /\ task' = [task EXCEPT ![t] = X]
      BY <2>3, Edited
    <3> HIDE DEF X
    <3> QED BY <2>1, <2>3, <3>1, LockKeeps
  <2> QED BY <1>3, <2>2, <2>3 DEF Unlist, Go
<1>4. CASE Unmap(t)
  <2>1. PICK songs :
          /\ task[t].at = "unmap" /\ kept' = kept \ task[t].songs /\ writer' = Nothing
          /\ task' = [task EXCEPT ![t] = [task[t] EXCEPT !.at = "unlink", !.songs = songs]]
          /\ rows' = rows /\ torn' = torn
    BY <1>4 DEF Unmap, At, Drop, Go, disk, ghosts
  <2>2. Holds(t)
    BY <2>1 DEF Holds
  <2> DEFINE X == [task[t] EXCEPT !.at = "unlink", !.songs = songs]
  <2>3. DOMAIN X = Fields /\ X.at = "unlink" /\ task' = [task EXCEPT ![t] = X]
    BY <2>1, Edited
  <2> HIDE DEF X
  <2> QED BY <2>1, <2>2, <2>3, UnlockKeeps
<1>5. CASE Unlink(t)
  BY <1>1, <1>5 DEF Unlink, End, At, Holds, entries, ghosts
<1> QED BY <1>2, <1>3, <1>4, <1>5 DEF Dropping

\* One that dies with the lock tears the songs it worked on, and no others.
LEMMA DiesKeeps ==
    ASSUME CacheInv, NEW t \in Tasks, Dies(t)
    PROVE  CacheInv'
<1>1. /\ task' = [task EXCEPT ![t] = NoTask]
      /\ kept' = kept /\ rows' = rows
      /\ torn \subseteq torn'
      /\ writer' = IF writer = t THEN Nothing ELSE writer
      /\ Holds(t) => Touched(t) \subseteq torn'
  BY DEF Dies, At, Holds, Touched, entries, disk
<1>2. Holds(t) <=> writer = t
  BY DEF CacheInv, LockIsHeld
<1>3. CASE Holds(t)
  BY <1>1, <1>2, <1>3, Records, UnlockKeeps
<1>4. CASE ~Holds(t)
  BY <1>1, <1>2, <1>4, Records, QuietKeeps
<1> QED BY <1>3, <1>4

LEMMA OutsideKeeps ==
    ASSUME CacheInv, Written \/ \E k \in Songs : Played(k) \/ Vanishes(k)
    PROVE  CacheInv'
<1>1. UNCHANGED <<task, kept, rows, writer, torn>>
  BY DEF Written, Played, Newest, Vanishes, entries, disk, ghosts
<1> QED BY <1>1, UntouchedKeeps

LEMMA ReloadKeeps ==
    ASSUME CacheInv, Reload
    PROVE  CacheInv'
<1>1. rows' = kept' /\ writer' = Nothing /\ task' = [t \in Tasks |-> NoTask]
  BY DEF Reload
<1>2. TasksAreRecords' /\ \A t \in Tasks : ~Holds(t)'
  BY <1>1, Records DEF TasksAreRecords, Holds
<1> QED BY <1>1, <1>2, NothingIsNoTask DEF CacheInv, LockIsHeld, Halfway, IndexAgrees
-----------------------------------------------------------------------------
LEMMA CacheInitIsGood == CacheInit => CacheInv
<1> SUFFICES ASSUME CacheInit PROVE CacheInv
  OBVIOUS
<1>1. TasksAreRecords /\ \A t \in Tasks : ~Holds(t)
  BY Records DEF CacheInit, TasksAreRecords, Holds
<1> QED BY <1>1, NothingIsNoTask DEF CacheInit, CacheInv, LockIsHeld, Halfway, IndexAgrees

LEMMA CacheNextIsGood == CacheInv /\ [CacheNext]_cacheVars => CacheInv'
<1> SUFFICES ASSUME CacheInv, [CacheNext]_cacheVars PROVE CacheInv'
  OBVIOUS
<1>1. CASE UNCHANGED cacheVars
  BY <1>1, UntouchedKeeps DEF cacheVars
<1>2. CASE \E t \in Tasks : Storing(t) \/ Dropping(t) \/ Dies(t)
  BY <1>2, StoringKeeps, DroppingKeeps, DiesKeeps
<1>3. CASE \E t \in Tasks, k \in Songs : Capture(t, k) \/ Prefetch(t, k) \/ Take(t, k)
  BY <1>3, FillsKeep, HouseworkKeeps
<1>4. CASE \E t \in Tasks : Clear(t) \/ ForgetSource(t) \/ Missed(t) \/ SetLimits(t)
  BY <1>4, HouseworkKeeps DEF Clear, ForgetSource, Missed
<1>5. CASE Written \/ \E k \in Songs : Played(k) \/ Vanishes(k)
  BY <1>5, OutsideKeeps
<1>6. CASE Reload
  BY <1>6, ReloadKeeps
<1> QED BY <1>1, <1>2, <1>3, <1>4, <1>5, <1>6 DEF CacheNext

\* Whenever the writer lock is free, the table and the index name the same songs,
\* but for those that an aborted prefetch left half done (offline_cache.rs
\* store_at, forget, take and the lock they share).
THEOREM TableAndIndexAgree == CacheSpec => []IndexAgrees
<1>1. CacheInv => IndexAgrees
  BY DEF CacheInv
<1> QED BY <1>1, CacheInitIsGood, CacheNextIsGood, PTL DEF CacheSpec
=============================================================================

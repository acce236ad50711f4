------------------------------ MODULE Scrobble ------------------------------
(***************************************************************************)
(* Scrobbling (daemon/core/src/scrobbler.rs) and its retry queue             *)
(* (daemon/scrobble/src/queue.rs, daemon/db/src/backend/scrobble_queue.rs): *)
(* every committed track has a task that submits the listen to each service  *)
(* in turn and queues it where that failed for want of an answer; drains     *)
(* submit the queue again, one at start and one after each task that got      *)
(* through to somebody.  Nothing keeps two drains apart.                     *)
(*                                                                         *)
(* Services are down, refuse, record a listen whose answer is lost; sign-ins *)
(* and offline mode change and the daemon dies, all at any point.  A listen  *)
(* is the time it started at, so a later one is a larger number.  The track  *)
(* server's own scrobbles and now-playing announcements are not retried and  *)
(* not modelled.                                                            *)
(***************************************************************************)
EXTENDS Naturals, Sequences, FiniteSets

CONSTANTS
    Services,      \* a sequence, in the order a task submits to them
    MaxListens,    \* bound: listens followed from commit to delivery
    Cap,           \* MAX_QUEUED_LISTENS
    Drains,        \* tasks draining the queue; bound: how many overlap
    Dead,          \* services that never answer
    MaxEvents,     \* bound: outages, failed writes, refusals, switches, crashes
    None

Service == {Services[i] : i \in DOMAIN Services}
Listen == 1 .. MaxListens
Row == Listen \X Service

ASSUME ScrobbleBounds ==
    /\ MaxListens \in Nat /\ Cap \in Nat \ {0} /\ MaxEvents \in Nat
    /\ Dead \subseteq Service

VARIABLES
    held,       \* services somebody is signed in to
    offline,    \* offline mode: no request leaves the daemon
    queue,      \* the scrobble_queue table
    flow,       \* the task of each listen
    drain,      \* the drains under way
    owed,       \* heard long enough, and no service has taken or refused it,
                \* nor has the cap, a failed write or a crash cost it
    events

vars == <<held, offline, queue, flow, drain, owed, events>>

\* left: the sign-ins a task holds, then what is left of them to submit to;
\* now: the service that gave no answer.
Ahead == [at |-> "ahead", left |-> {}, ok |-> FALSE, now |-> None]
Over == [at |-> "over", left |-> {}, ok |-> FALSE, now |-> None]
\* creds, rows: what a drain read when it began; row: the one delivered last.
Idle == [at |-> "idle", creds |-> {}, rows |-> {}, row |-> None]
ToBegin == [Idle EXCEPT !.at = "begin"]

\* boot.rs drains once at start: the task is there and has yet to look.
Starting == [d \in Drains |-> IF d = CHOOSE x \in Drains : TRUE THEN ToBegin ELSE Idle]

Init ==
    /\ held = Service /\ offline = FALSE
    /\ queue = {} /\ owed = {}
    /\ flow = [l \in Listen |-> Ahead]
    /\ drain = Starting
    /\ events = 0

Event == events < MaxEvents /\ events' = events + 1
-----------------------------------------------------------------------------
\* What a service does with a submission: takes it (again, if it already has
\* it), gives no answer, though it may have taken it, or refuses it for good.
Reaches(s) == ~offline /\ s \notin Dead
Settle(rows) == owed' = owed \ rows
Accepted(r) == Reaches(r[2]) /\ Settle({r}) /\ UNCHANGED events
Unanswered(r) ==
    \/ ~Reaches(r[2]) /\ UNCHANGED <<owed, events>>
    \/ Reaches(r[2]) /\ Event /\ \E taken \in {{}, {r}} : Settle(taken)
Denied(r) == Reaches(r[2]) /\ Event /\ Settle({r})
-----------------------------------------------------------------------------
\* track_committed: the task holds the sign-ins of this moment.
Commit(l) ==
    /\ flow[l] = Ahead
    /\ \A k \in Listen : k < l => flow[k] # Ahead
    /\ flow' = [flow EXCEPT ![l].at = "playing", ![l].left = held]
    /\ UNCHANGED <<held, offline, queue, drain, owed, events>>

\* wait_for_playtime: the track was heard long enough; or it gave way to another
\* before, is under 30 seconds long or has no artist or title.
Heard(l) ==
    /\ flow[l].at = "playing"
    /\ flow' = [flow EXCEPT ![l].at = "submit"]
    /\ owed' = owed \cup ({l} \X flow[l].left)
    /\ UNCHANGED <<held, offline, queue, drain, events>>
Skipped(l) ==
    /\ flow[l].at = "playing"
    /\ flow' = [flow EXCEPT ![l] = Over]
    /\ UNCHANGED <<held, offline, queue, drain, owed, events>>

\* submit_flow goes through the services in the order the code names them.
InTurn(s, left) ==
    \E i \in DOMAIN Services : Services[i] = s /\ \A j \in 1 .. (i - 1) : Services[j] \notin left
Onward(f, s, ok) ==
    [at |-> "submit", left |-> f.left \ {s}, ok |-> f.ok \/ ok, now |-> None]
\* A submission of the task itself; a permanent error is logged and that is all.
Submit(l) ==
    /\ flow[l].at = "submit"
    /\ \E s \in flow[l].left :
          /\ InTurn(s, flow[l].left)
          /\ \/ /\ Accepted(<<l, s>>)
                /\ flow' = [flow EXCEPT ![l] = Onward(@, s, TRUE)]
             \/ /\ Unanswered(<<l, s>>)
                /\ flow' = [flow EXCEPT ![l].at = "queue", ![l].now = s]
             \/ /\ Denied(<<l, s>>)
                /\ flow' = [flow EXCEPT ![l] = Onward(@, s, FALSE)]
    /\ UNCHANGED <<held, offline, queue, drain>>

Listens(rows) == {r[1] : r \in rows}
\* scrobble_queue_push, in one transaction: upsert, then keep the
\* newest listens.
Overflow(rows) == {r \in rows : Cardinality({l \in Listens(rows) : l > r[1]}) >= Cap}
Pushed(r) == LET rows == queue \cup {r} IN rows \ Overflow(rows)

\* enqueue: a write that fails is logged, and the listen is gone.
Enqueue(l) ==
    /\ flow[l].at = "queue"
    /\ LET r == <<l, flow[l].now>>
       IN  \/ /\ queue' = Pushed(r)
              /\ Settle(Overflow(queue \cup {r}))
              /\ UNCHANGED events
           \/ Event /\ Settle({r}) /\ UNCHANGED queue
    /\ flow' = [flow EXCEPT ![l] = Onward(@, @.now, FALSE)]
    /\ UNCHANGED <<held, offline, drain>>

Free == {d \in Drains : drain[d] = Idle}

\* The task is through; it drains the queue if somebody took the listen.
Finish(l) ==
    /\ flow[l].at = "submit" /\ flow[l].left = {}
    /\ flow' = [flow EXCEPT ![l] = Over]
    /\ IF flow[l].ok
       THEN \E d \in Free : drain' = [drain EXCEPT ![d] = ToBegin]
       ELSE UNCHANGED drain
    /\ UNCHANGED <<held, offline, queue, owed, events>>

\* People go on listening: the task of a listen that is not followed here gets
\* through to a service and drains the queue, as Finish does.
ListenOn ==
    /\ \E s \in held : Reaches(s)
    /\ queue # {} /\ Free = Drains
    /\ \E d \in Free : drain' = [drain EXCEPT ![d] = ToBegin]
    /\ UNCHANGED <<held, offline, queue, flow, owed, events>>
-----------------------------------------------------------------------------
\* drain_queue and the start of drain: nothing in offline mode or when the
\* table cannot be read; otherwise the sign-ins and the rows of this moment.
Begin(d) ==
    /\ drain[d].at = "begin"
    /\ \/ offline /\ drain' = [drain EXCEPT ![d] = Idle] /\ UNCHANGED events
       \/ /\ ~offline /\ UNCHANGED events
          /\ drain' = [drain EXCEPT ![d] =
                [at |-> "next", creds |-> held, rows |-> queue, row |-> None]]
       \/ ~offline /\ Event /\ drain' = [drain EXCEPT ![d] = Idle]
    /\ UNCHANGED <<held, offline, queue, flow, owed>>

\* Mutant: an unanswered submission ends the whole drain.
GiveUpAll(rows, s) == {}
\* give_up: the rows of a service that did not answer are passed over.
GiveUp(rows, s) == {r \in rows : r[2] # s}

Attempt(d, r) ==
    LET D == drain[d]
    IN  \/ /\ r[2] \notin D.creds
           /\ drain' = [drain EXCEPT ![d].rows = GiveUp(@, r[2])]
           /\ UNCHANGED <<owed, events>>
        \/ /\ r[2] \in D.creds /\ Unanswered(r)
           /\ drain' = [drain EXCEPT ![d].rows = GiveUp(@, r[2])]
        \/ /\ r[2] \in D.creds /\ (Accepted(r) \/ Denied(r))
           /\ drain' = [drain EXCEPT ![d].rows = @ \ {r}, ![d].at = "delete", ![d].row = r]

\* One row: submit_one and what its outcome leads to.
Resubmit(d) ==
    /\ drain[d].at = "next"
    /\ \E r \in drain[d].rows : (\A q \in drain[d].rows : r[1] <= q[1]) /\ Attempt(d, r)
    /\ UNCHANGED <<held, offline, queue, flow>>

\* Mutant: the row is deleted for every service.
WithoutListen(r) == {q \in queue : q[1] # r[1]}
\* scrobble_queue_delete names the listen and the service.
Without(r) == queue \ {r}

\* The delivered row goes before the next is submitted; a delete that fails is
\* logged, and the row is sent again some day.
Delete(d) ==
    /\ drain[d].at = "delete"
    /\ \/ queue' = Without(drain[d].row) /\ UNCHANGED events
       \/ Event /\ UNCHANGED queue
    /\ drain' = [drain EXCEPT ![d].at = "next", ![d].row = None]
    /\ UNCHANGED <<held, offline, flow, owed>>

Drained(d) ==
    /\ drain[d].at = "next" /\ drain[d].rows = {}
    /\ drain' = [drain EXCEPT ![d] = Idle]
    /\ UNCHANGED <<held, offline, queue, flow, owed, events>>
-----------------------------------------------------------------------------
\* Signing in and out, offline mode on and off.
SwitchAccount(s) ==
    /\ Event
    /\ held' = IF s \in held THEN held \ {s} ELSE held \cup {s}
    /\ UNCHANGED <<offline, queue, flow, drain, owed>>
SwitchOffline ==
    /\ Event /\ offline' = ~offline
    /\ UNCHANGED <<held, queue, flow, drain, owed>>

\* What a task has still to see to.
Todo(l) == IF flow[l].at \in {"submit", "queue"} THEN {l} \X flow[l].left ELSE {}

\* Tasks and drains die with the daemon; the table stays, and the next start
\* drains it.  What a task had not come to is nowhere.
Restart ==
    /\ Event
    /\ Settle(UNION {Todo(l) : l \in Listen})
    /\ flow' = [l \in Listen |-> IF flow[l] = Ahead THEN Ahead ELSE Over]
    /\ drain' = Starting
    /\ UNCHANGED <<held, offline, queue>>

Task(l) == Heard(l) \/ Skipped(l) \/ Submit(l) \/ Enqueue(l) \/ Finish(l)
Draining(d) == Begin(d) \/ Resubmit(d) \/ Delete(d) \/ Drained(d)

Next ==
    \/ \E l \in Listen : Commit(l) \/ Task(l)
    \/ \E d \in Drains : Draining(d)
    \/ ListenOn
    \/ \E s \in Service : SwitchAccount(s)
    \/ SwitchOffline
    \/ Restart

Spec == Init /\ [][Next]_vars
FairSpec ==
    /\ Spec
    /\ \A d \in Drains : WF_vars(Draining(d))
    /\ WF_vars(ListenOn)
-----------------------------------------------------------------------------
\* A listen that no service has taken or refused yet is in the queue or still
\* with its task, unless the cap, a failed write or a crash cost it: no lost
\* answer, delivery to another service, second drain or sign-out makes the
\* daemon forget it.
NothingForgotten == owed \subseteq queue \cup UNION {Todo(l) : l \in Listen}

\* A queued listen leaves the queue while its service can be reached, whatever
\* the other services do (queue.rs: delivering one never blocks the others).
RowsLeave ==
    \A r \in Row : r[2] \notin Dead =>
        (r \in queue ~> (r \notin queue \/ r[2] \notin held \/ offline))
=============================================================================

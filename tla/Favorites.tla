------------------------------ MODULE Favorites ------------------------------
(***************************************************************************)
(* The favorites service (daemon/core/src/favorites) over the favorites    *)
(* table (daemon/db): optimistic toggles, and the syncs that push what is  *)
(* pending and then import what the remote holds.                          *)
(*                                                                         *)
(* A toggle writes its row, asks the remote and takes the row back when it *)
(* is refused; toggles run beside each other and beside a sync.  Syncs run *)
(* one at a time under the `flight` lock: the background reconciler, the   *)
(* favorites job and the playlist job all call `sync`, and one that waited *)
(* may take the outcome of the run it waited for.  Every database call and *)
(* every request is one step.  Other devices edit the remote, the listener *)
(* switches source, the daemon dies and starts again with what its tables  *)
(* hold.  The database does not fail; wake-ups, backoff, notices and the   *)
(* library rows of the imported tracks are left out.                       *)
(***************************************************************************)
EXTENDS Integers, FiniteSets

CONSTANTS
    Sources,     \* servers that can be the active source
    Paginated,   \* those whose favorites are walked a page at a time
    Keys,        \* tracks; the remote's list is in one order, a track a page
    Togglers,    \* client calls in progress at once
    Callers,     \* tasks that call `sync`
    None,
    Events,      \* bound: what else happens: "toggle", "device", "switch", "crash"
    MaxEvents,   \* bound: how much of it
    MaxCalls     \* bound: calls of `sync`

Imports == {"Always", "UnlessRecent", "IfMissing"}
Marks == {"none", "clean", "like", "unlike"}

ASSUME FavoritesBounds ==
    /\ Paginated \subseteq Sources
    /\ None \notin Keys \cup Sources
    /\ Events \subseteq {"toggle", "device", "switch", "crash"}
    /\ {MaxEvents, MaxCalls} \subseteq Nat

VARIABLES
    active,   \* the active source
    row,      \* favorites table: the dirty mark of each source's track
              \* ("like": 1, "unlike": 2, "clean": 0, "none": no row)
    remote,   \* what each server holds
    stamp,    \* sources with a "synced:favorites" time
    toggle,   \* the client call each toggler is in
    caller,   \* the call of `sync` each task is in
    started,  \* syncs started
    flight,   \* the last sync to finish
    work,     \* the sync that holds the lock
    calm,     \* ours: nothing but this sync has touched a row, a remote or
              \* the active source since it started
    imports,  \* ours: imports that went through
    calls,    \* calls of `sync` so far
    events    \* other events so far

bounds == <<calls, events>>
vars == <<active, row, remote, stamp, toggle, caller, started, flight, work,
          calm, imports, bounds>>

\* set_favorite and clear_favorite_dirty, on one row.
Set(mark, on) == CASE on -> "like"
                   [] mark = "like" -> "none"
                   [] mark = "clean" -> "unlike"
                   [] OTHER -> mark
Cleared(mark) == CASE mark = "like" -> "clean"
                   [] mark = "unlike" -> "none"
                   [] OTHER -> mark
IsFavorite(src, k) == row[src][k] \in {"clean", "like"}
Pending(src, mark) == {k \in Keys : row[src][k] = mark}

\* Mutant: the replacement forgets that some rows are pending.
ReplacedAll(rows, held) == [k \in Keys |-> IF k \in held THEN "clean" ELSE "none"]
\* replace_favorites_clean: only clean rows go.
Replaced(rows, held) ==
    [k \in Keys |-> CASE rows[k] = "none" /\ k \in held -> "clean"
                      [] rows[k] = "clean" /\ k \notin held -> "none"
                      [] OTHER -> rows[k]]
\* upsert_favorites_page, for a page that holds k.
Upserted(rows, k) == [rows EXCEPT ![k] = IF @ = "none" THEN "clean" ELSE @]
\* Mutant: the walk ends without its sweep.
SweptNothing(rows, stamped) == rows
\* sweep_favorites: clean rows the walk did not stamp.
Swept(rows, stamped) ==
    [k \in Keys |-> IF rows[k] = "clean" /\ k \notin stamped THEN "none" ELSE rows[k]]

\* push_favorite, as the remote takes it.
Told(src, k, on) ==
    remote' = [remote EXCEPT ![src] = IF on THEN @ \cup {k} ELSE @ \ {k}]

NoToggle == [at |-> "idle", first |-> "local", src |-> None, key |-> None,
             want |-> FALSE, tried |-> FALSE]
NoCall == [at |-> "idle", import |-> "IfMissing", joined |-> 0, asked |-> 0]
NoWork == [at |-> "none", import |-> "IfMissing", run |-> 0, src |-> None, due |-> FALSE,
           likes |-> {}, unlikes |-> {}, key |-> None, liked |-> {}, unliked |-> {},
           fetched |-> {}, reconciled |-> "ok", from |-> None, pages |-> {}, stamped |-> {}]

\* One source has been in use; the others have just been signed in to.
Init ==
    /\ active \in Sources
    /\ \E rows \in [Keys -> Marks], held \in SUBSET Keys :
        /\ row = [src \in Sources |-> IF src = active THEN rows ELSE [k \in Keys |-> "none"]]
        /\ remote = [src \in Sources |-> IF src = active THEN held ELSE {}]
    /\ stamp \in SUBSET {active}
    /\ toggle = [t \in Togglers |-> NoToggle]
    /\ caller = [c \in Callers |-> NoCall]
    /\ started = 0
    /\ flight = [finished |-> 0, imported |-> FALSE, outcome |-> "ok"]
    /\ work = NoWork
    /\ calm = TRUE
    /\ imports = 0
    /\ calls = 0
    /\ events = 0

Happens(event) == event \in Events /\ events < MaxEvents /\ events' = events + 1

\* A row was written by somebody else than the walk: a row that went lost its
\* stamp, and the sync is no longer alone.
Disturbed ==
    /\ calm' = (work.at = "none")
    /\ work' = [work EXCEPT !.stamped =
                    IF work.from = None THEN {} ELSE {k \in @ : row'[work.from][k] # "none"}]

SetRow(src, k, mark) == row' = [row EXCEPT ![src][k] = mark]

-----------------------------------------------------------------------------
(* Client calls: `set`, and `rate` and `dont_recommend`, which ask the       *)
(* remote first and let the row follow.                                      *)

SyncSide == <<caller, started, flight, imports, calls>>

Ask(t) ==
    /\ toggle[t].at = "idle"
    /\ Happens("toggle")
    /\ \E k \in Keys, want \in BOOLEAN, first \in {"local", "remote"} :
        toggle' = [toggle EXCEPT ![t] = [at |-> IF first = "local" THEN "check" ELSE "push",
                                         first |-> first, src |-> active, key |-> k,
                                         want |-> want, tried |-> FALSE]]
    /\ calm' = (work.at = "none")
    /\ UNCHANGED <<active, row, remote, stamp, SyncSide, work>>

\* is_favorite: a row that already says so ends the call.
Check(t) ==
    /\ toggle[t].at = "check"
    /\ toggle' = IF IsFavorite(toggle[t].src, toggle[t].key) = toggle[t].want
                 THEN [toggle EXCEPT ![t] = NoToggle]
                 ELSE [toggle EXCEPT ![t].at = "write"]
    /\ UNCHANGED <<active, row, remote, stamp, SyncSide, work, calm, events>>

\* record_favorite is two calls: the row is written dirty, then cleared.
Write(t) ==
    LET g == toggle[t] IN
    /\ g.at \in {"write", "revert"}
    /\ SetRow(g.src, g.key, Set(row[g.src][g.key], IF g.at = "write" THEN g.want ELSE ~g.want))
    /\ toggle' = [toggle EXCEPT ![t].at = IF g.at = "write" THEN "clear" ELSE "unclear"]
    /\ Disturbed
    /\ UNCHANGED <<active, remote, stamp, SyncSide, events>>

ClearDirty(t) ==
    LET g == toggle[t] IN
    /\ g.at = "clear"
    /\ SetRow(g.src, g.key, Cleared(row[g.src][g.key]))
    /\ toggle' = IF g.first = "local" THEN [toggle EXCEPT ![t].at = "push"]
                                      ELSE [toggle EXCEPT ![t] = NoToggle]
    /\ Disturbed
    /\ UNCHANGED <<active, remote, stamp, SyncSide, events>>

Pushed(t) ==
    LET g == toggle[t] IN
    /\ g.at = "push"
    /\ Told(g.src, g.key, g.want)
    /\ toggle' = IF g.first = "local" THEN [toggle EXCEPT ![t] = NoToggle]
                                      ELSE [toggle EXCEPT ![t].at = "check"]
    /\ calm' = (work.at = "none")
    /\ UNCHANGED <<active, row, stamp, SyncSide, work, events>>

\* An error ends the call; an expired session is repaired and the call made
\* once more, from the source active then.
Failed(t) ==
    LET g == toggle[t] IN
    \/ toggle' = [toggle EXCEPT ![t] = NoToggle]
    \/ /\ ~g.tried
       /\ toggle' = [toggle EXCEPT ![t] =
                        [@ EXCEPT !.at = IF g.first = "local" THEN "check" ELSE "push",
                                  !.src = active, !.tried = TRUE]]

\* Refused, signed out or unreachable; what is unreachable may have taken it.
Rejected(t) ==
    LET g == toggle[t] IN
    /\ g.at = "push"
    /\ Told(g.src, g.key, g.want) \/ UNCHANGED remote
    /\ IF g.first = "local" THEN toggle' = [toggle EXCEPT ![t].at = "revert"] ELSE Failed(t)
    /\ calm' = (work.at = "none")
    /\ UNCHANGED <<active, row, stamp, SyncSide, work, events>>

Reverted(t) ==
    LET g == toggle[t] IN
    /\ g.at = "unclear"
    /\ SetRow(g.src, g.key, Cleared(row[g.src][g.key]))
    /\ Failed(t)
    /\ Disturbed
    /\ UNCHANGED <<active, remote, stamp, SyncSide, events>>

-----------------------------------------------------------------------------
(* sync: the flight lock.                                                    *)

Locked == work.at # "none"
ToggleSide == <<active, toggle>>

Begin(c, import, asked) ==
    /\ started' = started + 1
    /\ work' = [NoWork EXCEPT !.at = "read", !.import = import, !.run = started + 1, !.src = active]
    /\ calm' = \A t \in Togglers : toggle[t].at = "idle"
    /\ caller' = [caller EXCEPT ![c] = [at |-> "syncing", import |-> import, joined |-> 0,
                                        asked |-> asked]]

Call(c) ==
    /\ caller[c].at = "idle"
    /\ calls < MaxCalls
    /\ calls' = calls + 1
    /\ \E import \in Imports :
        \/ ~Locked /\ Begin(c, import, imports)
        \/ /\ Locked
           /\ caller' = [caller EXCEPT ![c] = [at |-> "waiting", import |-> import,
                                               joined |-> started, asked |-> imports]]
           /\ UNCHANGED <<started, work, calm>>
    /\ UNCHANGED <<ToggleSide, row, remote, stamp, flight, imports, events>>

\* Mutant: the outcome is shared whatever the run did.
SharedAnyway(c) == flight.finished >= caller[c].joined
\* What the run it waited for (or a later one) did is enough for this caller.
Shared(c) ==
    /\ flight.finished >= caller[c].joined
    /\ flight.imported \/ caller[c].import = "IfMissing"

\* Mutant: a waiter that is not served goes ahead without the lock.
JoinUnlocked(c) ==
    /\ caller[c].at = "waiting"
    /\ IF Shared(c)
       THEN caller' = [caller EXCEPT ![c] = NoCall] /\ UNCHANGED <<started, work, calm>>
       ELSE Begin(c, caller[c].import, caller[c].asked)
    /\ UNCHANGED <<ToggleSide, row, remote, stamp, flight, imports, bounds>>
Join(c) ==
    /\ caller[c].at = "waiting"
    /\ ~Locked
    /\ IF Shared(c)
       THEN caller' = [caller EXCEPT ![c] = NoCall] /\ UNCHANGED <<started, work, calm>>
       ELSE Begin(c, caller[c].import, caller[c].asked)
    /\ UNCHANGED <<ToggleSide, row, remote, stamp, flight, imports, bounds>>

-----------------------------------------------------------------------------
(* reconcile_favorites: push what is pending, then perhaps fetch the rest.   *)

SyncStep == UNCHANGED <<active, toggle, caller, started, flight, calm, imports, bounds, stamp>>

Reconciled(outcome) == [work EXCEPT !.at = "import", !.reconciled = outcome]

ReadPending ==
    /\ work.at = "read"
    /\ \E due \in IF work.import = "Always" THEN {TRUE} ELSE BOOLEAN :
        LET likes == Pending(work.src, "like")
            unlikes == Pending(work.src, "unlike") IN
        IF likes \cup unlikes = {} /\ ~due
        THEN work' = Reconciled("ok")
        ELSE \/ work' = [work EXCEPT !.at = "push", !.due = due,
                                     !.likes = likes, !.unlikes = unlikes]
             \/ work' = Reconciled("err") \* expired or unreachable
    /\ UNCHANGED <<row, remote>>
    /\ SyncStep

\* Likes first; a refused one stays pending.
PushNext ==
    /\ work.at = "push"
    /\ \E k \in IF work.likes # {} THEN work.likes ELSE work.unlikes :
        LET on == k \in work.likes
            left == [work EXCEPT !.likes = @ \ {k},
                                 !.unlikes = IF on THEN @ ELSE @ \ {k}] IN
        \/ /\ Told(work.src, k, on)
           /\ work' = [left EXCEPT !.at = "pushed", !.key = k,
                                   !.liked = IF on THEN @ \cup {k} ELSE @,
                                   !.unliked = IF on THEN @ ELSE @ \cup {k}]
        \/ /\ Told(work.src, k, on) \/ UNCHANGED remote
           /\ work' = left
    /\ UNCHANGED <<row, active, toggle, caller, started, flight, calm, imports, calls, events, stamp>>

ClearPushed ==
    /\ work.at = "pushed"
    /\ SetRow(work.src, work.key, Cleared(row[work.src][work.key]))
    /\ work' = [work EXCEPT !.at = "push", !.key = None]
    /\ UNCHANGED remote
    /\ SyncStep

FetchRemote ==
    /\ work.at = "push"
    /\ work.likes \cup work.unlikes = {}
    /\ IF ~work.due THEN work' = Reconciled("ok")
       ELSE \/ work' = [work EXCEPT !.at = "replace", !.fetched = remote[work.src]]
            \/ work' = Reconciled("err")
    /\ UNCHANGED <<row, remote>>
    /\ SyncStep

Replace ==
    /\ work.at = "replace"
    /\ row' = [row EXCEPT ![work.src] = Replaced(@, (work.fetched \cup work.liked) \ work.unliked)]
    /\ work' = [Reconciled("ok") EXCEPT !.fetched = {}, !.liked = {}, !.unliked = {}]
    /\ UNCHANGED remote
    /\ SyncStep

-----------------------------------------------------------------------------
(* pull: import what the remote holds.                                       *)

\* The run is over: what waits for it may take this outcome.  `sync` marks the
\* source it read when it began.
Finish(pulled, imported) ==
    LET outcome == IF pulled = "err" /\ work.import # "IfMissing" THEN "err" ELSE work.reconciled
    IN
    /\ flight' = [finished |-> work.run, imported |-> imported, outcome |-> outcome]
    /\ stamp' = IF imported THEN stamp \cup {work.src} ELSE stamp
    /\ imports' = IF imported THEN imports + 1 ELSE imports
    /\ caller' = [c \in Callers |-> IF caller[c].at = "syncing" THEN NoCall ELSE caller[c]]
    /\ work' = NoWork
    /\ calm' = TRUE
    /\ UNCHANGED <<active, toggle, started, bounds>>

\* pull_is_stale, of the source active now; an instant one's age is anybody's.
Missing == active \notin stamp /\ Pending(active, "clean") = {}

MaySkip ==
    CASE work.import = "Always" -> FALSE
      [] work.import = "UnlessRecent" -> work.src \in stamp
      [] OTHER -> work.reconciled = "err" \/ active \notin Paginated \/ ~Missing
MayImport ==
    work.import = "IfMissing" =>
        work.reconciled = "ok" /\ (active \notin Paginated \/ Missing)

StartImport ==
    /\ work.at = "import"
    /\ UNCHANGED <<row, remote>>
    /\ \/ MaySkip /\ Finish("ok", FALSE)
       \/ /\ MayImport
          /\ work' = [work EXCEPT !.at = IF active \in Paginated THEN "page" ELSE "list",
                                  !.from = active, !.pages = Keys]
          /\ SyncStep

\* An instant source answers with the whole list, or not at all.
FetchList ==
    /\ work.at = "list"
    /\ UNCHANGED <<row, remote>>
    /\ \/ /\ work' = [work EXCEPT !.at = "store", !.fetched = remote[work.from]]
          /\ SyncStep
       \/ Finish("err", FALSE)

StoreList ==
    /\ work.at = "store"
    /\ row' = [row EXCEPT ![work.from] = Replaced(@, work.fetched)]
    /\ UNCHANGED remote
    /\ Finish("ok", TRUE)

\* Only a job has a context to cancel it by.
Cancel ==
    /\ work.at \in {"page", "sweep"}
    /\ work.import # "IfMissing"
    /\ Finish("ok", FALSE)
    /\ UNCHANGED <<row, remote>>

FetchPage ==
    /\ work.at = "page"
    /\ UNCHANGED <<row, remote>>
    /\ \/ \E k \in work.pages :
           /\ work' = [work EXCEPT !.pages = @ \ {k},
                          !.at = IF k \in remote[work.from] THEN "upsert" ELSE
                                 IF work.pages = {k} THEN "sweep" ELSE "page",
                          !.key = IF k \in remote[work.from] THEN k ELSE None]
           /\ SyncStep
       \/ Finish("err", FALSE)

UpsertPage ==
    /\ work.at = "upsert"
    /\ row' = [row EXCEPT ![work.from] = Upserted(@, work.key)]
    /\ work' = [work EXCEPT !.stamped = @ \cup {work.key}, !.key = None,
                            !.at = IF work.pages = {} THEN "sweep" ELSE "page"]
    /\ UNCHANGED remote
    /\ SyncStep

Sweep ==
    /\ work.at = "sweep"
    /\ row' = [row EXCEPT ![work.from] = Swept(@, work.stamped)]
    /\ UNCHANGED remote
    /\ Finish("ok", TRUE)

-----------------------------------------------------------------------------
(* What the service does not control.                                        *)

OtherDevice ==
    /\ Happens("device")
    /\ \E src \in Sources, k \in Keys, on \in BOOLEAN : Told(src, k, on) /\ remote' # remote
    /\ calm' = ~Locked
    /\ UNCHANGED <<ToggleSide, row, stamp, SyncSide, work>>

SwitchSource ==
    /\ Happens("switch")
    /\ active' \in Sources \ {active}
    /\ calm' = ~Locked
    /\ UNCHANGED <<toggle, row, remote, stamp, SyncSide, work>>

\* The daemon dies and starts again: the tables and the servers stay.
Crash ==
    /\ Happens("crash")
    /\ toggle' = [t \in Togglers |-> NoToggle]
    /\ caller' = [c \in Callers |-> NoCall]
    /\ started' = 0
    /\ flight' = [finished |-> 0, imported |-> FALSE, outcome |-> "ok"]
    /\ work' = NoWork
    /\ calm' = TRUE
    /\ imports' = 0
    /\ UNCHANGED <<active, row, remote, stamp, calls>>

ToggleSteps(t) == Check(t) \/ Write(t) \/ ClearDirty(t) \/ Pushed(t) \/ Rejected(t) \/ Reverted(t)
SyncSteps == \/ ReadPending \/ PushNext \/ ClearPushed \/ FetchRemote \/ Replace
             \/ StartImport \/ FetchList \/ StoreList \/ FetchPage \/ UpsertPage \/ Sweep

Next ==
    \/ \E t \in Togglers : Ask(t) \/ ToggleSteps(t)
    \/ \E c \in Callers : Call(c) \/ Join(c)
    \/ SyncSteps \/ Cancel
    \/ OtherDevice \/ SwitchSource \/ Crash

Spec == Init /\ [][Next]_vars

-----------------------------------------------------------------------------
\* Types, and the lock: one task syncs while work is held, and syncs finish in
\* the order they were started.
TypeOK ==
    /\ active \in Sources
    /\ row \in [Sources -> [Keys -> Marks]]
    /\ remote \in [Sources -> SUBSET Keys]
    /\ stamp \subseteq Sources
    /\ \A t \in Togglers :
        toggle[t].at \in {"idle", "check", "write", "clear", "push", "revert", "unclear"}
    /\ \A c \in Callers : caller[c].at \in {"idle", "waiting", "syncing"}
    /\ Cardinality({c \in Callers : caller[c].at = "syncing"}) = (IF Locked THEN 1 ELSE 0)
    /\ flight.finished + (IF Locked THEN 1 ELSE 0) = started

\* An import that nothing disturbed leaves the table saying what the remote
\* holds, but for the tracks whose push was refused (sync.rs, pull.rs: push
\* before pull, then the sweep or the replacement).  Of an import that a toggle
\* crosses it says nothing: sync.rs:3 ("so a pull cannot revert a recent toggle")
\* reads as if that were safe, but the row of a toggle that is being pushed is
\* clean, and an import that fetched before drops it.
Agrees(src) == \A k \in Keys :
    row'[src][k] \in {"like", "unlike"} \/ (row'[src][k] = "clean" <=> k \in remote'[src])
ImportAgrees ==
    [][imports' > imports /\ calm => Agrees(work.src)]_vars

\* A pending like or unlike stays pending through every import: only a client
\* call, or a push the remote took, ends it.
Touching(src, k) ==
    \/ \E t \in Togglers : /\ toggle[t].src = src /\ toggle[t].key = k
                           /\ toggle[t].at \in {"write", "clear", "revert", "unclear"}
    \/ work.at = "pushed" /\ work.src = src /\ work.key = k
PendingSurvives ==
    [][\A src \in Sources, k \in Keys :
         row[src][k] \in {"like", "unlike"} /\ row'[src][k] # row[src][k] => Touching(src, k)]_vars

\* Who waited for a running sync and took its outcome, wanting an import, got
\* one that ended after it asked (FavoritesService::sync).
JoinIsFresh ==
    [][\A c \in Callers :
         caller[c].at = "waiting" /\ caller'[c].at = "idle" /\ started' # 0
            => caller[c].import = "IfMissing" \/ imports > caller[c].asked]_vars
=============================================================================

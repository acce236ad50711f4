-------------------------- MODULE JobsTheorems --------------------------
(***************************************************************************)
(* The background work of the daemon.                                      *)
(*                                                                         *)
(* The favorites service (Favorites), for any number of sources, tracks,   *)
(* callers and calls, with toggles, other devices, switches and crashes at *)
(* every step: a caller that shares the outcome of a sync it waited for    *)
(* gets an import no older than its call; a pending mark survives every    *)
(* import; one sync runs at a time; and an import that nothing disturbed   *)
(* leaves the table saying what the remote holds.                          *)
(*                                                                         *)
(* The jobs (Schedule, the second half), for every set of kinds, sources   *)
(* and job ids, every interval and every number of retained jobs: two of a *)
(* kind never work at a time.                                              *)
(***************************************************************************)
EXTENDS Favorites, Schedule, FiniteSetTheorems, SequenceTheorems, WellFoundedInduction, TLAPS

(* The lock: work is held by the run started last, and all before it have    *)
(* finished.                                                                 *)
Turn ==
    /\ started \in Nat /\ imports \in Nat /\ flight.finished \in Nat
    /\ Locked => work.run = started /\ flight.finished + 1 = started
    /\ ~Locked => flight.finished = started

(* Who waits joined a run that had not finished then: once one as late has   *)
(* finished with an import, that import is newer than the call.              *)
Waits(c) ==
    caller[c].at = "waiting" =>
        /\ caller[c].joined \in Nat /\ caller[c].asked \in Nat
        /\ caller[c].joined <= started /\ caller[c].asked <= imports
        /\ flight.finished >= caller[c].joined /\ flight.imported => imports > caller[c].asked

(* The shapes that EXCEPT needs.                                             *)
Shapes ==
    /\ caller = [c \in Callers |-> caller[c]]
    /\ \A c \in Callers : DOMAIN caller[c] = DOMAIN NoCall
    /\ DOMAIN work = DOMAIN NoWork

Fresh == Shapes /\ Turn /\ \A c \in Callers : Waits(c)

(* Work goes on: neither the calls nor the finished runs change.             *)
GoesOn ==
    /\ UNCHANGED <<caller, started, flight, imports>>
    /\ DOMAIN work' = DOMAIN work
    /\ work'.run = work.run
    /\ (work'.at # "none") = (work.at # "none")

LEMMA GoesOnIsFresh == ASSUME Fresh, GoesOn PROVE Fresh'
BY DEF Fresh, Shapes, Turn, Waits, GoesOn, Locked, NoCall, NoWork

(* A toggle leaves the sync alone, but for the stamps of the walk.           *)
LEMMA ToggleGoesOn ==
    ASSUME Shapes, NEW t \in Togglers, Ask(t) \/ ToggleSteps(t)
    PROVE  GoesOn
<1>1. CASE Ask(t) BY <1>1 DEF Ask, SyncSide, GoesOn
<1>2. CASE Check(t) BY <1>2 DEF Check, SyncSide, GoesOn
<1>3. CASE Write(t) BY <1>3 DEF Write, Disturbed, SyncSide, GoesOn, Shapes, NoWork
<1>4. CASE ClearDirty(t) BY <1>4 DEF ClearDirty, Disturbed, SyncSide, GoesOn, Shapes, NoWork
<1>5. CASE Pushed(t) BY <1>5 DEF Pushed, SyncSide, GoesOn
<1>6. CASE Rejected(t) BY <1>6 DEF Rejected, SyncSide, GoesOn
<1>7. CASE Reverted(t) BY <1>7 DEF Reverted, Disturbed, SyncSide, GoesOn, Shapes, NoWork
<1> QED BY <1>1, <1>2, <1>3, <1>4, <1>5, <1>6, <1>7 DEF ToggleSteps

(* The steps of a sync go on, or finish it.                                  *)
LEMMA SyncGoesOnOrEnds ==
    ASSUME Shapes, SyncSteps \/ Cancel
    PROVE  Locked /\ (GoesOn \/ \E p, i : Finish(p, i) /\ i \in BOOLEAN)
<1> USE DEF Shapes, GoesOn, Locked, SyncStep, NoWork, Reconciled
<1>1. CASE ReadPending BY <1>1 DEF ReadPending
<1>2. CASE PushNext BY <1>2 DEF PushNext
<1>3. CASE ClearPushed BY <1>3 DEF ClearPushed
<1>4. CASE FetchRemote
  <2>1. \/ work' = Reconciled("ok") \/ work' = Reconciled("err")
        \/ work' = [work EXCEPT !.at = "replace", !.fetched = remote[work.src]]
    BY <1>4 DEF FetchRemote
  <2>2. DOMAIN work' = DOMAIN work /\ work'.run = work.run /\ work'.at # "none"
    BY <2>1
  <2>3. GoesOn BY <1>4, <2>2 DEF FetchRemote
  <2> QED BY <1>4, <2>3 DEF FetchRemote
<1>5. CASE Replace BY <1>5 DEF Replace
<1>6. CASE StartImport BY <1>6 DEF StartImport
<1>7. CASE FetchList BY <1>7 DEF FetchList
<1>8. CASE StoreList BY <1>8 DEF StoreList
<1>9. CASE FetchPage BY <1>9 DEF FetchPage
<1>10. CASE UpsertPage BY <1>10 DEF UpsertPage
<1>11. CASE Sweep BY <1>11 DEF Sweep
<1>12. CASE Cancel BY <1>12 DEF Cancel
<1> QED BY <1>1, <1>2, <1>3, <1>4, <1>5, <1>6, <1>7, <1>8, <1>9, <1>10, <1>11, <1>12
        DEF SyncSteps

LEMMA FinishIsFresh ==
    ASSUME Fresh, Locked, NEW p, NEW i \in BOOLEAN, Finish(p, i)
    PROVE  Fresh'
<1>1. Shapes' BY DEF Fresh, Shapes, Finish, NoCall, NoWork
<1>2. /\ flight'.finished = work.run /\ flight'.imported = i
      /\ started' = started /\ work'.at = "none"
      /\ imports' = IF i THEN imports + 1 ELSE imports
  BY DEF Finish, NoWork
<1>3. Turn' BY <1>2 DEF Fresh, Turn, Locked
<1>4. ASSUME NEW c \in Callers PROVE Waits(c)'
  <2>1. caller'[c].at = "waiting" => caller'[c] = caller[c]
    BY DEF Finish, NoCall
  <2> QED BY <1>2, <2>1 DEF Fresh, Turn, Waits, Locked
<1> QED BY <1>1, <1>3, <1>4 DEF Fresh

LEMMA BeginIsFresh ==
    ASSUME Fresh, ~Locked, NEW c \in Callers, NEW import, NEW asked, Begin(c, import, asked),
           UNCHANGED <<flight, imports>>
    PROVE  Fresh'
<1>1. Shapes' BY DEF Fresh, Shapes, Begin, NoCall, NoWork
<1>2. started' = started + 1 /\ work'.run = started + 1 /\ work'.at = "read"
  BY DEF Begin, NoWork
<1>3. Turn' BY <1>2 DEF Fresh, Turn, Locked
<1>4. ASSUME NEW d \in Callers PROVE Waits(d)'
  <2>1. caller'[d].at = "waiting" => caller'[d] = caller[d]
    BY DEF Begin, Fresh, Shapes
  <2> QED BY <1>2, <2>1 DEF Fresh, Turn, Waits
<1> QED BY <1>1, <1>3, <1>4 DEF Fresh

LEMMA CallIsFresh ==
    ASSUME Fresh, NEW c \in Callers, Call(c) \/ Join(c) PROVE Fresh'
<1>1. CASE Call(c)
  <2>1. PICK import \in Imports :
            \/ ~Locked /\ Begin(c, import, imports)
            \/ /\ Locked
               /\ caller' = [caller EXCEPT ![c] = [at |-> "waiting", import |-> import,
                                                   joined |-> started, asked |-> imports]]
               /\ UNCHANGED <<started, work, calm>>
    BY <1>1 DEF Call
  <2>2. UNCHANGED <<flight, imports>> BY <1>1 DEF Call
  <2>3. CASE ~Locked /\ Begin(c, import, imports)
    BY <2>2, <2>3, BeginIsFresh
  <2>4. CASE Locked /\ ~(~Locked /\ Begin(c, import, imports))
    <3>1. /\ caller' = [caller EXCEPT ![c] = [at |-> "waiting", import |-> import,
                                              joined |-> started, asked |-> imports]]
          /\ UNCHANGED <<started, work>>
      BY <2>1, <2>4
    <3>2. Shapes' BY <3>1 DEF Fresh, Shapes, NoCall, NoWork
    <3>3. Turn' BY <2>2, <3>1 DEF Fresh, Turn, Locked
    <3>4. ASSUME NEW d \in Callers PROVE Waits(d)'
      <4>1. CASE d = c
        <5>1. caller'[d] = [at |-> "waiting", import |-> import,
                            joined |-> started, asked |-> imports]
          BY <3>1, <4>1 DEF Fresh, Shapes
        <5>2. caller'[d].joined = started /\ caller'[d].asked = imports BY <5>1
        <5> QED BY <2>2, <2>4, <3>1, <5>2 DEF Fresh, Turn, Waits
      <4>2. CASE d # c
        <5>1. caller'[d] = caller[d] BY <3>1, <4>2 DEF Fresh, Shapes
        <5> QED BY <2>2, <3>1, <5>1 DEF Fresh, Waits
      <4> QED BY <4>1, <4>2
    <3> QED BY <3>2, <3>3, <3>4 DEF Fresh
  <2> QED BY <2>1, <2>3, <2>4
<1>2. CASE Join(c)
  <2>1. ~Locked /\ UNCHANGED <<flight, imports>> BY <1>2 DEF Join
  <2>2. CASE Shared(c)
    <3>1. caller' = [caller EXCEPT ![c] = NoCall] /\ UNCHANGED <<started, work>>
      BY <1>2, <2>2 DEF Join
    <3>2. Shapes' BY <3>1 DEF Fresh, Shapes, NoCall
    <3>3. ASSUME NEW d \in Callers PROVE Waits(d)'
      <4>1. caller'[d].at = "waiting" => caller'[d] = caller[d]
        BY <3>1 DEF NoCall, Fresh, Shapes
      <4> QED BY <2>1, <3>1, <4>1 DEF Fresh, Waits
    <3> QED BY <2>1, <3>1, <3>2, <3>3 DEF Fresh, Turn, Locked
  <2>3. CASE ~Shared(c)
    <3>1. Begin(c, caller[c].import, caller[c].asked) BY <1>2, <2>3 DEF Join
    <3> QED BY <2>1, <3>1, BeginIsFresh
  <2> QED BY <2>2, <2>3
<1> QED BY <1>1, <1>2

LEMMA CrashIsFresh == ASSUME Crash PROVE Fresh'
BY DEF Crash, Fresh, Shapes, Turn, Waits, NoCall, NoWork, Locked

LEMMA InitIsFresh == Init => Fresh
BY DEF Init, Fresh, Shapes, Turn, Waits, NoCall, NoWork, Locked

LEMMA StepIsFresh == Fresh /\ [Next]_vars => Fresh'
<1> SUFFICES ASSUME Fresh, [Next]_vars PROVE Fresh' OBVIOUS
<1>1. CASE \E t \in Togglers : Ask(t) \/ ToggleSteps(t)
  BY <1>1, ToggleGoesOn, GoesOnIsFresh DEF Fresh
<1>2. CASE \E c \in Callers : Call(c) \/ Join(c)
  BY <1>2, CallIsFresh
<1>3. CASE SyncSteps \/ Cancel
  <2>1. Locked /\ (GoesOn \/ \E p, i : Finish(p, i) /\ i \in BOOLEAN)
    BY <1>3, SyncGoesOnOrEnds DEF Fresh
  <2> QED BY <2>1, GoesOnIsFresh, FinishIsFresh
<1>4. CASE OtherDevice \/ SwitchSource
  <2>1. GoesOn BY <1>4 DEF OtherDevice, SwitchSource, SyncSide, GoesOn
  <2> QED BY <2>1, GoesOnIsFresh
<1>5. CASE Crash BY <1>5, CrashIsFresh
<1>6. CASE UNCHANGED vars
  <2>1. GoesOn BY <1>6 DEF vars, GoesOn
  <2> QED BY <2>1, GoesOnIsFresh
<1> QED BY <1>1, <1>2, <1>3, <1>4, <1>5, <1>6 DEF Next

(* Who stops waiting without a sync of its own was served by an import newer *)
(* than its call, or wanted none.                                            *)
Served ==
    \A c \in Callers :
        caller[c].at = "waiting" /\ caller'[c].at = "idle" /\ started' # 0
            => caller[c].import = "IfMissing" \/ imports > caller[c].asked

LEMMA StepServes == Fresh /\ [Next]_vars => Served
<1> SUFFICES ASSUME Fresh, [Next]_vars, NEW c \in Callers,
                    caller[c].at = "waiting", caller'[c].at = "idle", started' # 0
             PROVE  caller[c].import = "IfMissing" \/ imports > caller[c].asked
    BY DEF Served
<1>1. CASE Join(c)
  <2>1. Shared(c)
    <3>1. SUFFICES ASSUME ~Shared(c) PROVE FALSE OBVIOUS
    <3>2. Begin(c, caller[c].import, caller[c].asked) BY <1>1, <3>1 DEF Join
    <3> QED BY <3>2 DEF Begin, Fresh, Shapes
  <2> QED BY <2>1 DEF Shared, Fresh, Waits
<1>2. ASSUME GoesOn PROVE FALSE BY <1>2 DEF GoesOn
<1>3. CASE \E t \in Togglers : Ask(t) \/ ToggleSteps(t)
  BY <1>3, <1>2, ToggleGoesOn DEF Fresh
<1>4. ASSUME NEW d \in Callers, Call(d) PROVE FALSE
  <2>1. caller[d].at = "idle" BY <1>4 DEF Call
  <2>2. caller'[c] = caller[c] BY <1>4, <2>1 DEF Call, Begin, Fresh, Shapes
  <2> QED BY <2>2
<1>5. ASSUME NEW d \in Callers, Join(d), d # c PROVE FALSE
  BY <1>5 DEF Join, Begin, Fresh, Shapes
<1>6. CASE SyncSteps \/ Cancel
  <2>1. ASSUME NEW p, NEW i, Finish(p, i) PROVE FALSE BY <2>1 DEF Finish
  <2> QED BY <1>2, <1>6, <2>1, SyncGoesOnOrEnds DEF Fresh
<1>7. CASE OtherDevice \/ SwitchSource
  BY <1>7, <1>2 DEF OtherDevice, SwitchSource, SyncSide, GoesOn
<1>8. CASE Crash BY <1>8 DEF Crash
<1>9. CASE UNCHANGED vars BY <1>9 DEF vars
<1> QED BY <1>1, <1>3, <1>4, <1>5, <1>6, <1>7, <1>8, <1>9 DEF Next

(* The outcome a waiting caller shares is that of an import that ended after *)
(* it asked, whatever else goes on (favorites/mod.rs, sync).                 *)
THEOREM SharedOutcomesAreFresh == Spec => JoinIsFresh
<1>1. Spec => []Fresh BY InitIsFresh, StepIsFresh, PTL DEF Spec
<1>2. Fresh /\ [Next]_vars => Served BY StepServes
<1>3. Served => (\A c \in Callers :
         caller[c].at = "waiting" /\ caller'[c].at = "idle" /\ started' # 0
            => caller[c].import = "IfMissing" \/ imports > caller[c].asked)
  BY DEF Served
<1> QED BY <1>1, <1>2, <1>3, PTL DEF Spec, JoinIsFresh

-----------------------------------------------------------------------------
(* The table has a mark for each track of each source.                       *)
Rows == row = [src \in Sources |-> [k \in Keys |-> row[src][k]]]

(* A step on one source's rows keeps what is pending there.                  *)
Spares(src) ==
    \E new : /\ row' = [row EXCEPT ![src] = new]
             /\ new = [k \in Keys |-> new[k]]
             /\ \A k \in Keys : row[src][k] \in {"like", "unlike"} => new[k] = row[src][k]

(* A step on one row, by who is about to write it.                           *)
Touches(src, k) ==
    /\ \E mark : SetRow(src, k, mark)
    /\ Touching(src, k)

Kept ==
    \A src \in Sources, k \in Keys :
        row[src][k] \in {"like", "unlike"} /\ row'[src][k] # row[src][k] => Touching(src, k)

LEMMA SparingKeeps ==
    ASSUME Rows, NEW src, Spares(src) PROVE Rows' /\ Kept
<1>1. PICK new : /\ row' = [row EXCEPT ![src] = new]
                 /\ new = [k \in Keys |-> new[k]]
                 /\ \A k \in Keys : row[src][k] \in {"like", "unlike"} => new[k] = row[src][k]
  BY DEF Spares
<1>2. \A other \in Sources : row'[other] = IF other = src THEN new ELSE row[other]
  BY <1>1 DEF Rows
<1>3. Rows' BY <1>1, <1>2 DEF Rows
<1>4. Kept BY <1>1, <1>2 DEF Kept
<1> QED BY <1>3, <1>4

LEMMA TouchingKeeps ==
    ASSUME Rows, NEW src, NEW k, Touches(src, k) PROVE Rows' /\ Kept
<1>1. PICK mark : row' = [row EXCEPT ![src][k] = mark] BY DEF Touches, SetRow
<1>2. Rows' BY <1>1 DEF Rows
<1>3. \A s \in Sources, j \in Keys : s # src \/ j # k => row'[s][j] = row[s][j]
  BY <1>1 DEF Rows
<1>4. Kept BY <1>3 DEF Kept, Touches
<1> QED BY <1>2, <1>4

LEMMA UpdatesSpare ==
    ASSUME Rows, NEW src \in Sources, NEW new,
           row' = [row EXCEPT ![src] = new],
           \/ \E held : new = Replaced(row[src], held)
           \/ \E k : new = Upserted(row[src], k)
           \/ \E stamped : new = Swept(row[src], stamped)
    PROVE  Spares(src)
<1>1. row[src] = [k \in Keys |-> row[src][k]] BY DEF Rows
<1>2. CASE \E held : new = Replaced(row[src], held)
  <2>1. PICK held : new = Replaced(row[src], held) BY <1>2
  <2>2. new = [k \in Keys |-> new[k]] BY <2>1 DEF Replaced
  <2>3. ASSUME NEW k \in Keys, row[src][k] \in {"like", "unlike"} PROVE new[k] = row[src][k]
    BY <2>1, <2>3 DEF Replaced
  <2> QED BY <2>2, <2>3 DEF Spares
<1>3. CASE \E k : new = Upserted(row[src], k) BY ZenonT(30), <1>1, <1>3 DEF Upserted, Spares
<1>4. CASE \E stamped : new = Swept(row[src], stamped)
  <2>1. PICK stamped : new = Swept(row[src], stamped) BY <1>4
  <2>2. new = [k \in Keys |-> new[k]] BY <2>1 DEF Swept
  <2>3. ASSUME NEW k \in Keys, row[src][k] \in {"like", "unlike"} PROVE new[k] = row[src][k]
    BY <2>1, <2>3 DEF Swept
  <2> QED BY <2>2, <2>3 DEF Spares
<1> QED BY <1>2, <1>3, <1>4

LEMMA UpdatesKeep ==
    ASSUME Rows, NEW src, NEW new,
           row' = [row EXCEPT ![src] = new],
           \/ \E held : new = Replaced(row[src], held)
           \/ \E k : new = Upserted(row[src], k)
           \/ \E stamped : new = Swept(row[src], stamped)
    PROVE  Rows' /\ Kept
<1>1. CASE src \in Sources BY <1>1, UpdatesSpare, SparingKeeps
<1>2. CASE src \notin Sources
  <2>1. row' = row BY <1>2 DEF Rows
  <2> QED BY <2>1 DEF Rows, Kept
<1> QED BY <1>1, <1>2

LEMMA StillKeeps == ASSUME Rows, row' = row PROVE Rows' /\ Kept
BY DEF Rows, Kept

LEMMA StepKeeps == Rows /\ [Next]_vars => Rows' /\ Kept
<1> SUFFICES ASSUME Rows, [Next]_vars PROVE Rows' /\ Kept OBVIOUS
<1>1. ASSUME NEW t \in Togglers, Write(t) PROVE Rows' /\ Kept
  <2>1. Touches(toggle[t].src, toggle[t].key) BY <1>1 DEF Write, Touches, Touching
  <2> QED BY <2>1, TouchingKeeps
<1>2. ASSUME NEW t \in Togglers, ClearDirty(t) PROVE Rows' /\ Kept
  <2>1. Touches(toggle[t].src, toggle[t].key) BY <1>2 DEF ClearDirty, Touches, Touching
  <2> QED BY <2>1, TouchingKeeps
<1>3. ASSUME NEW t \in Togglers, Reverted(t) PROVE Rows' /\ Kept
  <2>1. Touches(toggle[t].src, toggle[t].key) BY <1>3 DEF Reverted, Touches, Touching
  <2> QED BY <2>1, TouchingKeeps
<1>4. ASSUME NEW t \in Togglers, Ask(t) \/ Check(t) \/ Pushed(t) \/ Rejected(t)
      PROVE  Rows' /\ Kept
  BY <1>4, StillKeeps DEF Ask, Check, Pushed, Rejected
<1>5. ASSUME NEW c \in Callers, Call(c) \/ Join(c) PROVE Rows' /\ Kept
  BY <1>5, StillKeeps DEF Call, Join
<1>6. CASE ClearPushed
  <2>1. Touches(work.src, work.key) BY <1>6 DEF ClearPushed, Touches, Touching
  <2> QED BY <2>1, TouchingKeeps
<1>7. CASE ReadPending \/ PushNext \/ FetchRemote \/ StartImport \/ FetchList \/ FetchPage
  BY <1>7, StillKeeps DEF ReadPending, PushNext, FetchRemote, StartImport, FetchList, FetchPage
<1>8. CASE Replace
  <2>1. row' = [row EXCEPT ![work.src] =
                    Replaced(row[work.src], (work.fetched \cup work.liked) \ work.unliked)]
    BY <1>8 DEF Replace
  <2> QED BY <2>1, UpdatesKeep
<1>9. CASE StoreList
  <2>1. row' = [row EXCEPT ![work.from] = Replaced(row[work.from], work.fetched)]
    BY <1>9 DEF StoreList
  <2> QED BY <2>1, UpdatesKeep
<1>10. CASE UpsertPage
  <2>1. row' = [row EXCEPT ![work.from] = Upserted(row[work.from], work.key)]
    BY <1>10 DEF UpsertPage
  <2> QED BY <2>1, UpdatesKeep
<1>11. CASE Sweep
  <2>1. row' = [row EXCEPT ![work.from] = Swept(row[work.from], work.stamped)]
    BY <1>11 DEF Sweep
  <2> QED BY <2>1, UpdatesKeep
<1>12. CASE Cancel \/ OtherDevice \/ SwitchSource \/ Crash \/ UNCHANGED vars
  BY <1>12, StillKeeps DEF Cancel, OtherDevice, SwitchSource, Crash, vars
<1> QED BY <1>1, <1>2, <1>3, <1>4, <1>5, <1>6, <1>7, <1>8, <1>9, <1>10, <1>11, <1>12
        DEF Next, ToggleSteps, SyncSteps

LEMMA InitHasRows == Init => Rows
BY DEF Init, Rows

(* A pending like or unlike is ended by a client call or by an accepted push *)
(* and by no import (writes.rs: dirty rows survive the replacement, the page *)
(* and the sweep).                                                           *)
THEOREM PendingMarksSurvive == Spec => PendingSurvives
<1>1. Init => Rows BY InitHasRows
<1>2. Rows /\ [Next]_vars => Rows' BY StepKeeps
<1>3. Rows /\ [Next]_vars =>
        (\A src \in Sources, k \in Keys :
           row[src][k] \in {"like", "unlike"} /\ row'[src][k] # row[src][k] => Touching(src, k))
  BY StepKeeps DEF Kept
<1> QED BY <1>1, <1>2, <1>3, PTL DEF Spec, PendingSurvives

-----------------------------------------------------------------------------
(* The types of the state, and the lock: the records of the client calls, of *)
(* the sync that holds the lock and of the tasks that call for one.           *)
Steps == {"idle", "check", "write", "clear", "push", "revert", "unclear"}
ToggleRec == [at : Steps, first : {"local", "remote"}, src : Sources \cup {None},
              key : Keys \cup {None}, want : BOOLEAN, tried : BOOLEAN]
ToggleTypes ==
    /\ toggle \in [Togglers -> ToggleRec]
    /\ \A t \in Togglers : toggle[t].at # "idle" => toggle[t].src \in Sources
                                                    /\ toggle[t].key \in Keys

Stages == {"none", "read", "push", "pushed", "replace", "import", "list", "store", "page",
           "upsert", "sweep"}
WorkRec == [at : Stages, import : Imports, run : Nat, src : Sources \cup {None},
            due : BOOLEAN, likes : SUBSET Keys, unlikes : SUBSET Keys,
            key : Keys \cup {None}, liked : SUBSET Keys, unliked : SUBSET Keys,
            fetched : SUBSET Keys, reconciled : {"ok", "err"},
            from : Sources \cup {None}, pages : SUBSET Keys, stamped : SUBSET Keys]
WorkTypes ==
    /\ work \in WorkRec
    /\ Locked => work.src \in Sources
    /\ work.at \in {"pushed", "upsert"} => work.key \in Keys
    /\ work.at \in {"list", "store", "page", "upsert", "sweep"} => work.from \in Sources

TableTypes ==
    /\ active \in Sources
    /\ row \in [Sources -> [Keys -> Marks]]
    /\ remote \in [Sources -> SUBSET Keys]
    /\ stamp \subseteq Sources

CallTypes ==
    /\ caller \in [Callers -> [at : {"idle", "waiting", "syncing"}, import : Imports,
                               joined : Nat, asked : Nat]]
Holder ==
    IF Locked THEN \E c \in Callers : {d \in Callers : caller[d].at = "syncing"} = {c}
              ELSE \A d \in Callers : caller[d].at # "syncing"

Typed == ToggleTypes /\ WorkTypes /\ TableTypes /\ CallTypes /\ Holder

LEMMA MarksAreMarks ==
    ASSUME NEW mark \in Marks, NEW on \in BOOLEAN
    PROVE  Set(mark, on) \in Marks /\ Cleared(mark) \in Marks
BY DEF Set, Cleared, Marks

LEMMA RowsAreRows ==
    ASSUME NEW rows \in [Keys -> Marks], NEW held, NEW k
    PROVE  /\ Replaced(rows, held) \in [Keys -> Marks]
           /\ Upserted(rows, k) \in [Keys -> Marks]
           /\ Swept(rows, held) \in [Keys -> Marks]
BY DEF Replaced, Upserted, Swept, Marks

LEMMA SetRowTypes ==
    ASSUME TableTypes, NEW src, NEW k, NEW mark \in Marks, SetRow(src, k, mark)
    PROVE  row' \in [Sources -> [Keys -> Marks]]
BY DEF TableTypes, SetRow

LEMMA ToldTypes ==
    ASSUME TableTypes, NEW src, NEW k \in Keys, NEW on, Told(src, k, on)
    PROVE  remote' \in [Sources -> SUBSET Keys]
BY DEF TableTypes, Told

LEMMA DisturbedTypes ==
    ASSUME WorkTypes, Disturbed PROVE WorkTypes'
<1>1. work' = [work EXCEPT !.stamped =
                    IF work.from = None THEN {} ELSE {k \in @ : row'[work.from][k] # "none"}]
  BY DEF Disturbed
<1>2. (IF work.from = None THEN {} ELSE {k \in work.stamped : row'[work.from][k] # "none"})
      \in SUBSET Keys
  BY DEF WorkRec, WorkTypes
<1> QED BY <1>1, <1>2 DEF WorkRec, WorkTypes, Locked

LEMMA FailedTypes ==
    ASSUME ToggleTypes, TableTypes, NEW t \in Togglers, toggle[t].at # "idle", Failed(t)
    PROVE  ToggleTypes'
<1>1. NoToggle \in ToggleRec BY DEF NoToggle, ToggleRec, Steps
<1>2. CASE toggle' = [toggle EXCEPT ![t] = NoToggle]
  BY <1>1, <1>2 DEF ToggleTypes, NoToggle
<1>3. CASE toggle' = [toggle EXCEPT ![t] =
                    [@ EXCEPT !.at = IF toggle[t].first = "local" THEN "check" ELSE "push",
                              !.src = active, !.tried = TRUE]]
  BY ZenonT(30), <1>3 DEF ToggleTypes, ToggleRec, TableTypes, Steps
<1> QED BY <1>2, <1>3 DEF Failed

LEMMA ToggleTyped ==
    ASSUME Typed, NEW t \in Togglers, Ask(t) \/ ToggleSteps(t)
    PROVE  ToggleTypes' /\ TableTypes' /\ WorkTypes'
<1> USE DEF Typed, ToggleRec
<1>1. CASE Ask(t)
  <2>1. PICK k \in Keys, want \in BOOLEAN, first \in {"local", "remote"} :
        toggle' = [toggle EXCEPT ![t] = [at |-> IF first = "local" THEN "check" ELSE "push",
                                         first |-> first, src |-> active, key |-> k,
                                         want |-> want, tried |-> FALSE]]
    BY <1>1 DEF Ask
  <2>2. ToggleTypes' BY <2>1 DEF ToggleTypes, TableTypes, Steps
  <2> QED BY <1>1, <2>2 DEF Ask, TableTypes, WorkRec, WorkTypes, Locked
<1>2. CASE Check(t)
  <2>1. ToggleTypes' BY <1>2 DEF Check, ToggleTypes, NoToggle, Steps
  <2> QED BY <1>2, <2>1 DEF Check, TableTypes, WorkRec, WorkTypes, Locked
<1>3. CASE Write(t)
  <2>1. ToggleTypes' BY <1>3 DEF Write, ToggleTypes, Steps
  <2>2. row[toggle[t].src][toggle[t].key] \in Marks
    BY <1>3 DEF Write, ToggleTypes, TableTypes
  <2>3. toggle[t].want \in BOOLEAN BY DEF ToggleTypes
  <2>4. TableTypes'
    BY <1>3, <2>2, <2>3, MarksAreMarks, SetRowTypes DEF Write, TableTypes
  <2> QED BY <1>3, <2>1, <2>4, DisturbedTypes DEF Write
<1>4. CASE ClearDirty(t)
  <2>1. ToggleTypes' BY <1>4 DEF ClearDirty, ToggleTypes, Steps, NoToggle
  <2>2. row[toggle[t].src][toggle[t].key] \in Marks
    BY <1>4 DEF ClearDirty, ToggleTypes, TableTypes
  <2>4. TableTypes'
    BY <1>4, <2>2, MarksAreMarks, SetRowTypes DEF ClearDirty, TableTypes
  <2> QED BY <1>4, <2>1, <2>4, DisturbedTypes DEF ClearDirty
<1>5. CASE Pushed(t)
  <2>1. ToggleTypes' BY <1>5 DEF Pushed, ToggleTypes, Steps, NoToggle
  <2>2. toggle[t].key \in Keys BY <1>5 DEF Pushed, ToggleTypes
  <2>3. TableTypes' BY <1>5, <2>2, ToldTypes DEF Pushed, TableTypes
  <2> QED BY <1>5, <2>1, <2>3 DEF Pushed, WorkRec, WorkTypes, Locked
<1>6. CASE Rejected(t)
  <2>1. ToggleTypes'
    <3>1. CASE toggle[t].first = "local" BY <1>6, <3>1 DEF Rejected, ToggleTypes, Steps
    <3>2. CASE toggle[t].first # "local" BY <1>6, <3>2, FailedTypes DEF Rejected
    <3> QED BY <3>1, <3>2
  <2>2. toggle[t].key \in Keys BY <1>6 DEF Rejected, ToggleTypes
  <2>3. TableTypes' BY <1>6, <2>2, ToldTypes DEF Rejected, TableTypes
  <2> QED BY <1>6, <2>1, <2>3 DEF Rejected, WorkRec, WorkTypes, Locked
<1>7. CASE Reverted(t)
  <2>1. ToggleTypes' BY <1>7, FailedTypes DEF Reverted
  <2>2. row[toggle[t].src][toggle[t].key] \in Marks
    BY <1>7 DEF Reverted, ToggleTypes, TableTypes
  <2>4. TableTypes'
    BY <1>7, <2>2, MarksAreMarks, SetRowTypes DEF Reverted, TableTypes
  <2> QED BY <1>7, <2>1, <2>4, DisturbedTypes DEF Reverted
<1> QED BY <1>1, <1>2, <1>3, <1>4, <1>5, <1>6, <1>7 DEF ToggleSteps

LEMMA SameTypes ==
    ASSUME Typed, UNCHANGED <<active, row, remote, stamp>> PROVE TableTypes'
BY DEF Typed, TableTypes

LEMMA FinishTypes ==
    ASSUME Typed, Locked, NEW p, NEW i, Finish(p, i)
    PROVE  ToggleTypes' /\ WorkTypes' /\ active' \in Sources /\ stamp' \subseteq Sources
<1>1. WorkTypes'
  <2>1. work' = NoWork BY DEF Finish
  <2> QED BY <2>1 DEF NoWork, WorkRec, WorkTypes, Stages, Imports, Locked
<1> QED BY <1>1 DEF Finish, Typed, ToggleTypes, TableTypes, WorkTypes

LEMMA ReadyTypes ==
    ASSUME WorkTypes, NEW outcome \in {"ok", "err"}, Locked
    PROVE  /\ work' = Reconciled(outcome) => WorkTypes'
           /\ work' = [Reconciled(outcome) EXCEPT !.fetched = {}, !.liked = {}, !.unliked = {}]
                => WorkTypes'
BY DEF WorkRec, WorkTypes, Reconciled, Stages, Locked

LEMMA SentTypes ==
    ASSUME NEW rest \in WorkRec, NEW k \in Keys
    PROVE  /\ [rest EXCEPT !.at = "pushed", !.key = k, !.liked = @ \cup {k}] \in WorkRec
           /\ [rest EXCEPT !.at = "pushed", !.key = k, !.unliked = @ \cup {k}] \in WorkRec
BY DEF WorkRec, Stages

LEMMA SyncTyped ==
    ASSUME Typed, SyncSteps \/ Cancel
    PROVE  ToggleTypes' /\ TableTypes' /\ WorkTypes'
<1> USE DEF Typed, SyncStep
<1>0. ASSUME UNCHANGED toggle PROVE ToggleTypes' BY <1>0 DEF ToggleTypes
<1>1. CASE ReadPending
  <2>1. Locked BY <1>1 DEF ReadPending, Locked
  <2>2. Pending(work.src, "like") \subseteq Keys /\ Pending(work.src, "unlike") \subseteq Keys
    BY DEF Pending
  <2>3. WorkTypes'
    <3>1. PICK due \in BOOLEAN :
             \/ work' = Reconciled("ok") \/ work' = Reconciled("err")
             \/ work' = [work EXCEPT !.at = "push", !.due = due,
                            !.likes = Pending(work.src, "like"),
                            !.unlikes = Pending(work.src, "unlike")]
      <4>1. PICK due \in IF work.import = "Always" THEN {TRUE} ELSE BOOLEAN :
               LET likes == Pending(work.src, "like")
                   unlikes == Pending(work.src, "unlike") IN
               IF likes \cup unlikes = {} /\ ~due
               THEN work' = Reconciled("ok")
               ELSE \/ work' = [work EXCEPT !.at = "push", !.due = due,
                                     !.likes = likes, !.unlikes = unlikes]
                    \/ work' = Reconciled("err")
        BY <1>1 DEF ReadPending
      <4>2. due \in BOOLEAN BY <4>1
      <4> QED BY <4>1, <4>2
    <3>2. CASE work' = [work EXCEPT !.at = "push", !.due = due,
                            !.likes = Pending(work.src, "like"),
                            !.unlikes = Pending(work.src, "unlike")]
      BY <2>1, <2>2, <3>2 DEF WorkRec, WorkTypes, Stages, Locked
    <3> QED BY <2>1, <3>1, <3>2, ReadyTypes
  <2> QED BY <1>1, <1>0, <2>3, SameTypes DEF ReadPending
<1>2. CASE PushNext
  <2>1. work.at = "push" BY <1>2 DEF PushNext
  <2>2. PICK k \in IF work.likes # {} THEN work.likes ELSE work.unlikes :
           LET on == k \in work.likes
               rest == [work EXCEPT !.likes = @ \ {k},
                                    !.unlikes = IF on THEN @ ELSE @ \ {k}] IN
           \/ /\ Told(work.src, k, on)
              /\ work' = [rest EXCEPT !.at = "pushed", !.key = k,
                                   !.liked = IF on THEN @ \cup {k} ELSE @,
                                   !.unliked = IF on THEN @ ELSE @ \cup {k}]
           \/ /\ Told(work.src, k, on) \/ UNCHANGED remote
              /\ work' = rest
    BY <1>2 DEF PushNext
  <2>3. k \in Keys BY <2>2 DEF WorkRec, WorkTypes
  <2> DEFINE on == k \in work.likes
             rest == [work EXCEPT !.likes = @ \ {k}, !.unlikes = IF on THEN @ ELSE @ \ {k}]
             sent == [rest EXCEPT !.at = "pushed", !.key = k,
                                   !.liked = IF on THEN @ \cup {k} ELSE @,
                                   !.unliked = IF on THEN @ ELSE @ \cup {k}]
  <2>4. (Told(work.src, k, on) \/ UNCHANGED remote) /\ (work' = rest \/ work' = sent) BY <2>2
  <2>5. rest \in WorkRec /\ sent \in WorkRec
    <3>1. work \in WorkRec BY DEF WorkTypes
    <3>2. CASE on
      <4>1. rest = [work EXCEPT !.likes = @ \ {k}] BY <3>1, <3>2 DEF WorkRec
      <4>2. rest \in WorkRec BY <3>1, <4>1 DEF WorkRec
      <4>3. sent = [rest EXCEPT !.at = "pushed", !.key = k, !.liked = @ \cup {k}]
        BY <4>2, <3>2 DEF WorkRec
      <4> HIDE DEF rest, sent
      <4>4. sent \in WorkRec BY <2>3, <4>2, <4>3, SentTypes
      <4> QED BY <4>2, <4>4
    <3>3. CASE ~on
      <4>1. rest = [work EXCEPT !.likes = @ \ {k}, !.unlikes = @ \ {k}]
        BY <3>1, <3>3 DEF WorkRec
      <4>2. rest \in WorkRec BY <3>1, <4>1 DEF WorkRec
      <4>3. sent = [rest EXCEPT !.at = "pushed", !.key = k, !.unliked = @ \cup {k}]
        BY <4>2, <3>3 DEF WorkRec
      <4> HIDE DEF rest, sent
      <4>4. sent \in WorkRec BY <2>3, <4>2, <4>3, SentTypes
      <4> QED BY <4>2, <4>4
    <3> QED BY <3>2, <3>3
  <2>6. /\ rest.at = work.at /\ rest.src = work.src
        /\ sent.at = "pushed" /\ sent.src = work.src /\ sent.key = k
    BY DEF WorkTypes, WorkRec
  <2>8. WorkTypes'
    <3>1. CASE work' = rest BY <2>1, <2>5, <2>6, <3>1 DEF WorkTypes, Locked
    <3>2. CASE work' = sent BY <2>1, <2>3, <2>5, <2>6, <3>2 DEF WorkTypes, Locked
    <3> QED BY <2>4, <3>1, <3>2
  <2>7. TableTypes' BY <1>2, <2>3, <2>4, ToldTypes DEF PushNext, TableTypes
  <2> QED BY <1>0, <1>2, <2>7, <2>8 DEF PushNext
<1>3. CASE ClearPushed
  <2>1. row[work.src][work.key] \in Marks
    BY <1>3 DEF ClearPushed, WorkRec, WorkTypes, TableTypes, Locked
  <2>2. TableTypes' BY <1>3, <2>1, MarksAreMarks, SetRowTypes DEF ClearPushed, TableTypes
  <2>3. WorkTypes' BY <1>3 DEF ClearPushed, WorkRec, WorkTypes, Stages, Locked
  <2> QED BY <1>3, <1>0, <2>2, <2>3 DEF ClearPushed
<1>4. CASE FetchRemote
  <2>1. Locked BY <1>4 DEF FetchRemote, Locked
  <2>2. WorkTypes'
    <3>1. \/ work' = Reconciled("ok") \/ work' = Reconciled("err")
          \/ work' = [work EXCEPT !.at = "replace", !.fetched = remote[work.src]]
      BY <1>4 DEF FetchRemote
    <3>2. remote[work.src] \subseteq Keys BY <2>1 DEF WorkRec, WorkTypes, TableTypes
    <3>3. CASE work' = [work EXCEPT !.at = "replace", !.fetched = remote[work.src]]
      BY <2>1, <3>2, <3>3 DEF WorkRec, WorkTypes, Stages, Locked
    <3> QED BY <2>1, <3>1, <3>3, ReadyTypes
  <2> QED BY <1>4, <1>0, <2>2, SameTypes DEF FetchRemote
<1>5. CASE Replace
  <2>1. Locked BY <1>5 DEF Replace, Locked
  <2>2. WorkTypes' BY <1>5, <2>1, ReadyTypes DEF Replace
  <2>3. row[work.src] \in [Keys -> Marks] BY <2>1 DEF WorkRec, WorkTypes, TableTypes
  <2>4. TableTypes' BY <1>5, <2>3, RowsAreRows DEF Replace, TableTypes
  <2> QED BY <1>5, <1>0, <2>2, <2>4 DEF Replace
<1>6. CASE StartImport
  <2>1. Locked BY <1>6 DEF StartImport, Locked
  <2>2. CASE Finish("ok", FALSE)
    BY <1>6, <2>1, <2>2, FinishTypes DEF StartImport, TableTypes
  <2>3. CASE work' = [work EXCEPT !.at = IF active \in Paginated THEN "page" ELSE "list",
                                  !.from = active, !.pages = Keys] /\ SyncStep
    <3>1. WorkTypes' BY ZenonT(30), <2>1, <2>3 DEF WorkRec, WorkTypes, TableTypes, Stages, Locked
    <3> QED BY <1>6, <1>0, <2>3, <3>1, SameTypes DEF StartImport
  <2> QED BY <1>6, <2>2, <2>3 DEF StartImport
<1>7. CASE FetchList
  <2>1. Locked BY <1>7 DEF FetchList, Locked
  <2>2. CASE Finish("err", FALSE)
    BY <1>7, <2>1, <2>2, FinishTypes DEF FetchList, TableTypes
  <2>3. CASE work' = [work EXCEPT !.at = "store", !.fetched = remote[work.from]] /\ SyncStep
    <3>1. WorkTypes' BY <1>7, <2>1, <2>3 DEF FetchList, WorkRec, WorkTypes, TableTypes, Stages, Locked
    <3> QED BY <1>7, <1>0, <2>3, <3>1, SameTypes DEF FetchList
  <2> QED BY <1>7, <2>2, <2>3 DEF FetchList
<1>8. CASE StoreList
  <2>1. Locked BY <1>8 DEF StoreList, Locked
  <2>2. row[work.from] \in [Keys -> Marks] BY <1>8 DEF StoreList, WorkRec, WorkTypes, TableTypes
  <2> QED BY <1>8, <2>1, <2>2, RowsAreRows, FinishTypes DEF StoreList, TableTypes
<1>9. CASE FetchPage
  <2>1. Locked BY <1>9 DEF FetchPage, Locked
  <2>2. CASE Finish("err", FALSE)
    BY <1>9, <2>1, <2>2, FinishTypes DEF FetchPage, TableTypes
  <2>3. CASE SyncStep /\ \E k \in work.pages :
              work' = [work EXCEPT !.pages = @ \ {k},
                          !.at = IF k \in remote[work.from] THEN "upsert" ELSE
                                 IF work.pages = {k} THEN "sweep" ELSE "page",
                          !.key = IF k \in remote[work.from] THEN k ELSE None]
    <3>0. work.at = "page" BY <1>9 DEF FetchPage
    <3>1. WorkTypes'
      <4>1. PICK k \in work.pages :
              work' = [work EXCEPT !.pages = @ \ {k},
                          !.at = IF k \in remote[work.from] THEN "upsert" ELSE
                                 IF work.pages = {k} THEN "sweep" ELSE "page",
                          !.key = IF k \in remote[work.from] THEN k ELSE None]
        BY <2>3
      <4>2. k \in Keys BY DEF WorkTypes, WorkRec
      <4>3. CASE k \in remote[work.from]
        BY <3>0, <4>1, <4>2, <4>3 DEF WorkTypes, WorkRec, Stages, Locked
      <4>4. CASE k \notin remote[work.from]
        BY <3>0, <4>1, <4>2, <4>4 DEF WorkTypes, WorkRec, Stages, Locked
      <4> QED BY <4>3, <4>4
    <3> QED BY <1>9, <1>0, <2>3, <3>1, SameTypes DEF FetchPage
  <2> QED BY <1>9, <2>2, <2>3 DEF FetchPage
<1>10. CASE UpsertPage
  <2>1. row[work.from] \in [Keys -> Marks] BY <1>10 DEF UpsertPage, WorkRec, WorkTypes, TableTypes
  <2>2. TableTypes' BY <1>10, <2>1, RowsAreRows DEF UpsertPage, TableTypes
  <2>3. WorkTypes' BY <1>10 DEF UpsertPage, WorkRec, WorkTypes, Stages, Locked
  <2> QED BY <1>10, <1>0, <2>2, <2>3 DEF UpsertPage
<1>11. CASE Sweep
  <2>1. Locked BY <1>11 DEF Sweep, Locked
  <2>2. row[work.from] \in [Keys -> Marks] BY <1>11 DEF Sweep, WorkRec, WorkTypes, TableTypes
  <2> QED BY <1>11, <2>1, <2>2, RowsAreRows, FinishTypes DEF Sweep, TableTypes
<1>12. CASE Cancel
  <2>1. Locked BY <1>12 DEF Cancel, Locked
  <2> QED BY <1>12, <2>1, FinishTypes DEF Cancel, TableTypes
<1> QED BY <1>1, <1>2, <1>3, <1>4, <1>5, <1>6, <1>7, <1>8, <1>9, <1>10, <1>11, <1>12
        DEF SyncSteps

LEMMA GoesOnCalls == ASSUME CallTypes, Holder, GoesOn PROVE CallTypes' /\ Holder'
BY DEF CallTypes, Holder, GoesOn, Locked

(* The sync that finishes frees the one task that was syncing.               *)
LEMMA FinishCalls ==
    ASSUME CallTypes, NEW p, NEW i, Finish(p, i) PROVE CallTypes' /\ Holder'
<1>1. /\ caller' = [c \in Callers |-> IF caller[c].at = "syncing" THEN NoCall ELSE caller[c]]
      /\ work'.at = "none"
  BY DEF Finish, NoWork
<1>2. CallTypes' BY <1>1 DEF CallTypes, NoCall, Imports
<1> QED BY <1>1, <1>2 DEF Holder, Locked, NoCall

(* A task that begins a sync is the only one that is syncing.                *)
LEMMA BeginTyped ==
    ASSUME Typed, Turn, ~Locked, NEW c \in Callers, NEW import \in Imports, NEW asked \in Nat,
           Begin(c, import, asked), UNCHANGED <<ToggleSide, row, remote, stamp>>
    PROVE  Typed'
<1>1. WorkTypes'
  <2>1. active \in Sources /\ started + 1 \in Nat BY DEF Typed, TableTypes, Turn
  <2>2. NoWork \in WorkRec BY DEF NoWork, WorkRec, Stages, Imports
  <2>3. work' = [NoWork EXCEPT !.at = "read", !.import = import, !.run = started + 1,
                               !.src = active]
    BY DEF Begin
  <2>4. work' \in WorkRec BY <2>1, <2>2, <2>3 DEF WorkRec, Stages
  <2>5. work'.at = "read" /\ work'.src = active BY <2>3 DEF NoWork
  <2> QED BY <2>1, <2>4, <2>5 DEF WorkTypes, Locked
<1>2. TableTypes' /\ ToggleTypes' BY DEF ToggleSide, Typed, TableTypes, ToggleTypes
<1>3. CallTypes' BY DEF Begin, Typed, CallTypes
<1>4. work'.at # "none" BY DEF Begin, NoWork
<1>5. {d \in Callers : caller'[d].at = "syncing"} = {c}
  <2>1. \A d \in Callers : caller'[d].at = "syncing" <=> d = c
    BY DEF Begin, Typed, CallTypes, Holder
  <2> QED BY <2>1
<1>6. Holder' BY <1>4, <1>5 DEF Holder, Locked
<1> QED BY <1>1, <1>2, <1>3, <1>6 DEF Typed

LEMMA CallTyped ==
    ASSUME Typed, Turn, NEW c \in Callers, Call(c) \/ Join(c) PROVE Typed'
<1>1. CASE Call(c)
  <2>1. PICK import \in Imports :
            \/ ~Locked /\ Begin(c, import, imports)
            \/ /\ Locked
               /\ caller' = [caller EXCEPT ![c] = [at |-> "waiting", import |-> import,
                                                   joined |-> started, asked |-> imports]]
               /\ UNCHANGED <<started, work, calm>>
    BY <1>1 DEF Call
  <2>2. UNCHANGED <<ToggleSide, row, remote, stamp>> BY <1>1 DEF Call
  <2>3. CASE ~Locked /\ Begin(c, import, imports) BY <2>2, <2>3, BeginTyped DEF Turn
  <2>4. CASE Locked /\ ~(~Locked /\ Begin(c, import, imports))
    <3>1. /\ caller' = [caller EXCEPT ![c] = [at |-> "waiting", import |-> import,
                                              joined |-> started, asked |-> imports]]
          /\ UNCHANGED <<started, work>>
      BY <2>1, <2>4
    <3>2. CallTypes' BY <3>1 DEF Typed, CallTypes, Turn
    <3>3. \A d \in Callers : caller'[d].at = "syncing" <=> caller[d].at = "syncing"
      BY <1>1, <3>1 DEF Call, Typed, CallTypes
    <3>4. Holder' BY <3>1, <3>3 DEF Typed, Holder, Locked
    <3> QED BY <2>2, <3>1, <3>2, <3>4
            DEF ToggleSide, Typed, TableTypes, ToggleTypes, WorkTypes, Locked
  <2> QED BY <2>1, <2>3, <2>4
<1>2. CASE Join(c)
  <2>1. ~Locked /\ UNCHANGED <<ToggleSide, row, remote, stamp>> BY <1>2 DEF Join
  <2>2. CASE Shared(c)
    <3>1. caller' = [caller EXCEPT ![c] = NoCall] /\ UNCHANGED <<started, work>>
      BY <1>2, <2>2 DEF Join
    <3>2. CallTypes' BY <3>1 DEF Typed, CallTypes, NoCall, Imports
    <3>3. Holder' BY <2>1, <3>1 DEF Typed, Holder, Locked, CallTypes, NoCall
    <3> QED BY <2>1, <3>1, <3>2, <3>3
            DEF ToggleSide, Typed, TableTypes, ToggleTypes, WorkTypes, Locked
  <2>3. CASE ~Shared(c)
    <3>1. Begin(c, caller[c].import, caller[c].asked) BY <1>2, <2>3 DEF Join
    <3>2. caller[c].import \in Imports /\ caller[c].asked \in Nat BY DEF Typed, CallTypes
    <3> QED BY <2>1, <3>1, <3>2, BeginTyped
  <2> QED BY <2>2, <2>3
<1> QED BY <1>1, <1>2

LEMMA CrashTyped == ASSUME Typed, Crash PROVE Typed'
<1>1. TableTypes' BY DEF Crash, Typed, TableTypes
<1>2. ToggleTypes' BY DEF Crash, NoToggle, ToggleTypes, ToggleRec, Steps
<1>3. WorkTypes' BY DEF Crash, NoWork, WorkTypes, WorkRec, Stages, Imports, Locked
<1>4. CallTypes' /\ Holder' BY DEF Crash, NoWork, NoCall, CallTypes, Holder, Imports, Locked
<1> QED BY <1>1, <1>2, <1>3, <1>4 DEF Typed

LEMMA InitTyped == Init => Typed
<1> SUFFICES ASSUME Init PROVE Typed OBVIOUS
<1>1. TableTypes
  <2>1. PICK rows \in [Keys -> Marks], held \in SUBSET Keys :
          /\ row = [src \in Sources |-> IF src = active THEN rows ELSE [k \in Keys |-> "none"]]
          /\ remote = [src \in Sources |-> IF src = active THEN held ELSE {}]
    BY DEF Init
  <2>2. row \in [Sources -> [Keys -> Marks]] BY <2>1 DEF Marks
  <2> QED BY <2>1, <2>2 DEF Init, TableTypes
<1>2. ToggleTypes BY DEF Init, NoToggle, ToggleTypes, ToggleRec, Steps
<1>3. WorkTypes BY DEF Init, NoWork, WorkTypes, WorkRec, Stages, Imports, Locked
<1>4. CallTypes /\ Holder BY DEF Init, NoWork, NoCall, CallTypes, Holder, Imports, Locked
<1> QED BY <1>1, <1>2, <1>3, <1>4 DEF Typed

LEMMA StepTyped == Typed /\ Fresh /\ [Next]_vars => Typed'
<1> SUFFICES ASSUME Typed, Fresh, [Next]_vars PROVE Typed' OBVIOUS
<1>1. CASE \E t \in Togglers : Ask(t) \/ ToggleSteps(t)
  <2>1. GoesOn BY <1>1, ToggleGoesOn DEF Fresh
  <2>2. ToggleTypes' /\ TableTypes' /\ WorkTypes' BY <1>1, ToggleTyped
  <2> QED BY <2>1, <2>2, GoesOnCalls DEF Typed
<1>2. CASE \E c \in Callers : Call(c) \/ Join(c)
  BY <1>2, CallTyped DEF Fresh
<1>3. CASE SyncSteps \/ Cancel
  <2>1. ToggleTypes' /\ TableTypes' /\ WorkTypes' BY <1>3, SyncTyped
  <2>2. CallTypes' /\ Holder'
    BY <1>3, SyncGoesOnOrEnds, GoesOnCalls, FinishCalls DEF Fresh, Typed
  <2> QED BY <2>1, <2>2 DEF Typed
<1>4. CASE OtherDevice
  <2>1. GoesOn BY <1>4 DEF OtherDevice, SyncSide, GoesOn
  <2>2. TableTypes' BY <1>4, ToldTypes DEF OtherDevice, ToggleSide, Typed, TableTypes
  <2>3. ToggleTypes' /\ WorkTypes'
    BY <1>4 DEF OtherDevice, ToggleSide, Typed, ToggleTypes, WorkTypes, Locked
  <2> QED BY <2>1, <2>2, <2>3, GoesOnCalls DEF Typed
<1>5. CASE SwitchSource
  <2>1. GoesOn BY <1>5 DEF SwitchSource, SyncSide, GoesOn
  <2>2. TableTypes' BY <1>5 DEF SwitchSource, Typed, TableTypes
  <2>3. ToggleTypes' /\ WorkTypes'
    BY <1>5 DEF SwitchSource, Typed, ToggleTypes, WorkTypes, Locked
  <2> QED BY <2>1, <2>2, <2>3, GoesOnCalls DEF Typed
<1>6. CASE Crash BY <1>6, CrashTyped
<1>7. CASE UNCHANGED vars
  BY <1>7 DEF vars, Typed, TableTypes, ToggleTypes, WorkTypes, CallTypes, Holder, Locked
<1> QED BY <1>1, <1>2, <1>3, <1>4, <1>5, <1>6, <1>7 DEF Next

LEMMA TypedIsTypeOK == ASSUME Typed, Fresh PROVE TypeOK
<1>1. Cardinality({c \in Callers : caller[c].at = "syncing"}) = IF Locked THEN 1 ELSE 0
  <2>1. CASE Locked BY <2>1, FS_Singleton DEF Typed, Holder
  <2>2. CASE ~Locked
    <3>1. {c \in Callers : caller[c].at = "syncing"} = {} BY <2>2 DEF Typed, Holder
    <3> QED BY <2>2, <3>1, FS_EmptySet
  <2> QED BY <2>1, <2>2
<1>2. flight.finished + (IF Locked THEN 1 ELSE 0) = started BY DEF Fresh, Turn
<1>3. \A t \in Togglers : toggle[t].at \in Steps BY DEF Typed, ToggleTypes, ToggleRec
<1>4. \A c \in Callers : caller[c].at \in {"idle", "waiting", "syncing"}
  BY DEF Typed, CallTypes
<1> QED BY <1>1, <1>2, <1>3, <1>4 DEF TypeOK, Typed, TableTypes, Steps

(* The state has its types and the lock its meaning: one task syncs while    *)
(* work is held, none otherwise, and syncs finish in the order they started  *)
(* (favorites/mod.rs, sync; favorites/sync.rs, pull.rs).                     *)
THEOREM OneSyncAtATime == Spec => []TypeOK
<1>1. Init => Fresh /\ Typed BY InitIsFresh, InitTyped
<1>2. Fresh /\ Typed /\ [Next]_vars => Fresh' /\ Typed' BY StepIsFresh, StepTyped
<1>3. Fresh /\ Typed => TypeOK BY TypedIsTypeOK
<1> QED BY <1>1, <1>2, <1>3, PTL DEF Spec

-----------------------------------------------------------------------------
(* What a sync that nothing has disturbed knows: no client call is in        *)
(* progress, the source is still the active one, and the walk has stamped    *)
(* and stored every track of the remote but those of the pages to come.      *)
Early == {"read", "push", "pushed", "replace", "import", "list", "store"}
Walk == {"page", "upsert", "sweep"}
Walked ==
    /\ work.stamped \subseteq remote[active]
    /\ \A k \in remote[active] :
          \/ k \in work.pages
          \/ work.at = "upsert" /\ k = work.key
          \/ k \in work.stamped /\ row[active][k] # "none"
Quiet ==
    Locked /\ calm =>
        /\ \A t \in Togglers : toggle[t].at = "idle"
        /\ work.src = active
        /\ work.at \in Early => work.stamped = {}
        /\ work.at \in Walk \cup {"list", "store"} => work.from = active
        /\ work.at = "store" => work.fetched = remote[active]
        /\ work.at \in Walk => Walked
        /\ work.at = "upsert" => work.key \in remote[active]
        /\ work.at = "sweep" => work.pages = {}

Agreed == imports' > imports /\ calm => Agrees(work.src)

LEMMA SameImports == ASSUME imports \in Nat, imports' = imports PROVE Agreed
BY DEF Agreed

LEMMA FinishQuiet == ASSUME NEW p, NEW i, Finish(p, i) PROVE Quiet'
BY DEF Finish, NoWork, Quiet, Locked

LEMMA ToggleQuiet ==
    ASSUME Quiet, Shapes, NEW t \in Togglers, Ask(t) \/ ToggleSteps(t) PROVE Quiet'
<1>1. GoesOn BY ToggleGoesOn
<1>2. CASE Locked
  <2>1. CASE Check(t) BY <1>1, <1>2, <2>1 DEF Check, Quiet, Locked, GoesOn
  <2>2. CASE ~Check(t)
    <3>1. calm' = FALSE
      BY <1>2, <2>2 DEF Ask, ToggleSteps, Write, ClearDirty, Pushed, Rejected, Reverted,
                        Disturbed, Locked
    <3> QED BY <3>1 DEF Quiet
  <2> QED BY <2>1, <2>2
<1>3. CASE ~Locked BY <1>1, <1>3 DEF GoesOn, Quiet, Locked
<1> QED BY <1>2, <1>3

LEMMA CallQuiet ==
    ASSUME Quiet, NEW c \in Callers, Call(c) \/ Join(c) PROVE Quiet'
<1>1. UNCHANGED <<active, toggle, row, remote>> BY DEF Call, Join, ToggleSide
<1>2. CASE UNCHANGED <<work, calm>>
  BY <1>1, <1>2 DEF Quiet, Walked, Locked
<1>3. CASE \E import, asked : Begin(c, import, asked)
  <2>1. /\ work'.at = "read" /\ work'.src = active /\ work'.stamped = {}
        /\ calm' = \A t \in Togglers : toggle[t].at = "idle"
    BY <1>3 DEF Begin, NoWork
  <2> QED BY <1>1, <2>1 DEF Quiet, Early, Walk
<1> QED BY <1>2, <1>3 DEF Call, Join

(* An import of the whole list agrees with the list.                         *)
LEMMA ListAgrees ==
    ASSUME Typed, Quiet, StoreList PROVE Agreed
<1> SUFFICES ASSUME calm, NEW k \in Keys
             PROVE  \/ row'[work.src][k] \in {"like", "unlike"}
                    \/ row'[work.src][k] = "clean" <=> k \in remote'[work.src]
  BY DEF Agreed, Agrees
<1>1. /\ work.src = active /\ work.from = active /\ work.fetched = remote[active]
      /\ active \in Sources
  BY DEF StoreList, Quiet, Locked, Typed, TableTypes
<1>2. row'[active] = Replaced(row[active], remote[active]) /\ remote' = remote
  BY <1>1 DEF StoreList, Typed, TableTypes
<1>3. row[active][k] \in Marks BY <1>1 DEF Typed, TableTypes
<1> QED BY <1>1, <1>2, <1>3 DEF Replaced, Marks

(* So does a walk that has come to its sweep.                                *)
LEMMA WalkAgrees ==
    ASSUME Typed, Quiet, Sweep PROVE Agreed
<1> SUFFICES ASSUME calm, NEW k \in Keys
             PROVE  \/ row'[work.src][k] \in {"like", "unlike"}
                    \/ row'[work.src][k] = "clean" <=> k \in remote'[work.src]
  BY DEF Agreed, Agrees
<1>1. /\ work.src = active /\ work.from = active /\ work.pages = {} /\ Walked
      /\ work.at = "sweep" /\ active \in Sources
  BY DEF Sweep, Quiet, Walk, Locked, Typed, TableTypes
<1>2. row'[active] = Swept(row[active], work.stamped) /\ remote' = remote
  BY <1>1 DEF Sweep, Typed, TableTypes
<1>3. row[active][k] \in Marks BY <1>1 DEF Typed, TableTypes
<1>4. k \in work.stamped => k \in remote[active] BY <1>1 DEF Walked
<1>5. k \in remote[active] => k \in work.stamped /\ row[active][k] # "none"
  BY <1>1 DEF Walked
<1> QED BY <1>1, <1>2, <1>3, <1>4, <1>5 DEF Swept, Marks

(* The push and the replacement leave the stamps and the source alone.       *)
LEMMA ReconcileQuiet ==
    ASSUME Typed, Quiet, SyncStep, Locked,
           work'.src = work.src, work'.stamped = work.stamped,
           work.at \in Early, work'.at \in {"read", "push", "pushed", "replace", "import"}
    PROVE  Quiet'
BY DEF Quiet, SyncStep, Early, Walk, Locked

LEMMA SyncQuiet ==
    ASSUME Typed, Quiet, imports \in Nat, SyncSteps \/ Cancel PROVE Quiet' /\ Agreed
<1> USE DEF Typed, SyncStep, WorkTypes
<1>0. ASSUME UNCHANGED imports PROVE Agreed BY <1>0, SameImports
<1>1. CASE ReadPending
  <2>1. work'.src = work.src /\ work'.stamped = work.stamped /\ work'.at \in {"push", "import"}
    BY <1>1 DEF ReadPending, WorkRec, Reconciled
  <2> QED BY <1>0, <1>1, <2>1, ReconcileQuiet DEF ReadPending, Locked, Early
<1>2. CASE PushNext
  <2>1. work'.src = work.src /\ work'.stamped = work.stamped /\ work'.at \in {"push", "pushed"}
    BY <1>2 DEF PushNext, WorkRec
  <2>2. UNCHANGED <<active, toggle, calm, imports>> BY <1>2 DEF PushNext
  <2>3. Quiet' BY <1>2, <2>1, <2>2 DEF PushNext, Quiet, Early, Walk, Locked
  <2> QED BY <1>0, <2>2, <2>3
<1>3. CASE ClearPushed
  <2>1. work'.src = work.src /\ work'.stamped = work.stamped /\ work'.at = "push"
    BY <1>3 DEF ClearPushed, WorkRec
  <2> QED BY <1>0, <1>3, <2>1, ReconcileQuiet DEF ClearPushed, Locked, Early
<1>4. CASE FetchRemote
  <2>1. \/ work' = Reconciled("ok") \/ work' = Reconciled("err")
        \/ work' = [work EXCEPT !.at = "replace", !.fetched = remote[work.src]]
    BY <1>4 DEF FetchRemote
  <2>2. work'.src = work.src /\ work'.stamped = work.stamped /\ work'.at \in {"replace", "import"}
    BY <2>1 DEF WorkRec, Reconciled
  <2> QED BY <1>0, <1>4, <2>2, ReconcileQuiet DEF FetchRemote, Locked, Early
<1>5. CASE Replace
  <2>1. work'.src = work.src /\ work'.stamped = work.stamped /\ work'.at = "import"
    BY <1>5 DEF Replace, WorkRec, Reconciled
  <2> QED BY <1>0, <1>5, <2>1, ReconcileQuiet DEF Replace, Locked, Early
<1>6. CASE StartImport
  <2>1. CASE Finish("ok", FALSE)
    BY <1>0, <2>1, FinishQuiet DEF Finish
  <2>2. CASE SyncStep /\ work' = [work EXCEPT !.at = IF active \in Paginated THEN "page" ELSE "list",
                                  !.from = active, !.pages = Keys]
    <3>1. /\ work'.src = work.src /\ work'.stamped = work.stamped /\ work'.from = active
          /\ work'.pages = Keys /\ work'.at \in {"page", "list"}
      BY <2>2 DEF WorkRec
    <3>2. remote[active] \subseteq Keys BY DEF TableTypes
    <3> QED BY <1>0, <1>6, <2>2, <3>1, <3>2
            DEF StartImport, Quiet, Walked, Walk, Early, Locked
  <2> QED BY <1>6, <2>1, <2>2 DEF StartImport
<1>7. CASE FetchList
  <2>1. CASE Finish("err", FALSE)
    BY <1>0, <2>1, FinishQuiet DEF Finish
  <2>2. CASE SyncStep /\ work' = [work EXCEPT !.at = "store", !.fetched = remote[work.from]]
    <3>1. /\ work'.src = work.src /\ work'.stamped = work.stamped /\ work'.from = work.from
          /\ work'.at = "store" /\ work'.fetched = remote[work.from]
      BY <2>2 DEF WorkRec
    <3> QED BY <1>0, <1>7, <2>2, <3>1 DEF FetchList, Quiet, Walk, Early, Locked
  <2> QED BY <1>7, <2>1, <2>2 DEF FetchList
<1>8. CASE StoreList
  BY <1>8, ListAgrees, FinishQuiet DEF StoreList
<1>9. CASE FetchPage
  <2>1. CASE Finish("err", FALSE)
    BY <1>0, <2>1, FinishQuiet DEF Finish
  <2>2. CASE SyncStep /\ ~Finish("err", FALSE)
    <3>1. PICK k \in work.pages :
             work' = [work EXCEPT !.pages = @ \ {k},
                          !.at = IF k \in remote[work.from] THEN "upsert" ELSE
                                 IF work.pages = {k} THEN "sweep" ELSE "page",
                          !.key = IF k \in remote[work.from] THEN k ELSE None]
      BY <1>9, <2>2 DEF FetchPage
    <3>2. /\ work'.src = work.src /\ work'.stamped = work.stamped /\ work'.from = work.from
          /\ work'.pages = work.pages \ {k}
          /\ work'.at = IF k \in remote[work.from] THEN "upsert" ELSE
                        IF work.pages = {k} THEN "sweep" ELSE "page"
          /\ work'.key = IF k \in remote[work.from] THEN k ELSE None
      BY <3>1 DEF WorkRec
    <3>3. work.at = "page" /\ UNCHANGED <<row, remote>> BY <1>9 DEF FetchPage
    <3>4. ASSUME Locked, calm PROVE Walked'
      <4>1. Walked /\ work.from = active BY <3>3, <3>4 DEF Quiet, Walk
      <4> QED BY <2>2, <3>2, <3>3, <4>1 DEF Walked
    <3>5. Quiet' BY <2>2, <3>2, <3>3, <3>4 DEF Quiet, Walk, Early, Locked
    <3> QED BY <1>0, <2>2, <3>5
  <2> QED BY <1>9, <2>1, <2>2 DEF FetchPage
<1>10. CASE UpsertPage
  <2>1. /\ work'.src = work.src /\ work'.stamped = work.stamped \cup {work.key}
        /\ work'.from = work.from /\ work'.pages = work.pages
        /\ work'.at = IF work.pages = {} THEN "sweep" ELSE "page"
    BY <1>10 DEF UpsertPage, WorkRec
  <2>2. /\ work.at = "upsert" /\ remote' = remote /\ work.key \in Keys
        /\ row' = [row EXCEPT ![work.from] = Upserted(row[work.from], work.key)]
    BY <1>10 DEF UpsertPage
  <2>3. ASSUME Locked, calm PROVE Walked'
    <3>1. Walked /\ work.from = active /\ work.key \in remote[active] /\ active \in Sources
      BY <2>2, <2>3 DEF Quiet, Walk, TableTypes
    <3>2. row[active] \in [Keys -> Marks] /\ row'[active] = Upserted(row[active], work.key)
      BY <2>2, <3>1 DEF TableTypes
    <3>3. \A j \in Keys : row[active][j] # "none" => row'[active][j] # "none"
      BY <3>2 DEF Upserted
    <3>4. row'[active][work.key] # "none" BY <2>2, <3>2 DEF Upserted
    <3>5. remote[active] \subseteq Keys BY DEF TableTypes
    <3> QED BY <1>10, <2>1, <2>2, <3>1, <3>3, <3>4, <3>5 DEF UpsertPage, Walked
  <2>4. Quiet' BY <1>10, <2>1, <2>2, <2>3 DEF UpsertPage, Quiet, Walk, Early, Locked
  <2> QED BY <1>0, <1>10, <2>4 DEF UpsertPage
<1>11. CASE Sweep
  BY <1>11, WalkAgrees, FinishQuiet DEF Sweep
<1>12. CASE Cancel
  BY <1>0, <1>12, FinishQuiet DEF Cancel, Finish
<1> QED BY <1>1, <1>2, <1>3, <1>4, <1>5, <1>6, <1>7, <1>8, <1>9, <1>10, <1>11, <1>12
        DEF SyncSteps

LEMMA StepQuiet == Typed /\ Fresh /\ Quiet /\ [Next]_vars => Quiet' /\ Agreed
<1> SUFFICES ASSUME Typed, Fresh, Quiet, [Next]_vars PROVE Quiet' /\ Agreed OBVIOUS
<1>0. imports \in Nat BY DEF Fresh, Turn
<1>1. CASE \E t \in Togglers : Ask(t) \/ ToggleSteps(t)
  <2>1. GoesOn BY <1>1, ToggleGoesOn DEF Fresh
  <2> QED BY <1>0, <1>1, <2>1, ToggleQuiet, SameImports DEF Fresh, GoesOn
<1>2. CASE \E c \in Callers : Call(c) \/ Join(c)
  <2>1. imports' = imports BY <1>2 DEF Call, Join
  <2> QED BY <1>0, <1>2, <2>1, CallQuiet, SameImports
<1>3. CASE SyncSteps \/ Cancel BY <1>0, <1>3, SyncQuiet
<1>4. CASE OtherDevice \/ SwitchSource
  <2>1. imports' = imports /\ work' = work /\ calm' = ~Locked
    BY <1>4 DEF OtherDevice, SwitchSource, SyncSide
  <2> QED BY <1>0, <2>1, SameImports DEF Quiet, Locked
<1>5. CASE Crash BY <1>0, <1>5 DEF Crash, Agreed, NoWork, Quiet, Locked
<1>6. CASE UNCHANGED vars
  <2>1. Quiet' BY <1>6 DEF vars, Quiet, Walked, Locked
  <2> QED BY <1>0, <1>6, <2>1, SameImports DEF vars
<1> QED BY <1>1, <1>2, <1>3, <1>4, <1>5, <1>6 DEF Next

(* An import that nothing disturbed leaves the table saying what the remote  *)
(* holds, but for the tracks whose push was refused (favorites/sync.rs and   *)
(* pull.rs: the push goes first, the sweep and the replacement last).        *)
THEOREM UndisturbedImportsAgree == Spec => ImportAgrees
<1>1. Init => Fresh /\ Typed /\ Quiet BY InitIsFresh, InitTyped DEF Init, NoWork, Quiet, Locked
<1>2. Fresh /\ Typed /\ Quiet /\ [Next]_vars => Fresh' /\ Typed' /\ Quiet'
  BY StepIsFresh, StepTyped, StepQuiet
<1>3. Fresh /\ Typed /\ Quiet /\ [Next]_vars => (imports' > imports /\ calm => Agrees(work.src))
  BY StepQuiet DEF Agreed
<1> QED BY <1>1, <1>2, <1>3, PTL DEF Spec, ImportAgrees

-----------------------------------------------------------------------------
(* Single flight (Schedule).                                                 *)
(*                                                                         *)
(* SingleFlight speaks of the jobs' tasks, which no start looks at.  The     *)
(* argument goes through the registry: every task has a running entry of its *)
(* own (Registered), ids are never shared (IdsDiffer), and no kind has two   *)
(* running entries (OneRunning), which is what a start looks for.  What has   *)
(* to be shown of the retention is that it forgets no running entry and      *)
(* repeats none.                                                           *)

Entry == [id : Ids, kind : KindSet, running : BOOLEAN]
Task == [id : Ids, kind : KindSet, at : {"spawned", "working", "ended"},
         source : Servers \cup {Local}, cancelled : BOOLEAN]

RegistryTypes == entries \in Seq(Entry) /\ tasks \subseteq Task
CheckTypes ==
    /\ check.at \in {"begin", "plan", "wait"}
    /\ check.at = "plan" =>
          /\ DOMAIN check = {"at", "kinds", "due", "next", "blocked"}
          /\ check.kinds \in Seq(KindSet) /\ check.due \in Seq(KindSet)
ConfTypes == conf \in [active : Servers \cup {Local}, interval : {0, Interval}, offline : BOOLEAN]

Own(i, task) == entries[i].id = task.id /\ entries[i].kind = task.kind /\ entries[i].running
Registered == \A task \in tasks : \E i \in DOMAIN entries : Own(i, task)
IdsDiffer ==
    /\ \A i, j \in DOMAIN entries : entries[i].id = entries[j].id => i = j
    /\ \A task, other \in tasks : task.id = other.id => task = other
OneRunning ==
    \A i, j \in DOMAIN entries :
        entries[i].running /\ entries[j].running /\ entries[i].kind = entries[j].kind => i = j

Inv == RegistryTypes /\ Registered /\ IdsDiffer /\ OneRunning

-----------------------------------------------------------------------------
(* The retention: it returns entries of the registry, each from a place of   *)
(* its own, and every running one of them.                                   *)
LEMMA RetainedKeepsRunning ==
    ASSUME NEW jobs \in Seq(Entry)
    PROVE  /\ Retained(jobs) \in Seq(Entry)
           /\ \E from \in [DOMAIN Retained(jobs) -> DOMAIN jobs] :
                 /\ \A i \in DOMAIN Retained(jobs) : Retained(jobs)[i] = jobs[from[i]]
                 /\ \A i, j \in DOMAIN Retained(jobs) : from[i] = from[j] => i = j
           /\ \A k \in DOMAIN jobs : jobs[k].running =>
                 \E i \in DOMAIN Retained(jobs) : Retained(jobs)[i] = jobs[k]
<1> DEFINE ended == {i \in DOMAIN jobs : ~jobs[i].running}
           n == CHOOSE i \in ended : \A j \in ended : i <= j
<1>0. DOMAIN jobs = 1 .. Len(jobs) /\ Len(jobs) \in Nat
  OBVIOUS
<1>1. CASE Len(jobs) < RetainedJobs \/ ended = {}
  <2>1. Retained(jobs) = jobs
    BY <1>1 DEF Retained
  <2> DEFINE self == [i \in DOMAIN jobs |-> i]
  <2>2. /\ self \in [DOMAIN jobs -> DOMAIN jobs]
        /\ \A i \in DOMAIN jobs : self[i] = i
    OBVIOUS
  <2> HIDE DEF self
  <2> QED
    BY <2>1, <2>2
<1>2. CASE ~(Len(jobs) < RetainedJobs \/ ended = {})
  <2>1. \E i \in ended : \A j \in ended : i <= j
    <3>1. ended \subseteq Nat /\ ended # {}
      BY <1>0, <1>2
    <3>2. \E i \in ended : \A j \in ended : ~ (<<j, i>> \in OpToRel(<, Nat))
      BY <3>1, NatLessThanWellFounded, WFMin
    <3>3. OpToRel(<, Nat) = {ss \in Nat \X Nat : ss[1] < ss[2]}
      BY Zenon DEF OpToRel
    <3>4. \A i, j \in Nat : ~ (<<j, i>> \in {ss \in Nat \X Nat : ss[1] < ss[2]}) => i <= j
      OBVIOUS
    <3> HIDE DEF ended
    <3> QED
      BY <3>1, <3>2, <3>3, <3>4
  <2>2. n \in 1 .. Len(jobs) /\ ~jobs[n].running
    BY <2>1, <1>0
  <2>3. Retained(jobs) = SubSeq(jobs, 1, n - 1) \o SubSeq(jobs, n + 1, Len(jobs))
    BY <1>2 DEF Retained, RemoveAt
  <2> HIDE DEF n, ended
  <2> DEFINE front == SubSeq(jobs, 1, n - 1)
             back == SubSeq(jobs, n + 1, Len(jobs))
             at == [i \in 1 .. Len(jobs) - 1 |-> IF i < n THEN i ELSE i + 1]
  <2>4. /\ front \in Seq(Entry) /\ Len(front) = n - 1
        /\ \A i \in 1 .. n - 1 : front[i] = jobs[i]
    <3>1. \A i \in 1 .. n - 1 : jobs[i] \in Entry
      BY <2>2, <1>0
    <3> QED
      BY <3>1, <2>2, <1>0, SubSeqProperties
  <2>5. /\ back \in Seq(Entry) /\ Len(back) = Len(jobs) - n
        /\ \A i \in 1 .. Len(jobs) - n : back[i] = jobs[n + i]
    <3>1. \A i \in n + 1 .. Len(jobs) : jobs[i] \in Entry
      BY <2>2, <1>0
    <3>2. /\ back \in Seq(Entry)
          /\ Len(back) = IF n + 1 <= Len(jobs) THEN Len(jobs) - (n + 1) + 1 ELSE 0
          /\ \A i \in 1 .. Len(jobs) - (n + 1) + 1 : back[i] = jobs[n + 1 + i - 1]
      BY <3>1, <2>2, <1>0, SubSeqProperties
    <3> HIDE DEF back
    <3>3. Len(back) = Len(jobs) - n
      <4>1. CASE n + 1 <= Len(jobs)
        BY <3>2, <4>1, <2>2, <1>0
      <4>2. CASE n = Len(jobs)
        BY <3>2, <4>2, <1>0
      <4>3. n + 1 <= Len(jobs) \/ n = Len(jobs)
        <5>1. \A m \in Nat : \A k \in 1 .. m : k + 1 <= m \/ k = m
          OBVIOUS
        <5> QED
          BY <5>1, <2>2, <1>0
      <4> QED
        BY <4>1, <4>2, <4>3
    <3>4. ASSUME NEW i \in 1 .. Len(jobs) - n
          PROVE  back[i] = jobs[n + i]
      <4>1. i \in 1 .. Len(jobs) - (n + 1) + 1 /\ n + 1 + i - 1 = n + i
        BY <2>2, <1>0
      <4> QED
        BY <4>1, <3>2
    <3> QED
      BY <3>2, <3>3, <3>4
  <2> HIDE DEF front, back
  <2>6. /\ Retained(jobs) \in Seq(Entry) /\ Len(Retained(jobs)) = Len(jobs) - 1
        /\ \A i \in 1 .. Len(jobs) - 1 :
              Retained(jobs)[i] = IF i <= n - 1 THEN front[i] ELSE back[i - (n - 1)]
    <3>1. Retained(jobs) = front \o back
      BY <2>3 DEF front, back
    <3> QED
      BY <3>1, <2>2, <2>4, <2>5, <1>0, ConcatProperties
  <2>7. DOMAIN Retained(jobs) = 1 .. Len(jobs) - 1
    BY <2>6
  <2>8. ASSUME NEW i \in 1 .. Len(jobs) - 1
        PROVE  Retained(jobs)[i] = jobs[at[i]]
    <3>1. CASE i < n
      <4>1. i \in 1 .. n - 1 /\ i <= n - 1 /\ at[i] = i
        BY <2>2, <1>0, <3>1
      <4> QED
        BY <4>1, <2>4, <2>6
    <3>2. CASE ~(i < n)
      <4>1. /\ i - (n - 1) \in 1 .. Len(jobs) - n
            /\ n + (i - (n - 1)) = i + 1
            /\ ~(i <= n - 1) /\ at[i] = i + 1
        BY <2>2, <1>0, <3>2
      <4>2. back[i - (n - 1)] = jobs[i + 1]
        BY <4>1, <2>5
      <4> QED
        BY <4>1, <4>2, <2>6
    <3> QED
      BY <3>1, <3>2
  <2>9. /\ at \in [DOMAIN Retained(jobs) -> DOMAIN jobs]
        /\ \A i, j \in DOMAIN Retained(jobs) : at[i] = at[j] => i = j
    BY <2>2, <2>7, <1>0
  <2>10. ASSUME NEW k \in DOMAIN jobs, jobs[k].running
         PROVE  \E i \in DOMAIN Retained(jobs) : Retained(jobs)[i] = jobs[k]
    <3>1. k # n
      BY <2>2, <2>10
    <3>2. CASE k < n
      BY <3>2, <2>2, <2>7, <2>8, <1>0
    <3>3. CASE k > n
      <4>1. k - 1 \in 1 .. Len(jobs) - 1 /\ at[k - 1] = k
        BY <3>3, <2>2, <1>0
      <4> QED
        BY <4>1, <2>7, <2>8
    <3> QED
      BY <3>1, <3>2, <3>3, <2>2, <1>0
  <2> QED
    BY <2>6, <2>7, <2>8, <2>9, <2>10
<1> QED
  BY <1>1, <1>2

-----------------------------------------------------------------------------
(* What each kind of step does to the registry.                              *)

LEMMA TypesGive ==
    ASSUME RegistryTypes
    PROVE  /\ DOMAIN entries = 1 .. Len(entries) /\ Len(entries) \in Nat
           /\ \A i \in DOMAIN entries : entries[i] \in Entry
           /\ \A task \in tasks : task \in Task
BY DEF RegistryTypes

\* A task goes on as the same job.
LEMMA TaskMoves ==
    ASSUME Inv, NEW task \in tasks, NEW next \in Task,
           next.id = task.id, next.kind = task.kind,
           tasks' = (tasks \ {task}) \cup {next}, UNCHANGED entries
    PROVE  Inv'
<1>1. RegistryTypes'
  BY DEF Inv, RegistryTypes
<1>2. Registered'
  BY DEF Inv, Registered, Own
<1>3. IdsDiffer'
  BY DEF Inv, IdsDiffer
<1>4. OneRunning'
  BY DEF Inv, OneRunning
<1> QED
  BY <1>1, <1>2, <1>3, <1>4 DEF Inv

\* A start: the new job's id is nobody's, its kind has no running entry, and what
\* the retention forgets belongs to no task.
LEMMA StartKeeps ==
    ASSUME Inv, NEW kind \in KindSet, ~Running(kind), Start(kind)
    PROVE  Inv'
<1> DEFINE id == CHOOSE free \in FreeIds : TRUE
           kept == Retained(entries)
           entry == [id |-> id, kind |-> kind, running |-> TRUE]
           task == [id |-> id, kind |-> kind, at |-> "spawned", source |-> Local,
                    cancelled |-> FALSE]
<1>1. entries' = Append(kept, entry) /\ tasks' = tasks \cup {task}
  BY DEF Start
<1>2. /\ id \in Ids
      /\ \A i \in DOMAIN entries : entries[i].id # id
      /\ \A other \in tasks : other.id # id
  BY DEF Start, FreeIds
<1>3. entry \in Entry /\ entry.id = id /\ entry.kind = kind /\ entry.running
  BY <1>2 DEF Entry
<1>4. task \in Task /\ task.id = id /\ task.kind = kind
  BY <1>2 DEF Task
<1>5. /\ kept \in Seq(Entry)
      /\ \A k \in DOMAIN entries : entries[k].running => \E i \in DOMAIN kept : kept[i] = entries[k]
  BY RetainedKeepsRunning DEF Inv, RegistryTypes
<1>6. PICK from \in [DOMAIN kept -> DOMAIN entries] :
          /\ \A i \in DOMAIN kept : kept[i] = entries[from[i]]
          /\ \A i, j \in DOMAIN kept : from[i] = from[j] => i = j
  BY RetainedKeepsRunning DEF Inv, RegistryTypes
<1> HIDE DEF id, kept, entry, task
<1>7. /\ entries' \in Seq(Entry)
      /\ DOMAIN kept = 1 .. Len(kept) /\ Len(kept) \in Nat
      /\ DOMAIN entries' = 1 .. Len(kept) + 1
      /\ \A i \in DOMAIN kept : entries'[i] = kept[i]
      /\ entries'[Len(kept) + 1] = entry
  BY <1>1, <1>3, <1>5
<1>8. \A i \in DOMAIN entries' : i \in DOMAIN kept \/ i = Len(kept) + 1
  BY <1>7
<1>9. \A i \in DOMAIN kept : entries'[i] = entries[from[i]] /\ from[i] \in DOMAIN entries
  BY <1>6, <1>7
<1>10. RegistryTypes'
  BY <1>1, <1>4, <1>7 DEF Inv, RegistryTypes
<1>11. Registered'
  <2> SUFFICES ASSUME NEW other \in tasks'
               PROVE  \E i \in DOMAIN entries' :
                         entries'[i].id = other.id /\ entries'[i].kind = other.kind
                         /\ entries'[i].running
    BY DEF Registered, Own
  <2>1. CASE other = task
    <3>1. /\ Len(kept) + 1 \in DOMAIN entries'
          /\ entries'[Len(kept) + 1].id = other.id /\ entries'[Len(kept) + 1].kind = other.kind
          /\ entries'[Len(kept) + 1].running
      BY <2>1, <1>3, <1>4, <1>7
    <3> QED
      BY <3>1
  <2>2. CASE other \in tasks
    <3>1. PICK k \in DOMAIN entries : Own(k, other)
      BY <2>2 DEF Inv, Registered
    <3>2. PICK i \in DOMAIN kept : kept[i] = entries[k]
      BY <3>1, <1>5 DEF Own
    <3>3. i \in DOMAIN entries' /\ entries'[i] = entries[k]
      BY <3>2, <1>7
    <3> QED
      BY <3>1, <3>3 DEF Own
  <2> QED
    BY <2>1, <2>2, <1>1
<1>12. IdsDiffer'
  <2>1. ASSUME NEW i \in DOMAIN entries', NEW j \in DOMAIN entries',
               entries'[i].id = entries'[j].id
        PROVE  i = j
    BY <2>1, <1>2, <1>3, <1>6, <1>7, <1>8, <1>9 DEF Inv, IdsDiffer
  <2>2. \A other, another \in tasks' : other.id = another.id => other = another
    BY <1>1, <1>2, <1>4 DEF Inv, IdsDiffer
  <2> QED
    BY <2>1, <2>2 DEF IdsDiffer
<1>13. OneRunning'
  <2> SUFFICES ASSUME NEW i \in DOMAIN entries', NEW j \in DOMAIN entries',
                      entries'[i].running, entries'[j].running,
                      entries'[i].kind = entries'[j].kind
               PROVE  i = j
    BY DEF OneRunning
  <2>1. \A n \in DOMAIN kept : entries'[n].running => entries'[n].kind # kind
    BY <1>9 DEF Running
  <2> QED
    BY <2>1, <1>3, <1>6, <1>7, <1>8, <1>9 DEF Inv, OneRunning
<1> QED
  BY <1>10, <1>11, <1>12, <1>13 DEF Inv

\* A job ends: its entry was its own, so every other task keeps a running one.
LEMMA EndKeeps ==
    ASSUME Inv, NEW task \in tasks, JobEnds(task)
    PROVE  Inv'
<1>1. /\ DOMAIN entries' = DOMAIN entries
      /\ \A i \in DOMAIN entries :
            /\ entries'[i].id = entries[i].id /\ entries'[i].kind = entries[i].kind
            /\ entries'[i].running => entries[i].running
            /\ entries[i].id # task.id => entries'[i] = entries[i]
      /\ entries' \in Seq(Entry)
  <2>1. /\ DOMAIN entries = 1 .. Len(entries) /\ Len(entries) \in Nat
        /\ \A i \in DOMAIN entries : entries[i] \in Entry
    BY TypesGive DEF Inv
  <2>2. /\ DOMAIN entries' = 1 .. Len(entries)
        /\ \A i \in 1 .. Len(entries) :
              entries'[i] = IF entries[i].id = task.id THEN [entries[i] EXCEPT !.running = FALSE]
                            ELSE entries[i]
    BY <2>1 DEF JobEnds
  <2>3. \A entry \in Entry : /\ [entry EXCEPT !.running = FALSE] \in Entry
                            /\ [entry EXCEPT !.running = FALSE].id = entry.id
                            /\ [entry EXCEPT !.running = FALSE].kind = entry.kind
                            /\ ~[entry EXCEPT !.running = FALSE].running
    BY DEF Entry
  <2>4. \A i \in 1 .. Len(entries) : entries'[i] \in Entry
    BY <2>1, <2>2, <2>3
  <2>5. entries' = [i \in 1 .. Len(entries) |-> entries'[i]]
    BY <2>1, <2>2 DEF JobEnds
  <2>6. entries' \in Seq(Entry)
    BY <2>1, <2>4, <2>5
  <2> QED
    BY <2>1, <2>2, <2>3, <2>6
<1>2. tasks' = tasks \ {task}
  BY DEF JobEnds
<1>3. RegistryTypes'
  BY <1>1, <1>2 DEF Inv, RegistryTypes
<1>4. Registered'
  <2> SUFFICES ASSUME NEW other \in tasks'
               PROVE  \E i \in DOMAIN entries' : Own(i, other)'
    BY DEF Registered
  <2>1. other \in tasks /\ other.id # task.id
    BY <1>2 DEF Inv, IdsDiffer
  <2>2. PICK i \in DOMAIN entries : Own(i, other)
    BY <2>1 DEF Inv, Registered
  <2> QED
    BY <1>1, <2>1, <2>2 DEF Own
<1>5. IdsDiffer'
  BY <1>1, <1>2 DEF Inv, IdsDiffer
<1>6. OneRunning'
  BY <1>1 DEF Inv, OneRunning
<1> QED
  BY <1>3, <1>4, <1>5, <1>6 DEF Inv

\* A cancelled job is still running.
LEMMA CancelKeeps ==
    ASSUME Inv, CancelJob
    PROVE  Inv'
<1>1. PICK i \in DOMAIN entries :
          /\ entries' = [entries EXCEPT ![i] = Cancelling(@)]
          /\ tasks' = {IF task.id = entries[i].id THEN [task EXCEPT !.cancelled = TRUE] ELSE task :
                          task \in tasks}
  BY DEF CancelJob
<1>2. entries' = entries
  BY <1>1, TypesGive DEF Inv, RegistryTypes, Cancelling
<1>3. ASSUME NEW next \in tasks'
      PROVE  next \in Task /\ \E task \in tasks :
                next = (IF task.id = entries[i].id THEN [task EXCEPT !.cancelled = TRUE] ELSE task)
                /\ next.id = task.id /\ next.kind = task.kind
  BY <1>1, TypesGive DEF Inv, Task
<1>4. RegistryTypes'
  BY <1>2, <1>3 DEF Inv, RegistryTypes
<1>5. Registered'
  <2> SUFFICES ASSUME NEW next \in tasks'
               PROVE  \E k \in DOMAIN entries' : Own(k, next)'
    BY DEF Registered
  <2>1. PICK task \in tasks : next.id = task.id /\ next.kind = task.kind
    BY <1>3
  <2> QED
    BY <2>1, <1>2 DEF Inv, Registered, Own
<1>6. IdsDiffer'
  <2>1. ASSUME NEW next \in tasks', NEW other \in tasks', next.id = other.id
        PROVE  next = other
    <3>1. PICK task \in tasks :
              next = (IF task.id = entries[i].id THEN [task EXCEPT !.cancelled = TRUE] ELSE task)
              /\ next.id = task.id
      BY <1>3
    <3>2. PICK task2 \in tasks :
              other = (IF task2.id = entries[i].id THEN [task2 EXCEPT !.cancelled = TRUE] ELSE task2)
              /\ other.id = task2.id
      BY <1>3
    <3>3. task = task2
      BY <2>1, <3>1, <3>2 DEF Inv, IdsDiffer
    <3> QED
      BY <3>1, <3>2, <3>3
  <2> QED
    BY <2>1, <1>2 DEF Inv, IdsDiffer
<1>7. OneRunning'
  BY <1>2 DEF Inv, OneRunning
<1> QED
  BY <1>4, <1>5, <1>6, <1>7 DEF Inv

-----------------------------------------------------------------------------
LEMMA InitInv ==
    ScheduleInit => Inv /\ CheckTypes /\ ConfTypes
<1> SUFFICES ASSUME ScheduleInit
             PROVE  Inv /\ CheckTypes /\ ConfTypes
  OBVIOUS
<1>1. Inv
  BY DEF ScheduleInit, Inv, RegistryTypes, Registered, IdsDiffer, OneRunning
<1>2. CheckTypes
  BY DEF ScheduleInit, CheckTypes, Looking
<1>3. ConfTypes
  BY DEF ScheduleInit, ConfTypes
<1> QED
  BY <1>1, <1>2, <1>3

LEMMA ConfTypesKept ==
    ASSUME ConfTypes, [ScheduleNext]_scheduleVars
    PROVE  ConfTypes'
<1>1. CASE UNCHANGED conf
  BY <1>1 DEF ConfTypes
<1>2. CASE Drive
  BY <1>1, <1>2 DEF Drive, CheckBegins, PlanKind, StartKind, CheckEnds, SeesChange, DeadlinePasses
<1>3. CASE \E task \in tasks : Job(task)
  BY <1>1, <1>3 DEF Job, JobBegins, JobWorks, JobFails, JobEnds
<1>4. CASE SettingsChange \/ OfflineChanges
  BY <1>4 DEF ConfTypes, SettingsChange, OfflineChanges
<1>5. CASE UserStarts \/ CancelJob \/ Restart \/ Tick \/ UNCHANGED scheduleVars
  BY <1>1, <1>5 DEF UserStarts, CancelJob, Restart, Tick, scheduleVars
<1> QED
  BY <1>2, <1>3, <1>4, <1>5 DEF ScheduleNext

\* The kinds a check still looks at, or starts, are kinds.
LEMMA CheckTypesKept ==
    ASSUME CheckTypes, [ScheduleNext]_scheduleVars
    PROVE  CheckTypes'
<1>1. Kinds \in Seq(KindSet)
  BY KindsAssumption
<1>2. CASE CheckBegins
  <2>1. CASE Answers(Never) \/ Answers(OfflineLook)
    BY <2>1 DEF CheckTypes, Answers, Waiting
  <2>2. CASE check' = [at |-> "plan", kinds |-> Kinds, due |-> <<>>, next |-> Never,
                       blocked |-> FALSE]
    <3>1. /\ check'.at = "plan" /\ check'.kinds = Kinds /\ check'.due = <<>>
          /\ DOMAIN check' = {"at", "kinds", "due", "next", "blocked"}
      BY <2>2
    <3> QED
      BY <3>1, <1>1 DEF CheckTypes
  <2> QED
    BY <1>2, <2>1, <2>2 DEF CheckBegins
<1>3. CASE PlanKind
  <2>1. /\ check.at = "plan" /\ check.kinds \in Seq(KindSet) /\ check.due \in Seq(KindSet)
        /\ DOMAIN check = {"at", "kinds", "due", "next", "blocked"}
    BY <1>3 DEF CheckTypes, PlanKind
  <2>2. Head(check.kinds) \in KindSet /\ Tail(check.kinds) \in Seq(KindSet)
    BY <1>3, <2>1, HeadTailProperties DEF PlanKind
  <2>3. /\ check'.at = check.at /\ check'.kinds = Tail(check.kinds)
        /\ check'.due = IF Due(Head(check.kinds)) THEN Append(check.due, Head(check.kinds))
                         ELSE check.due
        /\ DOMAIN check' = DOMAIN check
    BY <1>3, <2>1 DEF PlanKind
  <2>4. check'.due \in Seq(KindSet)
    BY <2>1, <2>2, <2>3
  <2> QED
    BY <2>1, <2>2, <2>3, <2>4 DEF CheckTypes
<1>4. CASE StartKind
  <2>1. /\ check.at = "plan" /\ check.kinds \in Seq(KindSet) /\ check.due \in Seq(KindSet)
        /\ DOMAIN check = {"at", "kinds", "due", "next", "blocked"}
        /\ check.due # <<>>
    BY <1>4 DEF CheckTypes, StartKind
  <2>2. Tail(check.due) \in Seq(KindSet)
    BY <2>1, HeadTailProperties
  <2>3. /\ check'.at = check.at /\ check'.kinds = check.kinds
        /\ check'.due = Tail(check.due) /\ DOMAIN check' = DOMAIN check
    BY <1>4, <2>1 DEF StartKind
  <2> QED
    BY <2>1, <2>2, <2>3 DEF CheckTypes
<1>5. CASE CheckEnds \/ SeesChange \/ DeadlinePasses \/ Restart
  BY <1>5 DEF CheckTypes, CheckEnds, SeesChange, DeadlinePasses, Restart, Answers, Looks, Waiting,
              Looking
<1>6. CASE UNCHANGED check
  BY <1>6 DEF CheckTypes
<1>7. CASE \E task \in tasks : Job(task)
  BY <1>6, <1>7 DEF Job, JobBegins, JobWorks, JobFails, JobEnds
<1>8. CASE SettingsChange \/ OfflineChanges \/ UserStarts \/ CancelJob \/ Tick
  BY <1>6, <1>8 DEF SettingsChange, OfflineChanges, UserStarts, CancelJob, Tick
<1> QED
  BY <1>2, <1>3, <1>4, <1>5, <1>6, <1>7, <1>8 DEF ScheduleNext, Drive, scheduleVars

LEMMA InvKept ==
    ASSUME Inv, CheckTypes, ConfTypes, [ScheduleNext]_scheduleVars
    PROVE  Inv'
<1>1. CASE UNCHANGED <<entries, tasks>>
  BY <1>1 DEF Inv, RegistryTypes, Registered, Own, IdsDiffer, OneRunning
<1>2. CASE CheckBegins \/ PlanKind \/ CheckEnds \/ SeesChange \/ DeadlinePasses
  BY <1>1, <1>2 DEF CheckBegins, PlanKind, CheckEnds, SeesChange, DeadlinePasses
<1>3. CASE StartKind
  <2>1. Head(check.due) \in KindSet
    BY <1>3 DEF CheckTypes, StartKind
  <2>2. CASE Running(Head(check.due))
    BY <1>1, <1>3, <2>2 DEF StartKind
  <2>3. CASE ~Running(Head(check.due))
    BY <1>3, <2>1, <2>3, StartKeeps DEF StartKind
  <2> QED
    BY <2>2, <2>3
<1>4. ASSUME NEW task \in tasks, JobBegins(task)
      PROVE  Inv'
  <2> DEFINE next == IF conf.active = Local THEN Over(task)
                     ELSE [task EXCEPT !.source = conf.active, !.at = "working"]
  <2>1. task \in Task
    BY TypesGive DEF Inv
  <2>2. next \in Task /\ next.id = task.id /\ next.kind = task.kind
    <3>1. conf.active \in Servers \cup {Local}
      BY DEF ConfTypes
    <3>2. CASE conf.active = Local
      BY <2>1, <3>2 DEF Task, Over
    <3>3. CASE conf.active # Local
      BY <2>1, <3>1, <3>3 DEF Task
    <3> QED
      BY <3>2, <3>3
  <2>3. tasks' = (tasks \ {task}) \cup {next} /\ UNCHANGED entries
    BY <1>4 DEF JobBegins
  <2> HIDE DEF next
  <2> QED
    BY <2>2, <2>3, TaskMoves
<1>5. ASSUME NEW task \in tasks, JobWorks(task) \/ JobFails(task)
      PROVE  Inv'
  <2>1. task \in Task
    BY TypesGive DEF Inv
  <2>2. Over(task) \in Task /\ Over(task).id = task.id /\ Over(task).kind = task.kind
    BY <2>1 DEF Task, Over
  <2>3. tasks' = (tasks \ {task}) \cup {Over(task)} /\ UNCHANGED entries
    BY <1>5 DEF JobWorks, JobFails
  <2> QED
    BY <2>2, <2>3, TaskMoves
<1>6. CASE \E task \in tasks : Job(task)
  BY <1>4, <1>5, <1>6, EndKeeps DEF Job
<1>7. CASE SettingsChange \/ OfflineChanges \/ Tick
  BY <1>1, <1>7 DEF SettingsChange, OfflineChanges, Tick
<1>8. CASE UserStarts
  <2>1. PICK kind \in KindSet : ~Running(kind) /\ Start(kind)
    BY <1>8 DEF UserStarts
  <2> QED
    BY <2>1, StartKeeps
<1>9. CASE CancelJob
  BY <1>9, CancelKeeps
<1>10. CASE Restart
  BY <1>10 DEF Restart, Inv, RegistryTypes, Registered, IdsDiffer, OneRunning
<1>11. CASE UNCHANGED scheduleVars
  BY <1>1, <1>11 DEF scheduleVars
<1> QED
  BY <1>2, <1>3, <1>6, <1>7, <1>8, <1>9, <1>10, <1>11 DEF ScheduleNext, Drive

LEMMA InvFlies ==
    Inv => SingleFlight
<1> SUFFICES ASSUME Inv, NEW task \in tasks, NEW other \in tasks, task.kind = other.kind
             PROVE  task = other
  BY DEF SingleFlight
<1>1. PICK i \in DOMAIN entries : Own(i, task)
  BY DEF Inv, Registered
<1>2. PICK j \in DOMAIN entries : Own(j, other)
  BY DEF Inv, Registered
<1>3. i = j
  BY <1>1, <1>2 DEF Inv, OneRunning, Own
<1> QED
  BY <1>1, <1>2, <1>3 DEF Inv, IdsDiffer, Own

(* Two jobs of a kind never work at the same time (jobs.rs, start_as), for   *)
(* every set of kinds and sources, every number of retained jobs, and every  *)
(* interleaving of schedule, people, cancellations, failures and restarts.   *)
THEOREM JobsFlyAlone ==
    ScheduleSpec => []SingleFlight
<1>1. ScheduleInit => Inv /\ CheckTypes /\ ConfTypes
  BY InitInv
<1>2. Inv /\ CheckTypes /\ ConfTypes /\ [ScheduleNext]_scheduleVars => Inv' /\ CheckTypes' /\ ConfTypes'
  BY InvKept, CheckTypesKept, ConfTypesKept
<1>3. Inv => SingleFlight
  BY InvFlies
<1> QED
  BY <1>1, <1>2, <1>3, PTL DEF ScheduleSpec
=============================================================================

------------------------------ MODULE Schedule ------------------------------
(***************************************************************************)
(* Scheduled syncs (daemon/core/src/auto_sync.rs) and the jobs that run them *)
(* (daemon/core/src/jobs.rs): the one task that checks what is due, arms a    *)
(* deadline and arms it anew when the source or the interval changes, and    *)
(* the registry that lets one job of a kind run.                             *)
(*                                                                         *)
(* Settings change, people start and cancel jobs, jobs fail, offline mode    *)
(* comes and goes and the daemon restarts, all while a check or a job is     *)
(* under way.  Time is the age of each stamp and what is left of the         *)
(* deadline; a tick takes both on, and a handler may be late by any number   *)
(* of ticks.  Favorites.tla says what a favorites sync does; here a job reads *)
(* the active source, works, stamps and ends.                                *)
(***************************************************************************)
EXTENDS Integers, Sequences, FiniteSets, SequencesExt

CONSTANTS
    Kinds,         \* a sequence: in this order a check looks at them
    Servers,       \* sources that can sync
    Local,         \* one that cannot
    Interval,      \* the interval setting when it is not 0, in ticks
    Never,         \* a kind that was never synced, a deadline that is not set
    RetainedJobs,
    Ids,           \* of jobs; bound: as many as are known at a time
    MaxChanges     \* bound: changes of settings, user's jobs, cancels, restarts

ASSUME ScheduleBounds ==
    /\ Interval \in Nat \ {0, 1}
    /\ RetainedJobs \in Nat \ {0}
    /\ MaxChanges \in Nat
    /\ Local \notin Servers

KindSet == {Kinds[i] : i \in DOMAIN Kinds}
ASSUME KindsAssumption == Kinds \in Seq(KindSet)
Recheck == 1   \* OFFLINE_RECHECK and RETRY_BLOCKED, both shorter than any interval

VARIABLES
    conf,      \* the settings and sources channels: active, interval, offline
    unseen,    \* one of them has changed since the task looked
    armed,     \* the key it compares them with
    check,     \* the check under way, or "wait"
    left,      \* ticks to the deadline
    age,       \* age[kind][source]: of the stamp in the database
    entries,   \* the registry
    tasks,     \* the jobs' own tasks
    changes,
    checked    \* the key the last check was given, and its deadline worked out for

scheduleVars == <<conf, unseen, armed, check, left, age, entries, tasks, changes, checked>>

\* arm_key; what a check is given holds no more than that.
Key == [active |-> conf.active, interval |-> conf.interval]
Waiting == [at |-> "wait"]
Looking == [at |-> "begin"]

ScheduleInit ==
    /\ conf \in [active : Servers \cup {Local}, interval : {0, Interval}, offline : {FALSE}]
    /\ unseen = FALSE
    /\ armed = Key
    /\ check = Looking
    /\ left = Never
    /\ age \in {[kind \in KindSet |-> [src \in Servers |-> at]] : at \in {Never, Interval}}
    /\ entries = <<>>
    /\ tasks = {}
    /\ changes = 0
    /\ checked = armed

-----------------------------------------------------------------------------
(* The registry.                                                             *)

Running(kind) == \E i \in DOMAIN entries : entries[i].kind = kind /\ entries[i].running

Retained(jobs) ==
    LET ended == {i \in DOMAIN jobs : ~jobs[i].running}
    IN  IF Len(jobs) < RetainedJobs \/ ended = {} THEN jobs
        ELSE RemoveAt(jobs, CHOOSE i \in ended : \A j \in ended : i <= j)

\* start_as, where no job of the kind runs.  Ids of forgotten jobs are used again.
FreeIds == Ids \ ({entries[i].id : i \in DOMAIN entries} \cup {task.id : task \in tasks})
Start(kind) ==
    /\ FreeIds # {}
    /\ LET id == CHOOSE id \in FreeIds : TRUE
       IN  /\ entries' = Append(Retained(entries), [id |-> id, kind |-> kind, running |-> TRUE])
           /\ tasks' = tasks \cup {[id |-> id, kind |-> kind, at |-> "spawned", source |-> Local,
                                    cancelled |-> FALSE]}

Over(task) == [task EXCEPT !.at = "ended", !.source = Local, !.cancelled = FALSE]

\* The job's future is first polled: it takes the source that is active now, and
\* one that cannot sync refuses.
JobBegins(task) ==
    /\ task.at = "spawned"
    /\ tasks' = (tasks \ {task}) \cup
                 {IF conf.active = Local THEN Over(task)
                  ELSE [task EXCEPT !.source = conf.active, !.at = "working"]}
    /\ UNCHANGED <<conf, unseen, armed, check, left, age, entries, changes, checked>>

\* It succeeds and stamps, unless it was cancelled; or it fails or panics.
JobWorks(task) ==
    /\ task.at = "working"
    /\ age' = IF task.cancelled THEN age ELSE [age EXCEPT ![task.kind][task.source] = 0]
    /\ tasks' = (tasks \ {task}) \cup {Over(task)}
    /\ UNCHANGED <<conf, unseen, armed, check, left, entries, changes, checked>>

JobFails(task) ==
    /\ task.at = "working"
    /\ tasks' = (tasks \ {task}) \cup {Over(task)}
    /\ UNCHANGED <<conf, unseen, armed, check, left, age, entries, changes, checked>>

\* The task that waits for it files the outcome.
JobEnds(task) ==
    /\ task.at = "ended"
    /\ tasks' = tasks \ {task}
    /\ entries' = [i \in DOMAIN entries |->
                      IF entries[i].id = task.id THEN [entries[i] EXCEPT !.running = FALSE]
                      ELSE entries[i]]
    /\ UNCHANGED <<conf, unseen, armed, check, left, age, changes, checked>>

-----------------------------------------------------------------------------
(* Syncs::check, for the settings it was given.                              *)

\* It is begun with the settings of now; its answer becomes the deadline.
Looks ==
    /\ check' = Looking
    /\ checked' = Key
    /\ left' = Never
Answers(wait) ==
    /\ check' = Waiting
    /\ left' = wait

Sooner(a, b) == IF a = Never THEN b ELSE IF b = Never THEN a ELSE IF a < b THEN a ELSE b

\* Mutant: offline there is nothing to look for, as for a local source.
NoLook == Never
OfflineLook == Recheck

\* A source with nothing to pull, or offline mode; else the stamps are read.
CheckBegins ==
    /\ check.at = "begin"
    /\ IF checked.active = Local THEN Answers(Never)
       ELSE IF conf.offline THEN Answers(OfflineLook)
       ELSE /\ check' = [at |-> "plan", kinds |-> Kinds, due |-> <<>>, next |-> Never,
                         blocked |-> FALSE]
            /\ UNCHANGED left
    /\ UNCHANGED <<conf, unseen, armed, age, entries, tasks, changes, checked>>

\* plan, a kind at a time.
Due(kind) ==
    LET stamp == age[kind][checked.active]
    IN  stamp = Never \/ (checked.interval # 0 /\ stamp >= checked.interval)
Wait(kind) ==
    IF checked.interval = 0 THEN Never
    ELSE IF Due(kind) THEN checked.interval ELSE checked.interval - age[kind][checked.active]

PlanKind ==
    /\ check.at = "plan" /\ check.kinds # <<>>
    /\ LET kind == Head(check.kinds)
       IN  check' = [check EXCEPT !.kinds = Tail(@),
                                  !.due = IF Due(kind) THEN Append(@, kind) ELSE @,
                                  !.next = Sooner(@, Wait(kind))]
    /\ UNCHANGED <<conf, unseen, armed, left, age, entries, tasks, changes, checked>>

\* A kind that could not start, usually because one is running, is still due.
NextLook(next, blocked) == IF blocked THEN Sooner(next, Recheck) ELSE next

\* Each through the registry's lock; people start and jobs end in between.
StartKind ==
    /\ check.at = "plan" /\ check.kinds = <<>> /\ check.due # <<>>
    /\ IF Running(Head(check.due))
       THEN check' = [check EXCEPT !.due = Tail(@), !.blocked = TRUE] /\ UNCHANGED <<entries, tasks>>
       ELSE check' = [check EXCEPT !.due = Tail(@)] /\ Start(Head(check.due))
    /\ UNCHANGED <<conf, unseen, armed, left, age, changes, checked>>

CheckEnds ==
    /\ check.at = "plan" /\ check.kinds = <<>> /\ check.due = <<>>
    /\ Answers(NextLook(check.next, check.blocked))
    /\ UNCHANGED <<conf, unseen, armed, age, entries, tasks, changes, checked>>

-----------------------------------------------------------------------------
(* drive.                                                                    *)

\* select!: the deadline may be taken although a change waits, and the settings
\* are read without being marked as seen.
DeadlinePasses ==
    /\ check.at = "wait" /\ left = 0
    /\ Looks
    /\ UNCHANGED <<conf, unseen, armed, age, entries, tasks, changes>>

SeesChange ==
    /\ check.at = "wait" /\ unseen
    /\ unseen' = FALSE
    /\ armed' = Key
    /\ IF Key # armed THEN Looks ELSE UNCHANGED <<check, checked, left>>
    /\ UNCHANGED <<conf, age, entries, tasks, changes>>

-----------------------------------------------------------------------------
(* Outside.                                                                  *)

Changes == changes < MaxChanges /\ changes' = changes + 1

SettingsChange ==
    /\ Changes
    /\ \E active \in Servers \cup {Local}, interval \in {0, Interval} :
        /\ active # conf.active <=> interval = conf.interval
        /\ conf' = [conf EXCEPT !.active = active, !.interval = interval]
    /\ unseen' = TRUE
    /\ UNCHANGED <<armed, check, left, age, entries, tasks, checked>>

OfflineChanges ==
    /\ Changes
    /\ conf' = [conf EXCEPT !.offline = ~@]
    /\ UNCHANGED <<unseen, armed, check, left, age, entries, tasks, checked>>

UserStarts ==
    /\ Changes
    /\ \E kind \in KindSet :
        /\ ~Running(kind)
        /\ Start(kind)
    /\ UNCHANGED <<conf, unseen, armed, check, left, age, checked>>

\* Mutant: a cancelled job counts as over.
Cancelled(entry) == [entry EXCEPT !.running = FALSE]
Cancelling(entry) == entry

CancelJob ==
    /\ Changes
    /\ \E i \in DOMAIN entries :
        /\ entries[i].running
        /\ entries' = [entries EXCEPT ![i] = Cancelling(@)]
        /\ tasks' = {IF task.id = entries[i].id THEN [task EXCEPT !.cancelled = TRUE] ELSE task :
                        task \in tasks}
    /\ UNCHANGED <<conf, unseen, armed, check, left, age, checked>>

Restart ==
    /\ Changes
    /\ unseen' = FALSE /\ armed' = Key /\ Looks
    /\ entries' = <<>> /\ tasks' = {}
    /\ UNCHANGED <<conf, age>>

Tick ==
    /\ age' = [kind \in KindSet |-> [src \in Servers |->
                  IF age[kind][src] \in {Never, Interval} THEN age[kind][src] ELSE age[kind][src] + 1]]
    /\ left' = IF left \in {Never, 0} THEN left ELSE left - 1
    /\ UNCHANGED <<conf, unseen, armed, check, entries, tasks, changes, checked>>

Drive == CheckBegins \/ PlanKind \/ StartKind \/ CheckEnds \/ SeesChange \/ DeadlinePasses
Job(task) == JobBegins(task) \/ JobWorks(task) \/ JobFails(task) \/ JobEnds(task)

ScheduleNext ==
    \/ Drive
    \/ \E task \in tasks : Job(task)
    \/ SettingsChange \/ OfflineChanges \/ UserStarts \/ CancelJob \/ Restart
    \/ Tick

\* The task and the timer run, and every job ends; nobody has to change anything.
ScheduleSpec == ScheduleInit /\ [][ScheduleNext]_scheduleVars
FairSpec ==
    /\ ScheduleSpec
    /\ WF_scheduleVars(Drive) /\ WF_scheduleVars(Tick)
    /\ \A kind \in KindSet : WF_scheduleVars(\E task \in tasks : task.kind = kind /\ Job(task))

-----------------------------------------------------------------------------
(* "single-flight per kind" (jobs.rs): two jobs of a kind never work at a     *)
(* time, however jobs are cancelled, forgotten or fail; the registry never   *)
(* says one is over that still works.                                        *)
SingleFlight ==
    \A task, other \in tasks :
        task.kind = other.kind /\ {task.at, other.at} \subseteq {"spawned", "working"} => task = other

(* "Syncs a remote source's library, playlists and favorites the first time  *)
(* it is active, then whenever the configured interval has passed"           *)
(* (auto_sync.rs): while a source stays active and within reach, with an     *)
(* interval, a sync of every kind is started for it again and again.         *)
(* "Run `check` now, when its own answer says it is time, and whenever the   *)
(* source, interval or sign-in changes" (auto_sync.rs:186) promises that     *)
(* without exception; the code has one, Stranded: a check of the deadline    *)
(* takes up a change and leaves `armed` as it was, so that when the change   *)
(* is taken back nothing differs from `armed`, and the loop waits without a  *)
(* deadline, which the settings in between did not need.                     *)
Attempt(kind, src) == \E task \in tasks : task.kind = kind /\ task.at = "working" /\ task.source = src
Stays(src) == conf.active = src /\ conf.interval # 0 /\ ~conf.offline
Stranded == check.at = "wait" /\ ~unseen /\ left = Never /\ checked # Key
SyncsComeBack ==
    \A src \in Servers, kind \in KindSet :
        <>[]Stays(src) => []<>(Attempt(kind, src) \/ Stranded)
=============================================================================

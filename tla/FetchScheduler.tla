--------------------------- MODULE FetchScheduler ---------------------------
(***************************************************************************)
(* The background fetch scheduler (fetch_scheduler.rs), the per-project    *)
(* operation lock it shares with the user's git commands (state.rs,        *)
(* commands/actions.rs, commands/sync.rs) and the freshness signal the     *)
(* front end listens to (lib/events.ts).                                   *)
(*                                                                         *)
(* A cycle is one call of run_cycle: the scheduler loop's own (Loop, which *)
(* the loop awaits) or one spawned by refresh_remotes.  A cycle starts one *)
(* task per planned project; a task waits for one of MaxFetches permits,   *)
(* then for nothing: the operation lock is only ever tried.                *)
(*                                                                         *)
(* Time is kept as ages that saturate at the largest value any comparison  *)
(* in the code can tell apart; an absent time stamp (None) compares like a *)
(* saturated age everywhere the code reads it.                             *)
(***************************************************************************)
EXTENDS Integers, FiniteSets

CONSTANTS
    Projects,       \* project ids, never reused (uuid v4)
    InitialLive,    \* the projects registered when the application starts
    Cycles,         \* concurrently running calls of run_cycle
    Loop,           \* the one the scheduler loop makes
    MaxFetches,     \* MAX_CONCURRENT_FETCHES
    Periods,        \* values of settings.remote_refresh_minutes, 0 is "off"
    FocusLimit,     \* FOCUS_RATE_LIMIT_SECS, in minutes
    MaxAge,         \* no interval claim_cycle is asked about is longer
    RecheckCycles,  \* REMOTE_RECHECK_CYCLES
    BackoffCap,     \* BACKOFF_CAP_SECS, in minutes
    MaxStreak,      \* a streak whose backoff has reached the cap
    OldGit          \* the installed git predates --no-write-fetch-head

ASSUME ProjectsAssumption == IsFiniteSet(Projects) /\ InitialLive \subseteq Projects
ASSUME CyclesAssumption == /\ IsFiniteSet(Cycles) /\ Loop \in Cycles
                           /\ "user" \notin Cycles /\ "nobody" \notin Cycles
ASSUME LimitsAssumption ==
    /\ MaxFetches \in Nat \ {0}
    /\ Periods \subseteq Nat
    /\ FocusLimit \in Nat \ {0} /\ \A m \in Periods \ {0} : m >= FocusLimit
    /\ MaxAge \in Nat /\ \A m \in Periods \cup {FocusLimit} : m <= MaxAge
    /\ RecheckCycles \in Nat \ {0}
    /\ BackoffCap \in Nat \ {0}
    /\ MaxStreak \in Nat \ {0}
    /\ OldGit \in BOOLEAN

\* Streaks from MaxStreak on are indistinguishable: their backoff is the cap.
ASSUME StreakAssumption == 2 ^ MaxStreak >= BackoffCap

VARIABLES
    status,     \* projects: "new" (not yet added), "live" or "removed"
    minutes,    \* settings.remote_refresh_minutes
    sinceCycle, \* age of LAST_CYCLE
    freshness,  \* freshness map: what the last finished fetch found
    sched,      \* SCHED map: age of the last attempt, cycles skipped since
    ops,        \* AppState.ops: the locked project ids
    permits,    \* free permits of FETCH_SEM
    flagless,   \* NO_WRITE_FETCH_HEAD_UNSUPPORTED
    cycle,      \* the running calls of run_cycle
    task,       \* the tasks they spawned, per cycle and project
    user,       \* the projects a user's git command is running on
    shown,      \* the projects whose error badge the front end shows
    dropped,    \* history: the projects whose error a full cycle has forgotten
                \* since the front end last looked
    pending,    \* a remote-freshness event the front end has not served yet
    sinceClaim  \* history: age of the last claim a throttled trigger won

vars == <<status, minutes, sinceCycle, freshness, sched, ops, permits,
          flagless, cycle, task, user, shown, dropped, pending, sinceClaim>>

Lesser(a, b) == IF a < b THEN a ELSE b

Live == {p \in Projects : status[p] = "live"}

\* An entry the map does not hold reads as the default of RemoteFreshness.
NoEntry == [remote |-> "unknown", error |-> FALSE, streak |-> 0]
NoMeta == [age |-> BackoffCap, skipped |-> 0]

\* Stages of a task.  It holds a permit from "permit" on and the operation
\* lock from "remote" on; "retry" is the second fetch, without the flag.
Locked == {"remote", "fetch", "retry"}
Permitted == {"permit"} \cup Locked
Stages == {"none", "queued"} \cup Permitted

Idle == [pc |-> "idle", only |-> {}, full |-> FALSE, force |-> FALSE,
         period |-> 0, targets |-> {}]

Locking(p) == {c \in Cycles : task[<<c, p>>] \in Locked}

-----------------------------------------------------------------------------
(* The pure decisions. *)

\* backoff_secs: 2^streak periods, an interval of at least a minute, capped.
Backoff(period, streak) ==
    IF streak = 0 THEN 0
    ELSE Lesser((IF period = 0 THEN 1 ELSE period) * 2 ^ streak, BackoffCap)

\* Mutation: the backoff does not look at the last attempt.
ShouldAttemptEager(f, meta, period, force) ==
    force \/ f.remote # "no" \/ meta.skipped >= RecheckCycles

\* should_attempt.
ShouldAttempt(f, meta, period, force) ==
    \/ force
    \/ f.remote = "no" /\ meta.skipped >= RecheckCycles
    \/ f.remote # "no" /\ meta.age >= Backoff(period, f.streak)

-----------------------------------------------------------------------------
(* Triggers. *)

\* Mutation: the stamp is left to the cycle, as before claim_cycle existed.
ClaimUnstamped(interval) ==
    sinceCycle >= interval /\ sinceClaim' = 0 /\ UNCHANGED sinceCycle

\* claim_cycle: the test and the stamp are one critical section.
Claim(interval) ==
    /\ sinceCycle >= interval
    /\ sinceCycle' = 0
    /\ sinceClaim' = 0

Launch(c, only, full, force) ==
    cycle' = [cycle EXCEPT ![c] = [Idle EXCEPT !.pc = "start", !.only = only,
                                               !.full = full, !.force = force]]

\* A tick of spawn's loop.  The loop awaits its cycle, so ticks do not overlap.
LoopTick ==
    /\ cycle[Loop].pc = "idle"
    /\ minutes # 0
    /\ Claim(minutes)
    /\ Launch(Loop, {}, TRUE, FALSE)
    /\ UNCHANGED <<status, minutes, freshness, sched, ops, permits, flagless,
                   task, user, shown, dropped, pending>>

\* Mutation: the focus trigger does not look at the "off" setting.
RefreshRemotesAlways(c, ids, force) ==
    /\ c # Loop /\ cycle[c].pc = "idle" /\ Live # {}
    /\ IF force THEN UNCHANGED <<sinceCycle, sinceClaim>> ELSE Claim(FocusLimit)
    /\ Launch(c, ids, ids = {}, force)
    /\ UNCHANGED <<status, minutes, freshness, sched, ops, permits, flagless,
                   task, user, shown, dropped, pending>>

\* refresh_remotes(ids, force): window focus (no ids, not forced) or the
\* context menu (one id, forced); the cycle is spawned, not awaited.
RefreshRemotes(c, ids, force) ==
    /\ c # Loop
    /\ cycle[c].pc = "idle"
    /\ Live # {}
    /\ IF force THEN UNCHANGED <<sinceCycle, sinceClaim>>
       ELSE minutes # 0 /\ Claim(FocusLimit)
    /\ Launch(c, ids, ids = {}, force)
    /\ UNCHANGED <<status, minutes, freshness, sched, ops, permits, flagless,
                   task, user, shown, dropped, pending>>

-----------------------------------------------------------------------------
(* run_cycle. *)

\* The target snapshot, then the period.  No target: the cycle ends.
CycleSnapshot(c) ==
    LET targets == IF cycle[c].full THEN Live ELSE Live \cap cycle[c].only
        next == IF cycle[c].full THEN "stamp" ELSE "plan"
    IN  /\ cycle[c].pc = "start"
        /\ cycle' = IF targets = {} THEN [cycle EXCEPT ![c] = Idle]
                    ELSE [cycle EXCEPT ![c] =
                             [@ EXCEPT !.pc = next, !.only = {},
                                       !.targets = targets, !.period = minutes]]
        /\ UNCHANGED <<status, minutes, sinceCycle, freshness, sched, ops,
                       permits, flagless, task, user, shown, dropped, pending, sinceClaim>>

\* Mutation: the fetch records are kept, only the schedule is swept.
CycleStampKeeping(c) ==
    /\ cycle[c].pc = "stamp"
    /\ sinceCycle' = 0
    /\ sched' = [p \in Projects |->
           IF p \in cycle[c].targets THEN sched[p] ELSE NoMeta]
    /\ cycle' = [cycle EXCEPT ![c].pc = "plan"]
    /\ UNCHANGED <<status, minutes, freshness, ops, permits, flagless, task,
                   user, shown, dropped, pending, sinceClaim>>

\* A full cycle stamps LAST_CYCLE and drops the entries of projects that are
\* not among its targets; no event tells of an error that goes with them.
CycleStamp(c) ==
    /\ cycle[c].pc = "stamp"
    /\ sinceCycle' = 0
    /\ freshness' = [p \in Projects |->
           IF p \in cycle[c].targets THEN freshness[p] ELSE NoEntry]
    /\ sched' = [p \in Projects |->
           IF p \in cycle[c].targets THEN sched[p] ELSE NoMeta]
    /\ cycle' = [cycle EXCEPT ![c].pc = "plan"]
    /\ dropped' = dropped \cup {p \in Projects \ cycle[c].targets : freshness[p].error}
    /\ UNCHANGED <<status, minutes, ops, permits, flagless, task, user, shown,
                   pending, sinceClaim>>

Planned(c) ==
    {p \in cycle[c].targets :
        ShouldAttempt(freshness[p], sched[p], cycle[c].period, cycle[c].force)}

\* From here on the cycle only awaits its tasks.
Awaiting(c) == [Idle EXCEPT !.pc = "await", !.force = cycle[c].force,
                            !.period = cycle[c].period]

\* Mutation: the skipped cycle is not counted.
CyclePlanUncounted(c) ==
    /\ cycle[c].pc = "plan"
    /\ task' = [t \in Cycles \X Projects |->
           IF t[1] = c /\ t[2] \in Planned(c) THEN "queued" ELSE task[t]]
    /\ cycle' = IF Planned(c) = {} THEN [cycle EXCEPT ![c] = Idle]
                ELSE [cycle EXCEPT ![c] = Awaiting(c)]
    /\ UNCHANGED <<status, minutes, sinceCycle, freshness, sched, ops, permits,
                   flagless, user, shown, dropped, pending, sinceClaim>>

\* The skip rules, decided for all targets under both map locks; a project
\* skipped for want of a remote counts the cycle.  Each planned project gets
\* a task.
CyclePlan(c) ==
    LET skippedNow == {p \in cycle[c].targets \ Planned(c) :
                          freshness[p].remote = "no"}
    IN  /\ cycle[c].pc = "plan"
        /\ sched' = [p \in Projects |->
               IF p \in skippedNow THEN [sched[p] EXCEPT !.skipped = @ + 1]
               ELSE sched[p]]
        /\ task' = [t \in Cycles \X Projects |->
               IF t[1] = c /\ t[2] \in Planned(c) THEN "queued" ELSE task[t]]
        /\ cycle' = IF Planned(c) = {} THEN [cycle EXCEPT ![c] = Idle]
                    ELSE [cycle EXCEPT ![c] = Awaiting(c)]
        /\ UNCHANGED <<status, minutes, sinceCycle, freshness, ops, permits,
                       flagless, user, shown, dropped, pending, sinceClaim>>

\* Every spawned task has been awaited.
CycleDone(c) ==
    /\ cycle[c].pc = "await"
    /\ \A p \in Projects : task[<<c, p>>] = "none"
    /\ cycle' = [cycle EXCEPT ![c] = Idle]
    /\ UNCHANGED <<status, minutes, sinceCycle, freshness, sched, ops, permits,
                   flagless, task, user, shown, dropped, pending, sinceClaim>>

-----------------------------------------------------------------------------
(* One task: the semaphore, then fetch_one. *)

AcquirePermit(c, p) ==
    /\ task[<<c, p>>] = "queued"
    /\ permits > 0
    /\ permits' = permits - 1
    /\ task' = [task EXCEPT ![<<c, p>>] = "permit"]
    /\ UNCHANGED <<status, minutes, sinceCycle, freshness, sched, ops,
                   flagless, cycle, user, shown, dropped, pending, sinceClaim>>

\* Mutation: the early return forgets the permit.
YieldFetchLeaky(c, p) ==
    /\ task[<<c, p>>] = "permit" /\ p \in ops
    /\ task' = [task EXCEPT ![<<c, p>>] = "none"]
    /\ UNCHANGED <<status, minutes, sinceCycle, freshness, sched, ops, permits,
                   flagless, cycle, user, shown, dropped, pending, sinceClaim>>

\* try_begin_op failed: a user's command (or another cycle) has the lock.
YieldFetch(c, p) ==
    /\ task[<<c, p>>] = "permit"
    /\ p \in ops
    /\ task' = [task EXCEPT ![<<c, p>>] = "none"]
    /\ permits' = permits + 1
    /\ UNCHANGED <<status, minutes, sinceCycle, freshness, sched, ops,
                   flagless, cycle, user, shown, dropped, pending, sinceClaim>>

\* Which git runs first once the lock is held.
FetchStage == IF flagless THEN "retry" ELSE "fetch"

\* Mutation: the lock is taken without asking whether it is free.
BeginFetchBlindly(c, p) ==
    /\ task[<<c, p>>] = "permit"
    /\ ops' = ops \cup {p}
    /\ sched' = [sched EXCEPT ![p] = [age |-> 0, skipped |-> 0]]
    /\ task' = [task EXCEPT ![<<c, p>>] =
           IF freshness[p].remote = "yes" THEN FetchStage ELSE "remote"]
    /\ UNCHANGED <<status, minutes, sinceCycle, freshness, permits, flagless,
                   cycle, user, shown, dropped, pending, sinceClaim>>

\* try_begin_op succeeded; the attempt is recorded and, unless a remote is
\* known, `git remote` is started.
BeginFetch(c, p) ==
    /\ task[<<c, p>>] = "permit"
    /\ p \notin ops
    /\ ops' = ops \cup {p}
    /\ sched' = [sched EXCEPT ![p] = [age |-> 0, skipped |-> 0]]
    /\ task' = [task EXCEPT ![<<c, p>>] =
           IF freshness[p].remote = "yes" THEN FetchStage ELSE "remote"]
    /\ UNCHANGED <<status, minutes, sinceCycle, freshness, permits, flagless,
                   cycle, user, shown, dropped, pending, sinceClaim>>

\* The guard and the permit go out of scope.
EndFetch(c, p) ==
    /\ task' = [task EXCEPT ![<<c, p>>] = "none"]
    /\ ops' = ops \ {p}
    /\ permits' = permits + 1

\* Mutation: only a new error is announced, not its end.
ApplyOutcomeOneWay(p, entry) ==
    /\ freshness' = [freshness EXCEPT ![p] = entry]
    /\ pending' = (pending \/ (entry.error /\ ~freshness[p].error))

\* apply_outcome: the new entry and the event, on a transition of error only.
ApplyOutcome(p, entry) ==
    /\ freshness' = [freshness EXCEPT ![p] = entry]
    /\ pending' = (pending \/ entry.error # freshness[p].error)

RemoteListed(c, p) ==
    /\ task[<<c, p>>] = "remote"
    /\ task' = [task EXCEPT ![<<c, p>>] = FetchStage]
    /\ UNCHANGED <<status, minutes, sinceCycle, freshness, sched, ops, permits,
                   flagless, cycle, user, shown, dropped, pending, sinceClaim>>

RemoteMissing(c, p) ==
    /\ task[<<c, p>>] = "remote"
    /\ ApplyOutcome(p, [remote |-> "no", error |-> FALSE, streak |-> 0])
    /\ EndFetch(c, p)
    /\ UNCHANGED <<status, minutes, sinceCycle, sched, flagless, cycle, user,
                   shown, dropped, sinceClaim>>

\* `git remote` itself failed or timed out: freshness is left alone.
RemoteFailed(c, p) ==
    /\ task[<<c, p>>] = "remote"
    /\ EndFetch(c, p)
    /\ UNCHANGED <<status, minutes, sinceCycle, freshness, sched, flagless,
                   cycle, user, shown, dropped, pending, sinceClaim>>

\* run_fetch met an "unknown option": the flag is dropped for good and the
\* fetch runs again under the same lock and permit.
FetchRetry(c, p) ==
    /\ OldGit
    /\ task[<<c, p>>] = "fetch"
    /\ flagless' = TRUE
    /\ task' = [task EXCEPT ![<<c, p>>] = "retry"]
    /\ UNCHANGED <<status, minutes, sinceCycle, freshness, sched, ops, permits,
                   cycle, user, shown, dropped, pending, sinceClaim>>

\* Only a fetch whose flags git knows can succeed.
FetchRunning(c, p) == task[<<c, p>>] = "retry" \/ (task[<<c, p>>] = "fetch" /\ ~OldGit)

FetchSucceeded(c, p) ==
    /\ FetchRunning(c, p)
    /\ ApplyOutcome(p, [remote |-> "yes", error |-> FALSE, streak |-> 0])
    /\ EndFetch(c, p)
    /\ UNCHANGED <<status, minutes, sinceCycle, sched, flagless, cycle, user,
                   shown, dropped, sinceClaim>>

\* The first fetch of an old git may also fail for another reason.
FetchFailed(c, p) ==
    /\ task[<<c, p>>] \in {"fetch", "retry"}
    /\ ApplyOutcome(p, [remote |-> "yes", error |-> TRUE,
                        streak |-> Lesser(freshness[p].streak + 1, MaxStreak)])
    /\ EndFetch(c, p)
    /\ UNCHANGED <<status, minutes, sinceCycle, sched, flagless, cycle, user,
                   shown, dropped, sinceClaim>>

-----------------------------------------------------------------------------
(* The rest of the application. *)

\* A user's stage, unstage, discard, commit, push, pull or fetch.  When the
\* lock is taken the command is refused and nothing changes.
UserBegin(p) ==
    /\ p \in Live
    /\ p \notin ops
    /\ ops' = ops \cup {p}
    /\ user' = user \cup {p}
    /\ UNCHANGED <<status, minutes, sinceCycle, freshness, sched, permits,
                   flagless, cycle, task, shown, dropped, pending, sinceClaim>>

\* Done, failed or timed out: the guard is dropped on every path.
UserEnd(p) ==
    /\ p \in user
    /\ ops' = ops \ {p}
    /\ user' = user \ {p}
    /\ UNCHANGED <<status, minutes, sinceCycle, freshness, sched, permits,
                   flagless, cycle, task, shown, dropped, pending, sinceClaim>>

AddProject(p) ==
    /\ status[p] = "new"
    /\ status' = [status EXCEPT ![p] = "live"]
    /\ UNCHANGED <<minutes, sinceCycle, freshness, sched, ops, permits,
                   flagless, cycle, task, user, shown, dropped, pending, sinceClaim>>

\* remove_project takes no operation lock and leaves both maps alone.
RemoveProject(p) ==
    /\ status[p] = "live"
    /\ status' = [status EXCEPT ![p] = "removed"]
    /\ UNCHANGED <<minutes, sinceCycle, freshness, sched, ops, permits,
                   flagless, cycle, task, user, shown, dropped, pending, sinceClaim>>

SetMinutes(m) ==
    /\ m # minutes
    /\ minutes' = m
    /\ UNCHANGED <<status, sinceCycle, freshness, sched, ops, permits,
                   flagless, cycle, task, user, shown, dropped, pending, sinceClaim>>

\* The front end serves remote-freshness: statuses are invalidated as a whole
\* and get_statuses joins the freshness map into every live row.
RefetchStatuses ==
    /\ pending
    /\ pending' = FALSE
    /\ shown' = {p \in Live : freshness[p].error}
    /\ dropped' = {}
    /\ UNCHANGED <<status, minutes, sinceCycle, freshness, sched, ops, permits,
                   flagless, cycle, task, user, sinceClaim>>

\* A minute passes.
Minute ==
    /\ sinceCycle' = Lesser(sinceCycle + 1, MaxAge)
    /\ sinceClaim' = Lesser(sinceClaim + 1, FocusLimit)
    /\ sched' = [p \in Projects |->
                    [sched[p] EXCEPT !.age = Lesser(@ + 1, BackoffCap)]]
    /\ UNCHANGED <<status, minutes, freshness, ops, permits, flagless, cycle,
                   task, user, shown, dropped, pending>>

-----------------------------------------------------------------------------
Init ==
    /\ status = [p \in Projects |-> IF p \in InitialLive THEN "live" ELSE "new"]
    /\ minutes \in Periods
    /\ sinceCycle = MaxAge
    /\ freshness = [p \in Projects |-> NoEntry]
    /\ sched = [p \in Projects |-> NoMeta]
    /\ ops = {}
    /\ permits = MaxFetches
    /\ flagless = FALSE
    /\ cycle = [c \in Cycles |-> Idle]
    /\ task = [t \in Cycles \X Projects |-> "none"]
    /\ user = {}
    /\ shown = {}
    /\ dropped = {}
    /\ pending = FALSE
    /\ sinceClaim = FocusLimit

\* The front end's calls: ([], false) on window focus, ([id], true) from the
\* context menu; ([], true) refreshes everything.
FocusReturn(c) == RefreshRemotes(c, {}, FALSE)

ManualRefresh(c) == \E ids \in {{}} \cup {{p} : p \in Projects} :
                        RefreshRemotes(c, ids, TRUE)

Trigger == LoopTick \/ \E c \in Cycles : FocusReturn(c) \/ ManualRefresh(c)

CycleStep(c) == CycleSnapshot(c) \/ CycleStamp(c) \/ CyclePlan(c) \/ CycleDone(c)

\* What git's answers, or its time-outs, let a task do next.
GitStep(c, p) ==
    \/ YieldFetch(c, p) \/ BeginFetch(c, p)
    \/ RemoteListed(c, p) \/ RemoteMissing(c, p) \/ RemoteFailed(c, p)
    \/ FetchRetry(c, p) \/ FetchSucceeded(c, p) \/ FetchFailed(c, p)

UserStep(p) == UserBegin(p) \/ UserEnd(p) \/ AddProject(p) \/ RemoveProject(p)

Next ==
    \/ Trigger
    \/ \E c \in Cycles : CycleStep(c)
    \/ \E c \in Cycles, p \in Projects : AcquirePermit(c, p) \/ GitStep(c, p)
    \/ \E p \in Projects : UserStep(p)
    \/ \E m \in Periods : SetMinutes(m)
    \/ RefetchStatuses
    \/ Minute

Spec == Init /\ [][Next]_vars

\* Runtime and git: spawned futures are polled, every git command answers or
\* times out, tokio's semaphore is first come first served, time passes and
\* the interval of the loop keeps firing.  The user promises nothing but that
\* a git command of theirs ends (ACTION_ and NETWORK_TIMEOUT_SECS).
Fairness ==
    /\ \A c \in Cycles : WF_vars(CycleStep(c))
    /\ \A c \in Cycles, p \in Projects :
          SF_vars(AcquirePermit(c, p)) /\ WF_vars(GitStep(c, p))
    /\ \A p \in Projects : WF_vars(UserEnd(p))
    /\ WF_vars(RefetchStatuses)
    /\ WF_vars(LoopTick)
    /\ WF_vars(Minute)

FairSpec == Spec /\ Fairness

-----------------------------------------------------------------------------
(* Invariants. *)

FreshnessType == [remote : {"unknown", "yes", "no"},
                  error : BOOLEAN, streak : 0..MaxStreak]

MetaType == [age : 0..BackoffCap, skipped : Nat]

CycleType == [pc : {"idle", "start", "stamp", "plan", "await"},
              only : SUBSET Projects, full : BOOLEAN, force : BOOLEAN,
              period : Periods \cup {0}, targets : SUBSET Projects]

TypeOK ==
    /\ status \in [Projects -> {"new", "live", "removed"}]
    /\ minutes \in Periods
    /\ sinceCycle \in 0..MaxAge
    /\ freshness \in [Projects -> FreshnessType]
    /\ sched \in [Projects -> MetaType]
    /\ ops \subseteq Projects
    /\ permits \in 0..MaxFetches
    /\ flagless \in BOOLEAN
    /\ cycle \in [Cycles -> CycleType]
    /\ task \in [Cycles \X Projects -> Stages]
    /\ user \subseteq Projects
    /\ shown \subseteq Projects
    /\ dropped \subseteq Projects
    /\ pending \in BOOLEAN
    /\ sinceClaim \in 0..FocusLimit

\* A project is in the lock set exactly while somebody's guard is alive.
LockHeldByGuards == ops = user \cup {p \in Projects : Locking(p) # {}}

\* At most one git command that takes the lock (a user's, or a background
\* fetch with its `git remote` and its retry) runs per project id, however
\* cycles and user commands interleave (state.rs: one write per repository).
OneOperationPerProject ==
    \A p \in Projects :
        /\ p \in user => Locking(p) = {}
        /\ \A c, d \in Locking(p) : c = d

HoldingPermit == {t \in Cycles \X Projects : task[t] \in Permitted}

\* No permit is lost or made up on any path through fetch_one.
PermitsConserved == permits + Cardinality(HoldingPermit) = MaxFetches

Fetching == {t \in Cycles \X Projects : task[t] \in Locked}

\* Overlapping cycles do not multiply the limit: never more than MaxFetches
\* background git processes at once (FETCH_SEM is one per process).
FetchCap == Cardinality(Fetching) <= MaxFetches

\* Tasks belong to cycles that await them, so a cycle's slot is not reused
\* while a task of it runs.
TasksAwaited == \A c \in Cycles, p \in Projects :
                    task[<<c, p>>] # "none" => cycle[c].pc = "await"

\* The count of skipped cycles stops at the recheck, whatever cycles overlap
\* and however often the recheck itself yields to the user.
SkipsBounded == \A p \in Projects : sched[p].skipped <= RecheckCycles

\* The badge signal is sent on transitions only.  Still, with nothing pending,
\* a live project's badge is right, unless a full cycle has forgotten the
\* project's error since: it drops the record of a project that it did not find
\* in its snapshot, without an event (run_cycle's retain).
BadgeCoherent ==
    \/ pending
    \/ \A p \in Live \ dropped : p \in shown <=> freshness[p].error

-----------------------------------------------------------------------------
(* Who holds a project's lock, as a refinement of the abstract mutex. *)

\* The user's command on p, the cycle whose task holds the guard, or nobody.
Holder(p) == IF p \in user THEN "user"
             ELSE IF Locking(p) # {} THEN CHOOSE c \in Cycles : c \in Locking(p)
             ELSE "nobody"

Mutex == INSTANCE KeyedMutex WITH
             Keys <- Projects, Actors <- Cycles \cup {"user"},
             Nobody <- "nobody", owner <- [p \in Projects |-> Holder(p)]

\* User commands and the tasks of all cycles together use AppState.ops as a
\* lock with one owner per project: a step takes a free lock or gives back
\* its own, and no step passes a held lock on to another holder.
LocksImplementMutex == Mutex!Spec

-----------------------------------------------------------------------------
(* Action properties. *)

Starts(c) == cycle[c].pc = "idle" /\ cycle'[c].pc = "start"

\* Two throttled triggers (ticks and focus events) never both win within the
\* focus interval, wherever their cycles are: claim_cycle's one lock section.
ThrottledApart ==
    [][(\E c \in Cycles : Starts(c) /\ ~cycle'[c].force)
           => sinceClaim >= FocusLimit]_vars

Attempts(c, p) == task[<<c, p>>] = "permit" /\ task'[<<c, p>>] \in Locked

\* An unforced attempt on a failing project waits for its backoff
\* (should_attempt: "2^n periods after the last attempt").
BackoffRespected ==
    [][\A c \in Cycles, p \in Projects :
        Attempts(c, p) /\ ~cycle[c].force =>
            sched[p].age >= Backoff(cycle[c].period, freshness[p].streak)]_vars

-----------------------------------------------------------------------------
(* Liveness. *)

\* Every spawned task comes to an end: the semaphore is not starved by
\* overlapping cycles and no early return keeps a permit.
TasksEnd == \A c \in Cycles, p \in Projects :
                task[<<c, p>>] # "none" ~> task[<<c, p>>] = "none"

\* A live project cached as remote-less is planned again (every
\* RecheckCycles cycles) unless background refresh is turned off.
RemoteRechecked ==
    \A p \in Projects :
        (p \in Live /\ freshness[p].remote = "no")
            ~> \/ p \notin Live \/ minutes = 0
               \/ \E c \in Cycles : task[<<c, p>>] # "none"

\* A fetch in flight when its project is removed may write a record of it
\* afterwards; full cycles sweep it up as long as any project is left
\* (run_cycle: "so that no zombie backoff or cache remains").
ZombiesPruned ==
    \A p \in Projects :
        <>[](status[p] = "removed" /\ Live # {}) => <>[](freshness[p] = NoEntry)

\* Turning background refresh off for good ends all unforced cycles: neither
\* the loop nor the focus trigger starts one any more.
OffDrains ==
    <>[](minutes = 0) =>
        <>[](\A c \in Cycles : cycle[c].pc = "idle" \/ cycle[c].force)
=============================================================================

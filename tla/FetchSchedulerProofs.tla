------------------------ MODULE FetchSchedulerProofs ------------------------
(***************************************************************************)
(* Proofs about FetchScheduler for every set of projects and cycles and    *)
(* every value of the limits: type correctness, the operation lock and     *)
(* that it implements KeyedMutex, the limit on background fetches,         *)
(* throttle and skips, and, under conditions that are named, the backoff   *)
(* and the badge.                                                          *)
(***************************************************************************)
EXTENDS FetchScheduler, FiniteSetTheorems, TLAPS

-----------------------------------------------------------------------------
(* Counting permits. *)

\* Permit holders are pairs of finite sets, so they can be counted.
LEMMA HoldersFinite ==
    /\ IsFiniteSet(Cycles \X Projects)
    /\ IsFiniteSet(HoldingPermit)
    /\ Cardinality(HoldingPermit) \in Nat
  <1>1. IsFiniteSet(Cycles \X Projects)
    BY FS_Product, ProjectsAssumption, CyclesAssumption
  <1>2. HoldingPermit \subseteq Cycles \X Projects
    BY DEF HoldingPermit
  <1>3. IsFiniteSet(HoldingPermit)
    BY <1>1, <1>2, FS_Subset
  <1> QED BY <1>1, <1>3, FS_CardinalityType

\* While somebody holds a permit, one may still be given back.
LEMMA HolderLeavesRoom ==
    ASSUME TypeOK, PermitsConserved,
           NEW c \in Cycles, NEW p \in Projects, task[<<c, p>>] \in Permitted
    PROVE  permits < MaxFetches
  <1>1. <<c, p>> \in HoldingPermit
    BY DEF HoldingPermit
  <1>2. Cardinality(HoldingPermit) # 0
    BY <1>1, HoldersFinite, FS_EmptySet
  <1>3. permits \in Nat
    BY LimitsAssumption DEF TypeOK
  <1> QED BY <1>2, <1>3, HoldersFinite DEF PermitsConserved

-----------------------------------------------------------------------------
(* Type correctness. *)

\* The initial records have their types.
LEMMA DefaultsTyped ==
    NoEntry \in FreshnessType /\ NoMeta \in MetaType /\ Idle \in CycleType
  BY LimitsAssumption DEF NoEntry, NoMeta, Idle, FreshnessType, MetaType, CycleType

LEMMA TypeInit == Init => TypeOK
  <1> SUFFICES ASSUME Init PROVE TypeOK
    OBVIOUS
  <1> USE DEF Init
  <1>1. status \in [Projects -> {"new", "live", "removed"}]
    OBVIOUS
  <1>2. /\ sinceCycle \in 0..MaxAge
        /\ permits \in 0..MaxFetches
        /\ sinceClaim \in 0..FocusLimit
    BY LimitsAssumption
  <1>3. /\ freshness \in [Projects -> FreshnessType]
        /\ sched \in [Projects -> MetaType]
        /\ cycle \in [Cycles -> CycleType]
    BY DefaultsTyped
  <1>4. task \in [Cycles \X Projects -> Stages]
    BY DEF Stages
  <1> QED BY <1>1, <1>2, <1>3, <1>4 DEF TypeOK

LEMMA TypeTrigger == TypeOK /\ Trigger => TypeOK'
  <1> SUFFICES ASSUME TypeOK, Trigger PROVE TypeOK'
    OBVIOUS
  <1> USE LimitsAssumption, CyclesAssumption
  <1>1. ASSUME NEW c \in Cycles, NEW only \in SUBSET Projects,
               NEW full \in BOOLEAN, NEW force \in BOOLEAN,
               Launch(c, only, full, force)
        PROVE  cycle' \in [Cycles -> CycleType]
    <2>1. [Idle EXCEPT !.pc = "start", !.only = only, !.full = full,
                       !.force = force] \in CycleType
      BY DEF Idle, CycleType
    <2> QED BY <1>1, <2>1 DEF Launch, TypeOK
  <1>2. CASE LoopTick
    <2>1. cycle' \in [Cycles -> CycleType]
      BY <1>1, <1>2 DEF LoopTick
    <2> QED BY <1>2, <2>1 DEF LoopTick, Claim, TypeOK
  <1>3. ASSUME NEW c \in Cycles, NEW ids \in SUBSET Projects,
               NEW force \in BOOLEAN, RefreshRemotes(c, ids, force)
        PROVE  TypeOK'
    <2>1. cycle' \in [Cycles -> CycleType]
      BY <1>1, <1>3 DEF RefreshRemotes
    <2> QED BY <1>3, <2>1 DEF RefreshRemotes, Claim, TypeOK
  <1> QED BY <1>2, <1>3 DEF Trigger, FocusReturn, ManualRefresh

LEMMA TypeCycle ==
    ASSUME TypeOK, NEW c \in Cycles, CycleStep(c) PROVE TypeOK'
  <1> USE LimitsAssumption, DefaultsTyped
  <1>0. cycle[c] \in CycleType
    BY DEF TypeOK
  <1>1. CASE CycleSnapshot(c)
    <2> DEFINE targets == IF cycle[c].full THEN Live ELSE Live \cap cycle[c].only
               next == IF cycle[c].full THEN "stamp" ELSE "plan"
    <2>1. [cycle[c] EXCEPT !.pc = next, !.only = {}, !.targets = targets,
                           !.period = minutes] \in CycleType
      BY <1>0 DEF CycleType, TypeOK, Live
    <2>2. cycle' \in [Cycles -> CycleType]
      <3> HIDE DEF targets, next
      <3> QED BY <1>1, <2>1 DEF CycleSnapshot, TypeOK, targets, next
    <2> QED BY <1>1, <2>2 DEF CycleSnapshot, TypeOK
  <1>2. CASE CycleStamp(c)
    <2>1. [cycle[c] EXCEPT !.pc = "plan"] \in CycleType
      BY <1>0 DEF CycleType
    <2>2. cycle' \in [Cycles -> CycleType]
      BY <1>2, <2>1 DEF CycleStamp, TypeOK
    <2>3. freshness' \in [Projects -> FreshnessType] /\ sched' \in [Projects -> MetaType]
      BY <1>2 DEF CycleStamp, TypeOK
    <2> QED BY <1>2, <2>2, <2>3 DEF CycleStamp, TypeOK
  <1>3. CASE CyclePlan(c)
    <2>1. Awaiting(c) \in CycleType
      BY <1>0 DEF Awaiting, Idle, CycleType
    <2>2. cycle' \in [Cycles -> CycleType]
      BY <1>3, <2>1 DEF CyclePlan, TypeOK
    <2>3. \A p \in Projects : [sched[p] EXCEPT !.skipped = @ + 1] \in MetaType
      BY DEF TypeOK, MetaType
    <2>4. sched' \in [Projects -> MetaType]
      BY <1>3, <2>3 DEF CyclePlan, TypeOK
    <2>5. task' \in [Cycles \X Projects -> Stages]
      BY <1>3 DEF CyclePlan, TypeOK, Stages
    <2> QED BY <1>3, <2>2, <2>4, <2>5 DEF CyclePlan, TypeOK
  <1>4. CASE CycleDone(c)
    BY <1>4 DEF CycleDone, TypeOK
  <1> QED BY <1>1, <1>2, <1>3, <1>4 DEF CycleStep

\* A task's step keeps the types; giving a permit back needs room for it.
LEMMA TypeTask ==
    ASSUME TypeOK, PermitsConserved, NEW c \in Cycles, NEW p \in Projects,
           AcquirePermit(c, p) \/ GitStep(c, p)
    PROVE  TypeOK'
  <1> USE LimitsAssumption DEF Stages, Permitted, Locked
  <1>1. permits \in Nat
    BY DEF TypeOK
  <1>2. task[<<c, p>>] \in Permitted => permits + 1 \in 0..MaxFetches
    BY <1>1, HolderLeavesRoom
  <1>3. freshness[p] \in FreshnessType
    BY DEF TypeOK
  <1>4. ASSUME NEW entry \in FreshnessType, ApplyOutcome(p, entry)
        PROVE  freshness' \in [Projects -> FreshnessType] /\ pending' \in BOOLEAN
    BY <1>4 DEF ApplyOutcome, TypeOK, FreshnessType
  <1>5. ASSUME task[<<c, p>>] \in Permitted, EndFetch(c, p)
        PROVE  /\ task' \in [Cycles \X Projects -> Stages]
               /\ ops' \subseteq Projects
               /\ permits' \in 0..MaxFetches
    BY <1>2, <1>5 DEF EndFetch, TypeOK
  <1>6. CASE AcquirePermit(c, p)
    BY <1>1, <1>6 DEF AcquirePermit, TypeOK
  <1>7. CASE YieldFetch(c, p)
    BY <1>2, <1>7 DEF YieldFetch, TypeOK
  <1>8. CASE BeginFetch(c, p)
    <2>1. [age |-> 0, skipped |-> 0] \in MetaType
      BY DEF MetaType
    <2>2. sched' \in [Projects -> MetaType]
      BY <1>8, <2>1 DEF BeginFetch, TypeOK
    <2> QED BY <1>8, <2>2 DEF BeginFetch, TypeOK, FetchStage
  <1>9. CASE RemoteListed(c, p)
    BY <1>9 DEF RemoteListed, TypeOK, FetchStage
  <1>10. CASE RemoteMissing(c, p)
    <2>1. [remote |-> "no", error |-> FALSE, streak |-> 0] \in FreshnessType
      BY DEF FreshnessType
    <2> QED BY <1>4, <1>5, <1>10, <2>1 DEF RemoteMissing, TypeOK
  <1>11. CASE RemoteFailed(c, p)
    BY <1>5, <1>11 DEF RemoteFailed, TypeOK
  <1>12. CASE FetchRetry(c, p)
    BY <1>12 DEF FetchRetry, TypeOK
  <1>13. CASE FetchSucceeded(c, p)
    <2>1. [remote |-> "yes", error |-> FALSE, streak |-> 0] \in FreshnessType
      BY DEF FreshnessType
    <2> QED BY <1>4, <1>5, <1>13, <2>1 DEF FetchSucceeded, FetchRunning, TypeOK
  <1>14. CASE FetchFailed(c, p)
    <2>1. [remote |-> "yes", error |-> TRUE,
           streak |-> Lesser(freshness[p].streak + 1, MaxStreak)] \in FreshnessType
      BY <1>3 DEF FreshnessType, Lesser
    <2> QED BY <1>4, <1>5, <1>14, <2>1 DEF FetchFailed, FetchRunning, TypeOK
  <1> QED BY <1>6, <1>7, <1>8, <1>9, <1>10, <1>11, <1>12, <1>13, <1>14 DEF GitStep

LEMMA TypeUser ==
    ASSUME TypeOK, NEW p \in Projects, UserStep(p) PROVE TypeOK'
  <1>1. CASE UserBegin(p)
    BY <1>1 DEF UserBegin, TypeOK
  <1>2. CASE UserEnd(p)
    BY <1>2 DEF UserEnd, TypeOK
  <1>3. CASE AddProject(p)
    BY <1>3 DEF AddProject, TypeOK
  <1>4. CASE RemoveProject(p)
    BY <1>4 DEF RemoveProject, TypeOK
  <1> QED BY <1>1, <1>2, <1>3, <1>4 DEF UserStep

LEMMA TypeMinute == TypeOK /\ Minute => TypeOK'
  <1> SUFFICES ASSUME TypeOK, Minute PROVE TypeOK'
    OBVIOUS
  <1> USE LimitsAssumption
  <1>1. sinceCycle' \in 0..MaxAge /\ sinceClaim' \in 0..FocusLimit
    BY DEF Minute, Lesser, TypeOK
  <1>2. \A p \in Projects :
            [sched[p] EXCEPT !.age = Lesser(@ + 1, BackoffCap)] \in MetaType
    BY DEF TypeOK, MetaType, Lesser
  <1>3. sched' \in [Projects -> MetaType]
    BY <1>2 DEF Minute
  <1> QED BY <1>1, <1>3 DEF Minute, TypeOK

LEMMA TypeStep == TypeOK /\ PermitsConserved /\ [Next]_vars => TypeOK'
  <1> SUFFICES ASSUME TypeOK, PermitsConserved, [Next]_vars PROVE TypeOK'
    OBVIOUS
  <1>1. ASSUME NEW m \in Periods, SetMinutes(m) PROVE TypeOK'
    BY <1>1 DEF SetMinutes, TypeOK
  <1>2. CASE RefetchStatuses
    BY <1>2 DEF RefetchStatuses, TypeOK, Live
  <1>3. CASE UNCHANGED vars
    BY <1>3 DEF vars, TypeOK
  <1> QED BY <1>1, <1>2, <1>3, TypeTrigger, TypeCycle, TypeTask, TypeUser,
             TypeMinute DEF Next

-----------------------------------------------------------------------------
(* The inductive invariant.  Permits and locks are only conserved because a *)
(* cycle that plans has no task left that planning could overwrite, which is *)
(* what TasksAwaited says.                                                   *)

IndInv == /\ TypeOK
          /\ TasksAwaited
          /\ PermitsConserved
          /\ LockHeldByGuards
          /\ OneOperationPerProject

LEMMA IndInvInit == Init => IndInv
  <1> SUFFICES ASSUME Init PROVE IndInv
    OBVIOUS
  <1>1. HoldingPermit = {}
    BY DEF Init, HoldingPermit, Permitted, Locked
  <1>2. PermitsConserved
    BY <1>1, FS_EmptySet, LimitsAssumption DEF Init, PermitsConserved
  <1>3. \A p \in Projects : Locking(p) = {}
    BY DEF Init, Locking, Locked
  <1>4. LockHeldByGuards /\ OneOperationPerProject
    BY <1>3 DEF Init, LockHeldByGuards, OneOperationPerProject
  <1>5. TasksAwaited
    BY DEF Init, TasksAwaited
  <1> QED BY <1>2, <1>4, <1>5, TypeInit DEF IndInv

\* What everything but a task's own step leaves alone.
Undisturbed ==
    /\ permits' = permits
    /\ \A t \in Cycles \X Projects :
          /\ task'[t] \in Permitted <=> task[t] \in Permitted
          /\ task'[t] \in Locked <=> task[t] \in Locked

LEMMA PlanningDisturbsNobody ==
    ASSUME TypeOK, TasksAwaited, NEW c \in Cycles, CyclePlan(c)
    PROVE  Undisturbed
  <1>1. \A p \in Projects : task[<<c, p>>] = "none"
    BY DEF TasksAwaited, CyclePlan
  <1>2. ASSUME NEW t \in Cycles \X Projects
        PROVE  task'[t] = task[t] \/ (task[t] = "none" /\ task'[t] = "queued")
    <2>1. CASE t[1] = c
      <3>1. t = <<c, t[2]>> /\ t[2] \in Projects
        BY <2>1
      <3>2. task[t] = "none"
        BY <1>1, <3>1
      <3> QED BY <3>2 DEF CyclePlan
    <2>2. CASE t[1] # c
      BY <2>2 DEF CyclePlan
    <2> QED BY <2>1, <2>2
  <1>3. permits' = permits
    BY DEF CyclePlan
  <1> QED BY <1>2, <1>3 DEF Undisturbed, Permitted, Locked

\* Everything that neither is a task's step nor touches the locks.
OtherStep ==
    \/ Trigger
    \/ \E c \in Cycles : CycleStep(c)
    \/ \E p \in Projects : AddProject(p) \/ RemoveProject(p)
    \/ \E m \in Periods : SetMinutes(m)
    \/ RefetchStatuses
    \/ Minute
    \/ UNCHANGED vars

LEMMA OtherStepsDisturbNobody ==
    ASSUME TypeOK, TasksAwaited, OtherStep
    PROVE  Undisturbed /\ ops' = ops /\ user' = user
  <1>1. CASE \E c \in Cycles : CyclePlan(c)
    BY <1>1, PlanningDisturbsNobody DEF CyclePlan
  <1>2. CASE Trigger
    BY <1>2 DEF Trigger, LoopTick, FocusReturn, ManualRefresh, RefreshRemotes, Undisturbed
  <1>3. ASSUME NEW c \in Cycles, CycleSnapshot(c) \/ CycleStamp(c) \/ CycleDone(c)
        PROVE  Undisturbed /\ ops' = ops /\ user' = user
    BY <1>3 DEF CycleSnapshot, CycleStamp, CycleDone, Undisturbed
  <1>4. ASSUME NEW p \in Projects, AddProject(p) \/ RemoveProject(p)
        PROVE  Undisturbed /\ ops' = ops /\ user' = user
    BY <1>4 DEF AddProject, RemoveProject, Undisturbed
  <1>5. CASE (\E m \in Periods : SetMinutes(m)) \/ RefetchStatuses \/ Minute
    BY <1>5 DEF SetMinutes, RefetchStatuses, Minute, Undisturbed
  <1>6. CASE UNCHANGED vars
    BY <1>6 DEF vars, Undisturbed
  <1> QED BY <1>1, <1>2, <1>3, <1>4, <1>5, <1>6 DEF OtherStep, CycleStep

-----------------------------------------------------------------------------
(* Conservation: each kind of step on the permits and on the locks. *)

LEMMA UndisturbedConserves ==
    ASSUME Undisturbed, ops' = ops, user' = user
    PROVE  /\ PermitsConserved => PermitsConserved'
           /\ LockHeldByGuards => LockHeldByGuards'
           /\ OneOperationPerProject => OneOperationPerProject'
  <1>1. HoldingPermit' = HoldingPermit
    BY DEF Undisturbed, HoldingPermit
  <1>2. \A p \in Projects : Locking(p)' = Locking(p)
    BY DEF Undisturbed, Locking
  <1> QED BY <1>1, <1>2 DEF Undisturbed, PermitsConserved, LockHeldByGuards,
                            OneOperationPerProject

\* A step of the task <<c, p>> and nothing else on the tasks.
OnlyTask(c, p) == \A t \in Cycles \X Projects : t # <<c, p>> => task'[t] = task[t]

LEMMA TakePermit ==
    ASSUME PermitsConserved, permits \in Nat, NEW c \in Cycles, NEW p \in Projects,
           OnlyTask(c, p), task[<<c, p>>] \notin Permitted,
           task'[<<c, p>>] \in Permitted, permits' = permits - 1
    PROVE  PermitsConserved'
  <1>1. HoldingPermit' = HoldingPermit \cup {<<c, p>>}
    BY DEF HoldingPermit, OnlyTask
  <1>2. <<c, p>> \notin HoldingPermit
    BY DEF HoldingPermit
  <1>3. Cardinality(HoldingPermit') = Cardinality(HoldingPermit) + 1
    BY <1>1, <1>2, HoldersFinite, FS_AddElement
  <1> QED BY <1>3, HoldersFinite, LimitsAssumption DEF PermitsConserved

LEMMA GivePermit ==
    ASSUME PermitsConserved, permits \in Nat, NEW c \in Cycles, NEW p \in Projects,
           OnlyTask(c, p), task[<<c, p>>] \in Permitted,
           task'[<<c, p>>] \notin Permitted, permits' = permits + 1
    PROVE  PermitsConserved'
  <1>1. HoldingPermit' = HoldingPermit \ {<<c, p>>}
    BY DEF HoldingPermit, OnlyTask
  <1>2. <<c, p>> \in HoldingPermit
    BY DEF HoldingPermit
  <1>3. Cardinality(HoldingPermit') = Cardinality(HoldingPermit) - 1
    BY <1>1, <1>2, HoldersFinite, FS_RemoveElement
  <1> QED BY <1>3, HoldersFinite, LimitsAssumption DEF PermitsConserved

LEMMA KeepPermit ==
    ASSUME PermitsConserved, NEW c \in Cycles, NEW p \in Projects,
           OnlyTask(c, p), task[<<c, p>>] \in Permitted,
           task'[<<c, p>>] \in Permitted, permits' = permits
    PROVE  PermitsConserved'
  <1>1. HoldingPermit' = HoldingPermit
    BY DEF HoldingPermit, OnlyTask
  <1> QED BY <1>1 DEF PermitsConserved

LEMMA TaskStepsTyped ==
    ASSUME TypeOK, NEW c \in Cycles, NEW p \in Projects,
           AcquirePermit(c, p) \/ GitStep(c, p)
    PROVE  OnlyTask(c, p)
  BY DEF TypeOK, OnlyTask, GitStep, AcquirePermit, YieldFetch, BeginFetch, EndFetch,
         RemoteListed, RemoteMissing, RemoteFailed, FetchRetry, FetchSucceeded,
         FetchFailed

LEMMA PermitsStep ==
    ASSUME IndInv, NEW c \in Cycles, NEW p \in Projects,
           AcquirePermit(c, p) \/ GitStep(c, p)
    PROVE  PermitsConserved'
  <1>1. permits \in Nat /\ TypeOK /\ PermitsConserved
    BY LimitsAssumption DEF IndInv, TypeOK
  <1>2. OnlyTask(c, p)
    BY <1>1, TaskStepsTyped
  <1> USE DEF Permitted, Locked
  <1>3. CASE AcquirePermit(c, p)
    <2>1. /\ task[<<c, p>>] \notin Permitted
          /\ task'[<<c, p>>] \in Permitted
          /\ permits' = permits - 1
      BY <1>1, <1>3 DEF AcquirePermit, TypeOK
    <2> QED BY <1>1, <1>2, <2>1, TakePermit
  <1>4. CASE BeginFetch(c, p) \/ RemoteListed(c, p) \/ FetchRetry(c, p)
    <2>1. /\ task[<<c, p>>] \in Permitted
          /\ task'[<<c, p>>] \in Permitted
          /\ permits' = permits
      BY <1>1, <1>4 DEF BeginFetch, RemoteListed, FetchRetry, FetchStage, TypeOK
    <2> QED BY <1>1, <1>2, <2>1, KeepPermit
  <1>5. CASE \/ YieldFetch(c, p) \/ RemoteMissing(c, p) \/ RemoteFailed(c, p)
             \/ FetchSucceeded(c, p) \/ FetchFailed(c, p)
    <2>1. /\ task[<<c, p>>] \in Permitted
          /\ task'[<<c, p>>] \notin Permitted
          /\ permits' = permits + 1
      BY <1>1, <1>5 DEF YieldFetch, RemoteMissing, RemoteFailed, FetchSucceeded,
                        FetchFailed, FetchRunning, EndFetch, TypeOK
    <2> QED BY <1>1, <1>2, <2>1, GivePermit
  <1> QED BY <1>3, <1>4, <1>5 DEF GitStep

LocksConsistent == LockHeldByGuards /\ OneOperationPerProject

LEMMA TakeLock ==
    ASSUME LocksConsistent, NEW c \in Cycles, NEW p \in Projects, OnlyTask(c, p),
           p \notin ops, task'[<<c, p>>] \in Locked,
           ops' = ops \cup {p}, user' = user
    PROVE  LocksConsistent'
  <1>1. p \notin user /\ Locking(p) = {}
    BY DEF LocksConsistent, LockHeldByGuards
  <1>2. Locking(p)' = {c}
    BY <1>1 DEF Locking, OnlyTask
  <1>3. \A q \in Projects \ {p} : Locking(q)' = Locking(q)
    BY DEF Locking, OnlyTask
  <1> QED BY <1>1, <1>2, <1>3 DEF LocksConsistent, LockHeldByGuards, OneOperationPerProject

LEMMA GiveLock ==
    ASSUME LocksConsistent, NEW c \in Cycles, NEW p \in Projects, OnlyTask(c, p),
           task[<<c, p>>] \in Locked, task'[<<c, p>>] \notin Locked,
           ops' = ops \ {p}, user' = user
    PROVE  LocksConsistent'
  <1>1. c \in Locking(p)
    BY DEF Locking
  <1>2. p \notin user /\ Locking(p) = {c}
    BY <1>1 DEF LocksConsistent, OneOperationPerProject
  <1>3. Locking(p)' = {}
    BY <1>2 DEF Locking, OnlyTask
  <1>4. \A q \in Projects \ {p} : Locking(q)' = Locking(q)
    BY DEF Locking, OnlyTask
  <1> QED BY <1>2, <1>3, <1>4 DEF LocksConsistent, LockHeldByGuards, OneOperationPerProject

LEMMA KeepLock ==
    ASSUME LocksConsistent, NEW c \in Cycles, NEW p \in Projects, OnlyTask(c, p),
           task[<<c, p>>] \in Locked <=> task'[<<c, p>>] \in Locked,
           ops' = ops, user' = user
    PROVE  LocksConsistent'
  <1>1. \A q \in Projects : Locking(q)' = Locking(q)
    BY DEF Locking, OnlyTask
  <1> QED BY <1>1 DEF LocksConsistent, LockHeldByGuards, OneOperationPerProject

LEMMA LocksTaskStep ==
    ASSUME IndInv, NEW c \in Cycles, NEW p \in Projects,
           AcquirePermit(c, p) \/ GitStep(c, p)
    PROVE  LocksConsistent'
  <1>1. TypeOK /\ LocksConsistent
    BY DEF IndInv, LocksConsistent
  <1>2. OnlyTask(c, p)
    BY <1>1, TaskStepsTyped
  <1>3. CASE AcquirePermit(c, p) \/ YieldFetch(c, p) \/ RemoteListed(c, p) \/ FetchRetry(c, p)
    <2>1. /\ task[<<c, p>>] \in Locked <=> task'[<<c, p>>] \in Locked
          /\ ops' = ops /\ user' = user
      BY <1>1, <1>3 DEF AcquirePermit, YieldFetch, RemoteListed, FetchRetry,
                        FetchStage, TypeOK, Locked
    <2> QED BY <1>1, <1>2, <2>1, KeepLock
  <1>4. CASE BeginFetch(c, p)
    <2>1. /\ p \notin ops /\ task'[<<c, p>>] \in Locked
          /\ ops' = ops \cup {p} /\ user' = user
      BY <1>1, <1>4 DEF BeginFetch, FetchStage, TypeOK, Locked
    <2> QED BY <1>1, <1>2, <2>1, TakeLock
  <1>5. CASE \/ RemoteMissing(c, p) \/ RemoteFailed(c, p)
             \/ FetchSucceeded(c, p) \/ FetchFailed(c, p)
    <2>1. /\ task[<<c, p>>] \in Locked /\ task'[<<c, p>>] \notin Locked
          /\ ops' = ops \ {p} /\ user' = user
      BY <1>1, <1>5 DEF RemoteMissing, RemoteFailed, FetchSucceeded, FetchFailed,
                        FetchRunning, EndFetch, TypeOK, Locked
    <2> QED BY <1>1, <1>2, <2>1, GiveLock
  <1> QED BY <1>3, <1>4, <1>5 DEF GitStep

LEMMA UserLockStep ==
    ASSUME IndInv, NEW p \in Projects, UserBegin(p) \/ UserEnd(p)
    PROVE  PermitsConserved' /\ LocksConsistent'
  <1>1. HoldingPermit' = HoldingPermit /\ \A q \in Projects : Locking(q)' = Locking(q)
    BY DEF UserBegin, UserEnd, HoldingPermit, Locking
  <1>2. PermitsConserved'
    BY <1>1 DEF IndInv, UserBegin, UserEnd, PermitsConserved
  <1>3. LocksConsistent'
    BY <1>1 DEF IndInv, UserBegin, UserEnd, LocksConsistent, LockHeldByGuards,
                OneOperationPerProject
  <1> QED BY <1>2, <1>3

-----------------------------------------------------------------------------
(* Tasks only live in cycles that await them. *)

LEMMA AwaitedStep == IndInv /\ Next => TasksAwaited'
  <1> SUFFICES ASSUME IndInv, Next PROVE TasksAwaited'
    OBVIOUS
  <1>1. TypeOK /\ TasksAwaited
    BY DEF IndInv
  <1>2. ASSUME NEW c \in Cycles, CyclePlan(c) PROVE TasksAwaited'
    <2>1. Awaiting(c).pc = "await"
      BY DEF Awaiting, Idle
    <2>2. ASSUME NEW d \in Cycles, NEW p \in Projects, task'[<<d, p>>] # "none"
          PROVE  cycle'[d].pc = "await"
      <3>1. CASE d = c
        <4>1. task[<<c, p>>] = "none"
          BY <1>1, <1>2 DEF CyclePlan, TasksAwaited
        <4>2. p \in Planned(c)
          BY <1>2, <2>2, <3>1, <4>1 DEF CyclePlan
        <4> QED BY <1>1, <1>2, <2>1, <3>1, <4>2 DEF CyclePlan, TypeOK
      <3>2. CASE d # c
        BY <1>1, <1>2, <2>2, <3>2 DEF CyclePlan, TasksAwaited, TypeOK
      <3> QED BY <3>1, <3>2
    <2> QED BY <2>2 DEF TasksAwaited
  <1>3. ASSUME NEW c \in Cycles, CycleSnapshot(c) \/ CycleStamp(c) \/ CycleDone(c)
        PROVE  TasksAwaited'
    <2>1. /\ task' = task /\ \A p \in Projects : task[<<c, p>>] = "none"
          /\ \A d \in Cycles \ {c} : cycle'[d] = cycle[d]
      BY <1>1, <1>3 DEF CycleSnapshot, CycleStamp, CycleDone, TasksAwaited, TypeOK
    <2> QED BY <1>1, <2>1 DEF TasksAwaited
  <1>4. CASE Trigger
    <2>1. PICK c \in Cycles : /\ cycle[c].pc = "idle" /\ task' = task
                              /\ \A d \in Cycles \ {c} : cycle'[d] = cycle[d]
      BY <1>1, <1>4, CyclesAssumption
      DEF Trigger, LoopTick, FocusReturn, ManualRefresh, RefreshRemotes, Launch, TypeOK
    <2> QED BY <1>1, <2>1 DEF TasksAwaited
  <1>5. ASSUME NEW c \in Cycles, NEW p \in Projects, AcquirePermit(c, p) \/ GitStep(c, p)
        PROVE  TasksAwaited'
    <2>1. cycle' = cycle /\ task[<<c, p>>] # "none"
      BY <1>5 DEF AcquirePermit, GitStep, YieldFetch, BeginFetch, RemoteListed,
                  RemoteMissing, RemoteFailed, FetchRetry, FetchSucceeded,
                  FetchFailed, FetchRunning
    <2>2. OnlyTask(c, p)
      BY <1>1, <1>5, TaskStepsTyped
    <2> QED BY <1>1, <2>1, <2>2 DEF TasksAwaited, OnlyTask
  <1>6. CASE \/ \E p \in Projects : UserStep(p)
             \/ \E m \in Periods : SetMinutes(m)
             \/ RefetchStatuses
             \/ Minute
    <2>1. cycle' = cycle /\ task' = task
      BY <1>6 DEF UserStep, UserBegin, UserEnd, AddProject, RemoveProject,
                  SetMinutes, RefetchStatuses, Minute
    <2> QED BY <1>1, <2>1 DEF TasksAwaited
  <1> QED BY <1>2, <1>3, <1>4, <1>5, <1>6 DEF Next, CycleStep

-----------------------------------------------------------------------------
(* The theorems. *)

LEMMA IndInvStep == IndInv /\ [Next]_vars => IndInv'
  <1> SUFFICES ASSUME IndInv, [Next]_vars PROVE IndInv'
    OBVIOUS
  <1>1. TypeOK'
    BY TypeStep DEF IndInv
  <1>2. TasksAwaited'
    <2>1. CASE UNCHANGED vars
      BY <2>1 DEF IndInv, TasksAwaited, vars
    <2> QED BY <2>1, AwaitedStep
  <1>3. PermitsConserved' /\ LocksConsistent'
    <2>1. CASE OtherStep
      <3>1. Undisturbed /\ ops' = ops /\ user' = user
        BY <2>1, OtherStepsDisturbNobody DEF IndInv
      <3> QED BY <3>1, UndisturbedConserves DEF IndInv, LocksConsistent
    <2>2. ASSUME NEW c \in Cycles, NEW p \in Projects,
                 AcquirePermit(c, p) \/ GitStep(c, p)
          PROVE  PermitsConserved' /\ LocksConsistent'
      BY <2>2, PermitsStep, LocksTaskStep
    <2>3. ASSUME NEW p \in Projects, UserBegin(p) \/ UserEnd(p)
          PROVE  PermitsConserved' /\ LocksConsistent'
      BY <2>3, UserLockStep
    <2> QED BY <2>1, <2>2, <2>3 DEF Next, OtherStep, UserStep
  <1> QED BY <1>1, <1>2, <1>3 DEF IndInv, LocksConsistent

THEOREM Invariance == Spec => []IndInv
  BY IndInvInit, IndInvStep, PTL DEF Spec

\* Every reachable state is well typed, for all values of the constants.
THEOREM TypeCorrect == Spec => []TypeOK
  <1>1. IndInv => TypeOK
    BY DEF IndInv
  <1> QED BY <1>1, Invariance, PTL

\* No two git commands that take a project's lock ever run at the same time,
\* however many cycles and user commands overlap (state.rs, fetch_one).
THEOREM OneOperation == Spec => []OneOperationPerProject
  <1>1. IndInv => OneOperationPerProject
    BY DEF IndInv
  <1> QED BY <1>1, Invariance, PTL

\* The lock set holds a project exactly while a guard on it is alive.
THEOREM LocksHeld == Spec => []LockHeldByGuards
  <1>1. IndInv => LockHeldByGuards
    BY DEF IndInv
  <1> QED BY <1>1, Invariance, PTL

\* Permits are conserved on every path through fetch_one.
THEOREM Permits == Spec => []PermitsConserved
  <1>1. IndInv => PermitsConserved
    BY DEF IndInv
  <1> QED BY <1>1, Invariance, PTL

\* However many cycles overlap, at most MaxFetches background fetches run.
THEOREM FetchLimit == Spec => []FetchCap
  <1>1. IndInv => FetchCap
    <2> SUFFICES ASSUME IndInv PROVE FetchCap
      OBVIOUS
    <2>1. Fetching \subseteq HoldingPermit
      BY DEF Fetching, HoldingPermit, Permitted
    <2>2. Cardinality(Fetching) <= Cardinality(HoldingPermit)
      BY <2>1, HoldersFinite, FS_Subset
    <2>3. Cardinality(Fetching) \in Nat
      BY <2>1, HoldersFinite, FS_Subset, FS_CardinalityType
    <2>4. permits \in Nat /\ MaxFetches \in Nat
      BY LimitsAssumption DEF IndInv, TypeOK
    <2> QED BY <2>2, <2>3, <2>4, HoldersFinite DEF IndInv, PermitsConserved, FetchCap
  <1> QED BY <1>1, Invariance, PTL

-----------------------------------------------------------------------------
(* Throttling: LAST_CYCLE is never older than the last claim, because a      *)
(* claim stamps it in the same step and everything else only makes it younger. *)

ClaimStamped == sinceClaim >= Lesser(sinceCycle, FocusLimit)

LEMMA ClaimStep == TypeOK /\ ClaimStamped /\ [Next]_vars => ClaimStamped'
  <1> SUFFICES ASSUME TypeOK, ClaimStamped, [Next]_vars PROVE ClaimStamped'
    OBVIOUS
  <1>1. /\ sinceClaim \in 0..FocusLimit /\ sinceCycle \in 0..MaxAge
        /\ FocusLimit \in Nat /\ MaxAge \in Nat /\ FocusLimit <= MaxAge
    BY LimitsAssumption DEF TypeOK
  <1>2. CASE Minute
    BY <1>1, <1>2 DEF Minute, ClaimStamped, Lesser
  <1>3. CASE sinceCycle' = 0 /\ sinceClaim' \in Nat
    BY <1>1, <1>3 DEF ClaimStamped, Lesser
  <1>4. CASE UNCHANGED <<sinceCycle, sinceClaim>>
    BY <1>4 DEF ClaimStamped
  <1>5. CASE Trigger
    <2>1. \/ sinceCycle' = 0 /\ sinceClaim' \in Nat
          \/ UNCHANGED <<sinceCycle, sinceClaim>>
      <3>1. CASE LoopTick
        BY <3>1 DEF LoopTick, Claim
      <3>2. ASSUME NEW c \in Cycles, NEW ids \in SUBSET Projects, NEW force \in BOOLEAN,
                   RefreshRemotes(c, ids, force)
            PROVE  \/ sinceCycle' = 0 /\ sinceClaim' \in Nat
                   \/ UNCHANGED <<sinceCycle, sinceClaim>>
        BY <3>2 DEF RefreshRemotes, Claim
      <3> QED BY <1>5, <3>1, <3>2 DEF Trigger, FocusReturn, ManualRefresh
    <2> QED BY <1>3, <1>4, <2>1
  <1>6. ASSUME NEW c \in Cycles, CycleStep(c) PROVE ClaimStamped'
    <2>1. CASE CycleStamp(c)
      BY <1>1, <1>3, <2>1 DEF CycleStamp
    <2> QED BY <1>4, <1>6, <2>1 DEF CycleStep, CycleSnapshot, CyclePlan, CycleDone
  <1>7. ASSUME NEW c \in Cycles, NEW p \in Projects, AcquirePermit(c, p) \/ GitStep(c, p)
        PROVE  ClaimStamped'
    BY <1>4, <1>7 DEF AcquirePermit, GitStep, YieldFetch, BeginFetch, RemoteListed,
                      RemoteMissing, RemoteFailed, FetchRetry, FetchSucceeded, FetchFailed
  <1>8. CASE (\E p \in Projects : UserStep(p)) \/ (\E m \in Periods : SetMinutes(m))
    BY <1>4, <1>8 DEF UserStep, UserBegin, UserEnd, AddProject, RemoveProject, SetMinutes
  <1>9. CASE RefetchStatuses \/ UNCHANGED vars
    BY <1>4, <1>9 DEF RefetchStatuses, vars
  <1> QED BY <1>2, <1>5, <1>6, <1>7, <1>8, <1>9 DEF Next

\* Ticks and focus events that win the claim are at least a focus interval
\* apart (claim_cycle).
THEOREM Throttled == Spec => ThrottledApart
  <1>1. Init => ClaimStamped
    BY LimitsAssumption DEF Init, ClaimStamped, Lesser
  <1>2. TypeOK /\ ClaimStamped /\ [Next]_vars =>
           [(\E c \in Cycles : Starts(c) /\ ~cycle'[c].force)
               => sinceClaim >= FocusLimit]_vars
    <2> SUFFICES ASSUME TypeOK, ClaimStamped, Next, NEW c \in Cycles, Starts(c),
                        ~cycle'[c].force
                 PROVE  sinceClaim >= FocusLimit
      OBVIOUS
    <2>1. /\ sinceClaim \in 0..FocusLimit /\ sinceCycle \in 0..MaxAge
          /\ FocusLimit \in Nat /\ MaxAge \in Nat /\ minutes \in Nat
          /\ minutes # 0 => minutes >= FocusLimit
      BY LimitsAssumption DEF TypeOK
    <2>2. cycle' # cycle /\ cycle[c].pc = "idle" /\ cycle'[c].pc = "start"
      BY DEF Starts
    <2>3. Trigger
      <3>1. ASSUME NEW d \in Cycles, CycleStep(d) PROVE FALSE
        <4>1. cycle'[d].pc # "start"
          <5>1. cycle \in [Cycles -> CycleType] /\ cycle[d] \in CycleType
            BY DEF TypeOK
          <5>2. CASE CycleSnapshot(d)
            BY <5>1, <5>2 DEF CycleSnapshot, CycleType, Idle
          <5>3. CASE CycleStamp(d)
            BY <5>1, <5>3 DEF CycleStamp, CycleType
          <5>4. CASE CyclePlan(d)
            BY <5>1, <5>4 DEF CyclePlan, Idle, Awaiting
          <5>5. CASE CycleDone(d)
            BY <5>1, <5>5 DEF CycleDone, Idle
          <5> QED BY <3>1, <5>2, <5>3, <5>4, <5>5 DEF CycleStep
        <4>2. c # d => cycle'[c] = cycle[c]
          BY <3>1 DEF CycleStep, CycleSnapshot, CycleStamp, CyclePlan, CycleDone, TypeOK
        <4> QED BY <2>2, <4>1, <4>2
      <3>2. ASSUME NEW d \in Cycles, NEW p \in Projects, AcquirePermit(d, p) \/ GitStep(d, p)
            PROVE  FALSE
        BY <2>2, <3>2 DEF AcquirePermit, GitStep, YieldFetch, BeginFetch, RemoteListed,
                          RemoteMissing, RemoteFailed, FetchRetry, FetchSucceeded, FetchFailed
      <3>3. ASSUME \/ \E p \in Projects : UserStep(p)
                   \/ \E m \in Periods : SetMinutes(m)
                   \/ RefetchStatuses
                   \/ Minute
            PROVE  FALSE
        BY <2>2, <3>3 DEF UserStep, UserBegin, UserEnd, AddProject, RemoveProject,
                          SetMinutes, RefetchStatuses, Minute
      <3> QED BY <3>1, <3>2, <3>3 DEF Next
    <2>4. sinceCycle >= FocusLimit
      <3>1. CASE LoopTick
        BY <2>1, <3>1 DEF LoopTick, Claim
      <3>2. ASSUME NEW d \in Cycles, NEW ids \in SUBSET Projects, NEW force \in BOOLEAN,
                   RefreshRemotes(d, ids, force)
            PROVE  sinceCycle >= FocusLimit
        <4>1. c = d
          BY <2>2, <3>2 DEF RefreshRemotes, Launch, TypeOK
        <4>2. cycle'[c].force = force
          BY <3>2, <4>1 DEF RefreshRemotes, Launch, TypeOK, Idle
        <4> QED BY <3>2, <4>2 DEF RefreshRemotes, Claim
      <3> QED BY <2>3, <3>1, <3>2 DEF Trigger, FocusReturn, ManualRefresh
    <2> QED BY <2>1, <2>4 DEF ClaimStamped, Lesser
  <1> QED BY <1>1, <1>2, ClaimStep, TypeCorrect, PTL DEF Spec, ThrottledApart

-----------------------------------------------------------------------------
(* The skip count. *)

LEMMA SkipsStep == TypeOK /\ SkipsBounded /\ [Next]_vars => SkipsBounded'
  <1> SUFFICES ASSUME TypeOK, SkipsBounded, [Next]_vars PROVE SkipsBounded'
    OBVIOUS
  <1> USE LimitsAssumption
  <1>1. ASSUME NEW c \in Cycles, CyclePlan(c) PROVE SkipsBounded'
    <2> SUFFICES ASSUME NEW p \in Projects PROVE sched'[p].skipped <= RecheckCycles
      BY DEF SkipsBounded
    <2>1. sched[p].skipped \in Nat /\ sched[p] \in MetaType
      BY DEF TypeOK, MetaType
    <2>2. CASE p \in cycle[c].targets \ Planned(c) /\ freshness[p].remote = "no"
      <3>1. sched[p].skipped < RecheckCycles
        BY <2>1, <2>2 DEF Planned, ShouldAttempt
      <3>2. sched'[p].skipped = sched[p].skipped + 1
        BY <1>1, <2>1, <2>2 DEF CyclePlan, MetaType
      <3> QED BY <2>1, <3>1, <3>2
    <2>3. CASE ~(p \in cycle[c].targets \ Planned(c) /\ freshness[p].remote = "no")
      BY <1>1, <2>3 DEF CyclePlan, SkipsBounded
    <2> QED BY <2>2, <2>3
  <1>2. ASSUME NEW c \in Cycles, CycleStamp(c) PROVE SkipsBounded'
    BY <1>2 DEF CycleStamp, SkipsBounded, NoMeta
  <1>3. ASSUME NEW c \in Cycles, NEW p \in Projects, BeginFetch(c, p) PROVE SkipsBounded'
    BY <1>3 DEF BeginFetch, SkipsBounded, TypeOK
  <1>4. CASE Minute
    BY <1>4 DEF Minute, SkipsBounded, TypeOK, MetaType
  <1>5. CASE sched' = sched
    BY <1>5 DEF SkipsBounded
  <1>6. CASE Trigger
    BY <1>5, <1>6 DEF Trigger, LoopTick, FocusReturn, ManualRefresh, RefreshRemotes
  <1>7. ASSUME NEW c \in Cycles, NEW p \in Projects, AcquirePermit(c, p) \/ GitStep(c, p)
        PROVE  SkipsBounded'
    BY <1>3, <1>5, <1>7 DEF AcquirePermit, GitStep, YieldFetch, RemoteListed,
                      RemoteMissing, RemoteFailed, FetchRetry, FetchSucceeded, FetchFailed
  <1>8. CASE (\E p \in Projects : UserStep(p)) \/ (\E m \in Periods : SetMinutes(m))
    BY <1>5, <1>8 DEF UserStep, UserBegin, UserEnd, AddProject, RemoveProject, SetMinutes
  <1>9. CASE RefetchStatuses \/ UNCHANGED vars
    BY <1>5, <1>9 DEF RefetchStatuses, vars
  <1>10. ASSUME NEW c \in Cycles, CycleStep(c) PROVE SkipsBounded'
    BY <1>1, <1>2, <1>5, <1>10 DEF CycleStep, CycleSnapshot, CycleDone
  <1> QED BY <1>4, <1>6, <1>7, <1>8, <1>9, <1>10 DEF Next

\* A project without a remote is skipped for at most RecheckCycles cycles in
\* a row (run_cycle, should_attempt).
THEOREM Skips == Spec => []SkipsBounded
  <1>1. Init => SkipsBounded
    BY LimitsAssumption DEF Init, SkipsBounded, NoMeta
  <1> QED BY <1>1, SkipsStep, TypeCorrect, PTL DEF Spec

-----------------------------------------------------------------------------
(* The refinement: AppState.ops is the abstract lock, its owner whoever has  *)
(* the guard alive.                                                          *)

\* The mapped owner is the user, the one cycle whose task has the lock, or nobody.
Owned == \A p \in Projects :
    /\ p \in user => Holder(p) = "user"
    /\ \A c \in Locking(p) : Holder(p) = c
    /\ p \notin user /\ Locking(p) = {} => Holder(p) = "nobody"

LEMMA HolderOwns == IndInv => Owned
  <1> SUFFICES ASSUME IndInv, NEW p \in Projects
               PROVE  /\ p \in user => Holder(p) = "user"
                      /\ \A c \in Locking(p) : Holder(p) = c
                      /\ p \notin user /\ Locking(p) = {} => Holder(p) = "nobody"
    BY DEF Owned
  <1>1. ASSUME NEW c \in Locking(p) PROVE Holder(p) = c
    <2>1. p \notin user /\ Locking(p) = {c} /\ c \in Cycles
      BY <1>1 DEF IndInv, OneOperationPerProject, Locking
    <2> QED BY <2>1 DEF Holder
  <1> QED BY <1>1 DEF Holder

LEMMA MutexInit == Init => Mutex!Init
  <1> SUFFICES ASSUME Init PROVE Mutex!Init
    OBVIOUS
  <1>1. \A p \in Projects : p \notin user /\ Locking(p) = {}
    BY DEF Init, Locking, Locked
  <1>2. \A p \in Projects : Holder(p) = "nobody"
    BY <1>1 DEF Holder
  <1> QED BY <1>2 DEF Mutex!Init

\* Who keeps what decides it keeps the owner.
LEMMA SameHolder ==
    ASSUME NEW p \in Projects, Locking(p)' = Locking(p), p \in user' <=> p \in user
    PROVE  Holder(p)' = Holder(p)
  BY DEF Holder

\* One project's owner changes from nobody to a, or from a to nobody.
LEMMA MutexMoves ==
    ASSUME NEW p \in Projects, NEW a \in Cycles \cup {"user"},
           \A q \in Projects \ {p} : Holder(q)' = Holder(q),
           \/ Holder(p) = "nobody" /\ Holder(p)' = a
           \/ Holder(p) = a /\ Holder(p)' = "nobody"
    PROVE  Mutex!Next
  <1>1. CASE Holder(p) = "nobody" /\ Holder(p)' = a
    <2>1. Mutex!Acquire(p, a)
      BY <1>1 DEF Mutex!Acquire, Mutex!Free
    <2> QED BY <2>1 DEF Mutex!Next
  <1>2. CASE Holder(p) = a /\ Holder(p)' = "nobody"
    <2>1. Mutex!Release(p, a)
      BY <1>2 DEF Mutex!Release
    <2> QED BY <2>1 DEF Mutex!Next
  <1> QED BY <1>1, <1>2

LEMMA MutexTaskStep ==
    ASSUME IndInv, Owned, Owned', NEW c \in Cycles, NEW p \in Projects,
           AcquirePermit(c, p) \/ GitStep(c, p)
    PROVE  [Mutex!Next]_[q \in Projects |-> Holder(q)]
  <1>1. TypeOK /\ LocksConsistent /\ OnlyTask(c, p)
    BY TaskStepsTyped DEF IndInv, LocksConsistent
  <1>2. user' = user
    BY DEF AcquirePermit, GitStep, YieldFetch, BeginFetch, RemoteListed, RemoteMissing,
           RemoteFailed, FetchRetry, FetchSucceeded, FetchFailed
  <1>3. \A q \in Projects \ {p} : Holder(q)' = Holder(q)
    <2>1. \A q \in Projects \ {p} : Locking(q)' = Locking(q)
      BY <1>1 DEF Locking, OnlyTask
    <2> QED BY <1>2, <2>1, SameHolder
  <1>4. CASE AcquirePermit(c, p) \/ YieldFetch(c, p) \/ RemoteListed(c, p) \/ FetchRetry(c, p)
    <2>1. task[<<c, p>>] \in Locked <=> task'[<<c, p>>] \in Locked
      BY <1>1, <1>4 DEF AcquirePermit, YieldFetch, RemoteListed, FetchRetry,
                        FetchStage, TypeOK, Locked
    <2>2. Locking(p)' = Locking(p)
      BY <1>1, <2>1 DEF Locking, OnlyTask
    <2>3. Holder(p)' = Holder(p)
      BY <1>2, <2>2, SameHolder
    <2> QED BY <1>3, <2>3
  <1>5. CASE BeginFetch(c, p)
    <2>1. p \notin ops /\ task'[<<c, p>>] \in Locked
      BY <1>1, <1>5 DEF BeginFetch, FetchStage, TypeOK, Locked
    <2>2. p \notin user /\ Locking(p) = {} /\ c \in Locking(p)'
      BY <1>1, <2>1 DEF LocksConsistent, LockHeldByGuards, Locking
    <2>3. Holder(p) = "nobody" /\ Holder(p)' = c
      BY <2>2 DEF Owned
    <2> QED BY <1>3, <2>3, MutexMoves
  <1>6. CASE \/ RemoteMissing(c, p) \/ RemoteFailed(c, p)
             \/ FetchSucceeded(c, p) \/ FetchFailed(c, p)
    <2>1. task[<<c, p>>] \in Locked /\ task'[<<c, p>>] \notin Locked
      BY <1>1, <1>6 DEF RemoteMissing, RemoteFailed, FetchSucceeded, FetchFailed,
                        FetchRunning, EndFetch, TypeOK, Locked
    <2>2. p \notin user /\ Locking(p) = {c}
      BY <1>1, <2>1 DEF LocksConsistent, OneOperationPerProject, Locking
    <2>3. p \notin user' /\ Locking(p)' = {}
      BY <1>1, <1>2, <2>1, <2>2 DEF Locking, OnlyTask
    <2>4. Holder(p) = c /\ Holder(p)' = "nobody"
      BY <2>2, <2>3 DEF Owned
    <2> QED BY <1>3, <2>4, MutexMoves
  <1> QED BY <1>4, <1>5, <1>6 DEF GitStep

LEMMA MutexUserStep ==
    ASSUME IndInv, Owned, Owned', NEW p \in Projects, UserBegin(p) \/ UserEnd(p)
    PROVE  Mutex!Next
  <1>1. \A q \in Projects : Locking(q)' = Locking(q)
    BY DEF UserBegin, UserEnd, Locking
  <1>2. \A q \in Projects \ {p} : q \in user' <=> q \in user
    BY DEF UserBegin, UserEnd
  <1>3. \A q \in Projects \ {p} : Holder(q)' = Holder(q)
    BY <1>1, <1>2, SameHolder
  <1>4. CASE UserBegin(p)
    <2>1. p \notin user /\ Locking(p) = {} /\ p \in user'
      BY <1>4 DEF UserBegin, IndInv, LockHeldByGuards
    <2>2. Holder(p) = "nobody" /\ Holder(p)' = "user"
      BY <2>1 DEF Owned
    <2> QED BY <1>3, <2>2, MutexMoves
  <1>5. CASE UserEnd(p)
    <2>1. p \in user /\ Locking(p) = {} /\ p \notin user' /\ Locking(p)' = {}
      BY <1>1, <1>5 DEF UserEnd, IndInv, OneOperationPerProject
    <2>2. Holder(p) = "user" /\ Holder(p)' = "nobody"
      BY <2>1 DEF Owned
    <2> QED BY <1>3, <2>2, MutexMoves
  <1> QED BY <1>4, <1>5

LEMMA MutexNext ==
    ASSUME IndInv, Owned, Owned', [Next]_vars
    PROVE  [Mutex!Next]_[p \in Projects |-> Holder(p)]
  <1>1. CASE OtherStep
    <2>1. Undisturbed /\ user' = user
      BY <1>1, OtherStepsDisturbNobody DEF IndInv
    <2>2. \A p \in Projects : Locking(p)' = Locking(p)
      BY <2>1 DEF Undisturbed, Locking
    <2>3. \A p \in Projects : Holder(p)' = Holder(p)
      BY <2>1, <2>2, SameHolder
    <2> QED BY <2>3
  <1>2. ASSUME NEW c \in Cycles, NEW p \in Projects, AcquirePermit(c, p) \/ GitStep(c, p)
        PROVE  [Mutex!Next]_[q \in Projects |-> Holder(q)]
    BY <1>2, MutexTaskStep
  <1>3. ASSUME NEW p \in Projects, UserBegin(p) \/ UserEnd(p) PROVE Mutex!Next
    BY <1>3, MutexUserStep
  <1> QED BY <1>1, <1>2, <1>3 DEF Next, OtherStep, UserStep

\* User commands and the tasks of all cycles together use AppState.ops as a
\* lock with one owner per project: a step takes a free lock or gives back
\* its own, and no step passes a held lock on to another holder.
THEOREM Refinement == Spec => LocksImplementMutex
  <1>1. IndInv /\ IndInv' /\ [Next]_vars => [Mutex!Next]_[p \in Projects |-> Holder(p)]
    <2>1. IndInv' => Owned'
      BY HolderOwns, PTL
    <2> QED BY <2>1, HolderOwns, MutexNext
  <1>2. Spec => Mutex!Spec
    BY <1>1, MutexInit, Invariance, PTL DEF Spec, Mutex!Spec
  <1> QED BY <1>2 DEF LocksImplementMutex

-----------------------------------------------------------------------------
(* The backoff: what a cycle has decided stays true until its task begins,   *)
(* unless another cycle's task on the project changes the record meanwhile.  *)

\* No two cycles have a task on the same project.
OneTaskPerProject ==
    \A c, d \in Cycles, p \in Projects :
        task[<<c, p>>] # "none" /\ task[<<d, p>>] # "none" => c = d

\* Only a project whose remote is known counts failures.
StreaksHaveRemotes == \A p \in Projects : freshness[p].remote # "yes" => freshness[p].streak = 0

Waiting == {"queued", "permit"}

\* The task of c on p has not begun, and it is time.
Due(c, p) ==
    task[<<c, p>>] \in Waiting /\ ~cycle[c].force =>
        sched[p].age >= Backoff(cycle[c].period, freshness[p].streak)

AllDue == \A c \in Cycles, p \in Projects : Due(c, p)

LEMMA BackoffTyped ==
    ASSUME NEW period \in Nat, NEW streak \in Nat
    PROVE  /\ Backoff(period, streak) \in Int /\ Backoff(period, streak) <= BackoffCap
           /\ streak = 0 => Backoff(period, streak) = 0
  <1>1. 2 ^ streak \in Int
    OBVIOUS
  <1>2. (IF period = 0 THEN 1 ELSE period) * 2 ^ streak \in Int
    BY <1>1
  <1> QED BY <1>2, LimitsAssumption DEF Backoff, Lesser

RecordsOK == \A c \in Cycles, p \in Projects :
    /\ sched[p].age \in 0..BackoffCap /\ freshness[p].streak \in Nat
    /\ cycle[c].period \in Nat /\ cycle[c].force \in BOOLEAN
    /\ Backoff(cycle[c].period, freshness[p].streak) \in Int

LEMMA RecordsTyped == TypeOK => RecordsOK
  <1> SUFFICES ASSUME TypeOK, NEW c \in Cycles, NEW p \in Projects
               PROVE  /\ sched[p].age \in 0..BackoffCap /\ freshness[p].streak \in Nat
                      /\ cycle[c].period \in Nat /\ cycle[c].force \in BOOLEAN
                      /\ Backoff(cycle[c].period, freshness[p].streak) \in Int
    BY DEF RecordsOK
  <1>1. sched[p] \in MetaType /\ freshness[p] \in FreshnessType /\ cycle[c] \in CycleType
    BY DEF TypeOK
  <1>2. sched[p].age \in 0..BackoffCap
    BY <1>1 DEF MetaType
  <1>3. freshness[p].streak \in Nat
    BY <1>1, LimitsAssumption DEF FreshnessType
  <1>4. cycle[c].period \in Periods \cup {0} /\ cycle[c].force \in BOOLEAN
    BY <1>1 DEF CycleType
  <1>5. cycle[c].period \in Nat
    <2>1. Periods \subseteq Nat
      BY LimitsAssumption
    <2>2. \A m \in Periods \cup {0} : m \in Nat
      BY <2>1
    <2> QED BY <1>4, <2>2
  <1> QED BY <1>2, <1>3, <1>4, <1>5, BackoffTyped

LEMMA RecordsNext == TypeOK' => RecordsOK'
  BY RecordsTyped, PTL

LEMMA StreaksNext ==
    ASSUME TypeOK, StreaksHaveRemotes, [Next]_vars PROVE StreaksHaveRemotes'
  <1>1. CASE freshness' = freshness
    BY <1>1 DEF StreaksHaveRemotes
  <1>2. ASSUME NEW c \in Cycles, CycleStamp(c) PROVE StreaksHaveRemotes'
    BY <1>2 DEF CycleStamp, StreaksHaveRemotes, NoEntry
  <1>3. ASSUME NEW c \in Cycles, NEW p \in Projects, AcquirePermit(c, p) \/ GitStep(c, p)
        PROVE  StreaksHaveRemotes'
    <2>1. CASE RemoteMissing(c, p) \/ FetchSucceeded(c, p) \/ FetchFailed(c, p)
      <3>1. \A q \in Projects \ {p} : freshness'[q] = freshness[q]
        BY <2>1 DEF RemoteMissing, FetchSucceeded, FetchFailed, ApplyOutcome, TypeOK
      <3>2. freshness'[p].remote # "yes" => freshness'[p].streak = 0
        <4>1. CASE RemoteMissing(c, p)
          BY <4>1 DEF RemoteMissing, ApplyOutcome, TypeOK
        <4>2. CASE FetchSucceeded(c, p)
          BY <4>2 DEF FetchSucceeded, ApplyOutcome, TypeOK
        <4>3. CASE FetchFailed(c, p)
          BY <4>3 DEF FetchFailed, ApplyOutcome, TypeOK
        <4> QED BY <2>1, <4>1, <4>2, <4>3
      <3> QED BY <3>1, <3>2 DEF StreaksHaveRemotes
    <2> QED BY <1>1, <1>3, <2>1 DEF AcquirePermit, GitStep, YieldFetch, BeginFetch,
                                    RemoteListed, RemoteFailed, FetchRetry
  <1>4. ASSUME NEW c \in Cycles, CycleStep(c) PROVE StreaksHaveRemotes'
    BY <1>1, <1>2, <1>4 DEF CycleStep, CycleSnapshot, CyclePlan, CycleDone
  <1>5. CASE Trigger \/ (\E p \in Projects : UserStep(p)) \/ (\E m \in Periods : SetMinutes(m))
             \/ RefetchStatuses \/ Minute \/ UNCHANGED vars
    BY <1>1, <1>5 DEF Trigger, LoopTick, FocusReturn, ManualRefresh, RefreshRemotes,
                      UserStep, UserBegin, UserEnd, AddProject, RemoveProject,
                      SetMinutes, RefetchStatuses, Minute, vars
  <1> QED BY <1>3, <1>4, <1>5 DEF Next

\* Time and steps elsewhere do not make a due task early.
LEMMA StaysDue ==
    ASSUME NEW c \in Cycles, NEW p \in Projects, Due(c, p),
           task'[<<c, p>>] \in Waiting => task[<<c, p>>] \in Waiting,
           cycle'[c] = cycle[c], freshness'[p] = freshness[p],
           \/ sched'[p].age = sched[p].age
           \/ TypeOK /\ TypeOK' /\ sched'[p].age >= sched[p].age
    PROVE  Due(c, p)'
  <1>1. CASE sched'[p].age = sched[p].age
    BY <1>1 DEF Due
  <1>2. CASE TypeOK /\ TypeOK' /\ sched'[p].age >= sched[p].age
    <2>1. sched[p].age \in Int /\ Backoff(cycle[c].period, freshness[p].streak) \in Int
      BY <1>2, RecordsTyped, LimitsAssumption DEF RecordsOK
    <2>2. sched'[p].age \in Int
      BY <1>2, RecordsNext, LimitsAssumption DEF RecordsOK
    <2> QED BY <1>2, <2>1, <2>2 DEF Due
  <1> QED BY <1>1, <1>2

LEMMA DuePlan ==
    ASSUME IndInv, TypeOK', StreaksHaveRemotes, AllDue, NEW c \in Cycles, CyclePlan(c),
           NEW d \in Cycles, NEW p \in Projects
    PROVE  Due(d, p)'
  <1>1. TypeOK /\ TasksAwaited
    BY DEF IndInv
  <1>2. freshness' = freshness /\ sched'[p].age = sched[p].age
    <2>1. sched[p] \in MetaType
      BY <1>1 DEF TypeOK
    <2> QED BY <2>1 DEF CyclePlan, MetaType
  <1>3. CASE d = c
    <2> SUFFICES ASSUME task'[<<c, p>>] \in Waiting, ~cycle'[c].force
                 PROVE  sched'[p].age >= Backoff(cycle'[c].period, freshness'[p].streak)
      BY <1>3 DEF Due
    <2>1. task[<<c, p>>] = "none"
      BY <1>1 DEF CyclePlan, TasksAwaited
    <2>2. p \in Planned(c)
      BY <2>1 DEF CyclePlan, Waiting
    <2>3. cycle'[c] = Awaiting(c)
      BY <1>1, <2>2 DEF CyclePlan, TypeOK
    <2>4. cycle'[c].force = cycle[c].force /\ cycle'[c].period = cycle[c].period
      BY <2>3 DEF Awaiting, Idle
    <2>5. ShouldAttempt(freshness[p], sched[p], cycle[c].period, FALSE)
      <3>1. cycle[c].force = FALSE
        BY <1>1, <2>4, RecordsTyped DEF RecordsOK
      <3>2. ShouldAttempt(freshness[p], sched[p], cycle[c].period, cycle[c].force)
        BY <2>2 DEF Planned
      <3> QED BY <3>1, <3>2
    <2>6. CASE freshness[p].remote = "no"
      <3>1. Backoff(cycle[c].period, freshness[p].streak) = 0
        BY <1>1, <2>6, RecordsTyped, BackoffTyped DEF StreaksHaveRemotes, RecordsOK
      <3>2. sched[p].age \in Nat
        BY <1>1, RecordsTyped, LimitsAssumption DEF RecordsOK
      <3> QED BY <1>2, <2>4, <3>1, <3>2
    <2>7. CASE freshness[p].remote # "no"
      BY <1>2, <2>4, <2>5, <2>7 DEF ShouldAttempt
    <2> QED BY <2>6, <2>7
  <1>4. CASE d # c
    <2>1. task'[<<d, p>>] = task[<<d, p>>] /\ cycle'[d] = cycle[d]
      BY <1>1, <1>4 DEF CyclePlan, TypeOK
    <2> QED BY <1>2, <2>1, StaysDue DEF AllDue
  <1> QED BY <1>3, <1>4

LEMMA DueCycle ==
    ASSUME IndInv, TypeOK', AllDue, NEW c \in Cycles,
           CycleSnapshot(c) \/ CycleStamp(c) \/ CycleDone(c),
           NEW d \in Cycles, NEW p \in Projects
    PROVE  Due(d, p)'
  <1>1. TypeOK /\ TasksAwaited
    BY DEF IndInv
  <1>2. task' = task /\ task[<<c, p>>] = "none" /\ (d # c => cycle'[d] = cycle[d])
    BY <1>1 DEF CycleSnapshot, CycleStamp, CycleDone, TasksAwaited, TypeOK
  <1>3. CASE d = c
    BY <1>2, <1>3 DEF Due, Waiting
  <1>4. CASE d # c /\ freshness'[p] = freshness[p] /\ sched'[p] = sched[p]
    BY <1>2, <1>4, StaysDue DEF AllDue
  <1>5. CASE freshness'[p] = NoEntry /\ sched'[p] = NoMeta
    <2>1. freshness'[p].streak = 0 /\ sched'[p].age = BackoffCap
      BY <1>5 DEF NoEntry, NoMeta
    <2>2. cycle'[d].period \in Nat
      BY RecordsNext DEF RecordsOK
    <2>3. Backoff(cycle'[d].period, 0) = 0
      BY <2>2, BackoffTyped
    <2> QED BY <2>1, <2>3, LimitsAssumption DEF Due
  <1>6. \/ freshness'[p] = freshness[p] /\ sched'[p] = sched[p]
        \/ freshness'[p] = NoEntry /\ sched'[p] = NoMeta
    BY DEF CycleSnapshot, CycleStamp, CycleDone
  <1> QED BY <1>3, <1>4, <1>5, <1>6

LEMMA DueTask ==
    ASSUME IndInv, TypeOK', AllDue, OneTaskPerProject, NEW c \in Cycles, NEW q \in Projects,
           AcquirePermit(c, q) \/ GitStep(c, q),
           NEW d \in Cycles, NEW p \in Projects
    PROVE  Due(d, p)'
  <1>1. TypeOK /\ OnlyTask(c, q)
    BY TaskStepsTyped DEF IndInv
  <1>2. cycle' = cycle /\ task[<<c, q>>] # "none"
    BY DEF AcquirePermit, GitStep, YieldFetch, BeginFetch, RemoteListed, RemoteMissing,
           RemoteFailed, FetchRetry, FetchSucceeded, FetchFailed, FetchRunning
  <1>4. CASE p # q
    <2>1. task'[<<d, p>>] = task[<<d, p>>]
      BY <1>1, <1>4 DEF OnlyTask
    <2>2. freshness'[p] = freshness[p] /\ sched'[p] = sched[p]
      BY <1>1, <1>4 DEF AcquirePermit, GitStep, YieldFetch, BeginFetch, RemoteListed,
           RemoteMissing, RemoteFailed, FetchRetry, FetchSucceeded, FetchFailed,
           ApplyOutcome, TypeOK
    <2> QED BY <1>2, <2>1, <2>2, StaysDue DEF AllDue
  <1>5. CASE p = q /\ d # c
    <2>1. task[<<d, p>>] = "none"
      BY <1>2, <1>5 DEF OneTaskPerProject
    <2>2. task'[<<d, p>>] = "none"
      BY <1>1, <1>5, <2>1 DEF OnlyTask
    <2> QED BY <2>2 DEF Due, Waiting
  <1>6. CASE p = q /\ d = c
    <2>1. CASE AcquirePermit(c, q)
      <3>1. freshness' = freshness /\ sched' = sched /\ task[<<c, q>>] \in Waiting
        BY <2>1 DEF AcquirePermit, Waiting
      <3> QED BY <1>2, <1>6, <3>1, StaysDue DEF AllDue
    <2>2. CASE GitStep(c, q)
      <3>1. task'[<<c, q>>] \notin Waiting
        BY <1>1, <2>2 DEF GitStep, YieldFetch, BeginFetch, RemoteListed, RemoteMissing,
           RemoteFailed, FetchRetry, FetchSucceeded, FetchFailed, EndFetch, FetchStage,
           TypeOK, Waiting
      <3> QED BY <1>6, <3>1 DEF Due
    <2> QED BY <2>1, <2>2
  <1> QED BY <1>4, <1>5, <1>6

LEMMA DueElse ==
    ASSUME IndInv, TypeOK', AllDue, NEW d \in Cycles, NEW p \in Projects,
           \/ Trigger \/ (\E q \in Projects : UserStep(q)) \/ (\E m \in Periods : SetMinutes(m))
           \/ RefetchStatuses \/ Minute \/ UNCHANGED vars
    PROVE  Due(d, p)'
  <1>1. TypeOK /\ TasksAwaited
    BY DEF IndInv
  <1>2. sched[p].age \in 0..BackoffCap /\ sched[p] \in MetaType /\ BackoffCap \in Nat
    BY <1>1, RecordsTyped, LimitsAssumption DEF TypeOK, RecordsOK
  <1>3. CASE Minute
    <2>1. sched'[p].age = Lesser(sched[p].age + 1, BackoffCap)
      BY <1>2, <1>3 DEF Minute, MetaType
    <2>2. sched'[p].age >= sched[p].age
      BY <1>2, <2>1 DEF Lesser
    <2>3. task' = task /\ cycle' = cycle /\ freshness' = freshness
      BY <1>3 DEF Minute
    <2> QED BY <1>1, <2>2, <2>3, StaysDue DEF AllDue
  <1>4. CASE Trigger
    <2>1. PICK c \in Cycles : /\ cycle[c].pc = "idle" /\ task' = task
                              /\ freshness' = freshness /\ sched' = sched
                              /\ \A e \in Cycles \ {c} : cycle'[e] = cycle[e]
      BY <1>1, <1>4, CyclesAssumption
      DEF Trigger, LoopTick, FocusReturn, ManualRefresh, RefreshRemotes, Launch, TypeOK
    <2>2. CASE d = c
      BY <1>1, <2>1, <2>2 DEF TasksAwaited, Due, Waiting
    <2>3. CASE d # c
      BY <2>1, <2>3, StaysDue DEF AllDue
    <2> QED BY <2>2, <2>3
  <1>5. CASE task' = task /\ cycle' = cycle /\ freshness' = freshness /\ sched' = sched
    BY <1>5, StaysDue DEF AllDue
  <1>6. CASE (\E q \in Projects : UserStep(q)) \/ (\E m \in Periods : SetMinutes(m))
             \/ RefetchStatuses \/ UNCHANGED vars
    BY <1>5, <1>6 DEF UserStep, UserBegin, UserEnd, AddProject, RemoveProject,
                      SetMinutes, RefetchStatuses, vars
  <1> QED BY <1>3, <1>4, <1>6

LEMMA DueNext ==
    IndInv /\ StreaksHaveRemotes /\ AllDue /\ OneTaskPerProject /\ [Next]_vars => AllDue'
  <1> SUFFICES ASSUME IndInv, StreaksHaveRemotes, AllDue, OneTaskPerProject, [Next]_vars,
                      NEW d \in Cycles, NEW p \in Projects
               PROVE  Due(d, p)'
    BY DEF AllDue
  <1>1. TypeOK'
    BY IndInvStep DEF IndInv
  <1>2. ASSUME NEW c \in Cycles, CycleStep(c) PROVE Due(d, p)'
    BY <1>1, <1>2, DuePlan, DueCycle DEF CycleStep
  <1>3. ASSUME NEW c \in Cycles, NEW q \in Projects, AcquirePermit(c, q) \/ GitStep(c, q)
        PROVE  Due(d, p)'
    BY <1>1, <1>3, DueTask
  <1> QED BY <1>1, <1>2, <1>3, DueElse DEF Next

\* As long as no two cycles have a task on the same project, an unforced attempt
\* on a failing project waits for its backoff, however many cycles there are and
\* whatever is added, removed and switched meanwhile (should_attempt).
THEOREM BackoffKept == Spec /\ []OneTaskPerProject => BackoffRespected
  <1> DEFINE Waits == \A c \in Cycles, p \in Projects :
                          Attempts(c, p) /\ ~cycle[c].force =>
                              sched[p].age >= Backoff(cycle[c].period, freshness[p].streak)
  <1>1. Init => StreaksHaveRemotes /\ AllDue
    BY DEF Init, StreaksHaveRemotes, AllDue, Due, Waiting, NoEntry
  <1>2. IndInv /\ StreaksHaveRemotes /\ [Next]_vars => StreaksHaveRemotes'
    BY StreaksNext DEF IndInv
  <1>3. AllDue /\ [Next]_vars => [Waits]_vars
    BY DEF AllDue, Due, Waiting, Attempts
  <1> QED BY <1>1, <1>2, <1>3, DueNext, Invariance, PTL DEF Spec, BackoffRespected

\* The loop alone keeps every backoff.
THEOREM LoopKeepsBackoff == ASSUME Cycles = {Loop} PROVE Spec => BackoffRespected
  <1>1. OneTaskPerProject
    BY DEF OneTaskPerProject
  <1> QED BY <1>1, BackoffKept, PTL
-----------------------------------------------------------------------------
(* The badge.  With nothing pending the front end is wrong about a live    *)
(* project only if a full cycle has forgotten the project's error, which   *)
(* is told to nobody.  It needs to be known of a project that has not been *)
(* added that nobody has heard of it.                                      *)

Unborn == \A p \in Projects : status[p] = "new" =>
    /\ p \notin shown /\ p \notin dropped /\ freshness[p] = NoEntry
    /\ \A c \in Cycles : p \notin cycle[c].targets /\ task[<<c, p>>] = "none"

BadgeInv == Unborn /\ BadgeCoherent

\* What most steps leave alone.
Unseen == UNCHANGED <<status, freshness, shown, dropped, pending>>

LEMMA BadgeFrame ==
    ASSUME BadgeCoherent, Live' \subseteq Live, pending => pending', shown' = shown,
           dropped \subseteq dropped',
           \A p \in Live' \ dropped' : freshness'[p].error = freshness[p].error
    PROVE  BadgeCoherent'
  BY DEF BadgeCoherent

\* What a cycle's step does to its targets.
LEMMA CycleTargets ==
    ASSUME TypeOK, NEW c \in Cycles, CycleSnapshot(c) \/ CyclePlan(c) \/ CycleDone(c)
    PROVE  /\ cycle'[c].targets = {} \/ (CycleSnapshot(c) /\ cycle'[c].targets \subseteq Live)
           /\ cycle'[c].pc = "stamp" => cycle'[c].targets = Live /\ Live # {}
  <1>1. CASE CycleSnapshot(c)
    BY <1>1 DEF CycleSnapshot, TypeOK, Idle
  <1>2. CASE CyclePlan(c) \/ CycleDone(c)
    <2>1. cycle'[c] = Idle \/ cycle'[c] = Awaiting(c)
      BY <1>2 DEF CyclePlan, CycleDone, TypeOK
    <2>2. Idle.targets = {} /\ Idle.pc = "idle"
      BY DEF Idle
    <2>3. Awaiting(c).targets = {} /\ Awaiting(c).pc = "await"
      BY DEF Idle, Awaiting
    <2> QED BY <2>1, <2>2, <2>3
  <1> QED BY <1>1, <1>2

\* A cycle's step is nobody else's, and tells the front end nothing.
LEMMA CycleSteps ==
    ASSUME TypeOK, NEW c \in Cycles, CycleStep(c)
    PROVE  /\ \A d \in Cycles \ {c} : cycle'[d] = cycle[d]
           /\ status' = status /\ shown' = shown /\ pending' = pending /\ Live' = Live
           /\ ~CycleStamp(c) => freshness' = freshness /\ dropped' = dropped
           /\ dropped \subseteq dropped'
  BY DEF CycleStep, CycleSnapshot, CycleStamp, CyclePlan, CycleDone, TypeOK, Live

\* What a stamp does.
LEMMA StampFacts ==
    ASSUME TypeOK, NEW c \in Cycles, CycleStamp(c)
    PROVE  /\ cycle[c].pc = "stamp" /\ task' = task
           /\ cycle'[c].pc = "plan" /\ cycle'[c].targets = cycle[c].targets
           /\ \A p \in Projects : freshness'[p] = freshness[p] \/ freshness'[p] = NoEntry
           /\ \A p \in Projects \ dropped' : freshness'[p].error = freshness[p].error
  <1>1. /\ cycle[c].pc = "stamp" /\ task' = task
        /\ cycle'[c].pc = "plan" /\ cycle'[c].targets = cycle[c].targets
    BY DEF CycleStamp, TypeOK
  <1>2. \A p \in Projects : freshness'[p] = freshness[p] \/ freshness'[p] = NoEntry
    BY DEF CycleStamp
  <1>3. ASSUME NEW p \in Projects \ dropped' PROVE freshness'[p].error = freshness[p].error
    <2>1. freshness[p].error \in BOOLEAN /\ NoEntry.error = FALSE
      BY DEF TypeOK, FreshnessType, NoEntry
    <2>2. CASE p \in cycle[c].targets
      BY <2>2 DEF CycleStamp
    <2>3. CASE p \notin cycle[c].targets
      <3>1. ~freshness[p].error
        BY <2>3 DEF CycleStamp
      <3>2. freshness'[p].error = FALSE
        BY <2>1, <2>3 DEF CycleStamp
      <3> QED BY <2>1, <3>1, <3>2
    <2> QED BY <2>2, <2>3
  <1> QED BY <1>1, <1>2, <1>3

LEMMA BadgeCycle ==
    ASSUME IndInv, BadgeInv, NEW c \in Cycles, CycleStep(c)
    PROVE  BadgeInv'
  <1>1. TypeOK
    BY DEF IndInv
  <1>2. \A d \in Cycles \ {c} : cycle'[d] = cycle[d]
    BY <1>1, CycleSteps
  <1>3. status' = status /\ shown' = shown /\ pending' = pending /\ Live' = Live
        /\ dropped \subseteq dropped'
    BY <1>1, CycleSteps
  <1>5. CASE CycleStamp(c)
    <2>1. /\ task' = task /\ cycle'[c].targets = cycle[c].targets
          /\ \A p \in Projects : freshness'[p] = freshness[p] \/ freshness'[p] = NoEntry
          /\ \A p \in Projects \ dropped' : freshness'[p].error = freshness[p].error
      BY <1>1, <1>5, StampFacts
    <2>2. BadgeCoherent'
      <3>1. \A p \in Live' \ dropped' : freshness'[p].error = freshness[p].error
        BY <2>1 DEF Live
      <3> QED BY <1>3, <3>1, BadgeFrame DEF BadgeInv
    <2>3. Unborn'
      <3> SUFFICES ASSUME NEW p \in Projects, status[p] = "new"
                   PROVE  /\ p \notin shown /\ p \notin dropped' /\ freshness'[p] = NoEntry
                          /\ \A d \in Cycles : p \notin cycle'[d].targets /\ task'[<<d, p>>] = "none"
        BY <1>3 DEF Unborn
      <3>1. p \notin shown /\ p \notin dropped /\ freshness[p] = NoEntry
        BY DEF BadgeInv, Unborn
      <3>4. p \notin dropped' /\ freshness'[p] = NoEntry
        BY <1>5, <2>1, <3>1 DEF CycleStamp, NoEntry
      <3>2. \A d \in Cycles : cycle'[d].targets = cycle[d].targets
        BY <1>2, <2>1
      <3> QED BY <2>1, <3>1, <3>2, <3>4 DEF BadgeInv, Unborn
    <2> QED BY <2>2, <2>3 DEF BadgeInv
  <1>6. CASE CycleSnapshot(c) \/ CyclePlan(c) \/ CycleDone(c)
    <2>1. freshness' = freshness /\ dropped' = dropped
      BY <1>6 DEF CycleSnapshot, CyclePlan, CycleDone
    <2>2. BadgeCoherent'
      BY <1>3, <2>1, BadgeFrame DEF BadgeInv
    <2>3. cycle'[c].targets = {} \/ (CycleSnapshot(c) /\ cycle'[c].targets \subseteq Live)
      BY <1>1, <1>6, CycleTargets
    <2>4. Unborn'
      <3> SUFFICES ASSUME NEW p \in Projects, status[p] = "new", NEW d \in Cycles
                   PROVE  p \notin cycle'[d].targets /\ task'[<<d, p>>] = "none"
        BY <1>3, <2>1 DEF BadgeInv, Unborn
      <3>1. p \notin cycle[d].targets /\ task[<<d, p>>] = "none" /\ p \notin Live
            /\ p \notin cycle[c].targets
        BY DEF BadgeInv, Unborn, Live
      <3>2. p \notin cycle'[d].targets
        BY <1>2, <2>3, <3>1
      <3>3. task'[<<d, p>>] = "none"
        BY <1>6, <3>1 DEF CycleSnapshot, CyclePlan, CycleDone, Planned
      <3> QED BY <3>2, <3>3
    <2> QED BY <2>2, <2>4 DEF BadgeInv
  <1> QED BY <1>5, <1>6 DEF CycleStep

\* A task's step writes the record of its own project, and announces an error
\* that comes or goes.
LEMMA TaskSteps ==
    ASSUME TypeOK, NEW c \in Cycles, NEW p \in Projects, AcquirePermit(c, p) \/ GitStep(c, p)
    PROVE  /\ cycle' = cycle /\ status' = status /\ shown' = shown /\ Live' = Live
           /\ dropped' = dropped /\ task[<<c, p>>] # "none"
           /\ \A q \in Projects \ {p} : freshness'[q] = freshness[q]
           /\ pending => pending'
           /\ pending' \/ freshness'[p].error = freshness[p].error
  <1>1. /\ cycle' = cycle /\ status' = status /\ shown' = shown /\ Live' = Live
        /\ dropped' = dropped /\ task[<<c, p>>] # "none"
    BY DEF AcquirePermit, GitStep, YieldFetch, BeginFetch, RemoteListed, RemoteMissing,
           RemoteFailed, FetchRetry, FetchSucceeded, FetchFailed, FetchRunning, Live
  <1>2. \A q \in Projects \ {p} : freshness'[q] = freshness[q]
    BY DEF AcquirePermit, GitStep, YieldFetch, BeginFetch, RemoteListed, RemoteMissing,
           RemoteFailed, FetchRetry, FetchSucceeded, FetchFailed, ApplyOutcome, TypeOK
  <1>3. /\ pending => pending'
        /\ pending' \/ freshness'[p].error = freshness[p].error
    BY DEF AcquirePermit, GitStep, YieldFetch, BeginFetch, RemoteListed, RemoteMissing,
           RemoteFailed, FetchRetry, FetchSucceeded, FetchFailed, ApplyOutcome, TypeOK
  <1> QED BY <1>1, <1>2, <1>3

LEMMA BadgeTask ==
    ASSUME IndInv, BadgeInv, NEW c \in Cycles, NEW p \in Projects,
           AcquirePermit(c, p) \/ GitStep(c, p)
    PROVE  BadgeInv'
  <1>1. TypeOK /\ OnlyTask(c, p)
    BY TaskStepsTyped DEF IndInv
  <1>2. /\ cycle' = cycle /\ status' = status /\ shown' = shown /\ Live' = Live
        /\ dropped' = dropped /\ task[<<c, p>>] # "none"
    BY <1>1, TaskSteps
  <1>3. \A q \in Projects \ {p} : freshness'[q] = freshness[q]
    BY <1>1, TaskSteps
  <1>4. /\ pending => pending'
        /\ pending' \/ freshness'[p].error = freshness[p].error
    BY <1>1, TaskSteps
  <1>5. BadgeCoherent'
    <2>1. CASE pending'
      BY <2>1 DEF BadgeCoherent
    <2>2. CASE freshness'[p].error = freshness[p].error
      <3>1. \A q \in Live' : freshness'[q].error = freshness[q].error
        BY <1>2, <1>3, <2>2 DEF Live
      <3> QED BY <1>2, <1>4, <3>1, BadgeFrame DEF BadgeInv
    <2> QED BY <1>4, <2>1, <2>2
  <1>6. status[p] # "new"
    BY <1>2 DEF BadgeInv, Unborn
  <1>7. Unborn'
    BY <1>1, <1>2, <1>3, <1>6 DEF BadgeInv, Unborn, OnlyTask
  <1> QED BY <1>5, <1>7 DEF BadgeInv

\* A trigger starts a cycle, and nothing else.
LEMMA TriggerStarts ==
    ASSUME TypeOK, Trigger
    PROVE  /\ task' = task /\ Unseen /\ Live' = Live
           /\ \E c \in Cycles : /\ \A d \in Cycles \ {c} : cycle'[d] = cycle[d]
                                /\ cycle'[c].targets = {} /\ cycle'[c].pc = "start"
  <1>1. /\ task' = task /\ Unseen
        /\ \E c \in Cycles : \E only, full, force : Launch(c, only, full, force)
    BY CyclesAssumption
    DEF Trigger, LoopTick, FocusReturn, ManualRefresh, RefreshRemotes, Unseen
  <1>2. PICK c \in Cycles : \E only, full, force : Launch(c, only, full, force)
    BY <1>1
  <1>3. PICK only, full, force : Launch(c, only, full, force)
    BY <1>2
  <1>4. cycle'[c] = [Idle EXCEPT !.pc = "start", !.only = only,
                                 !.full = full, !.force = force]
    BY <1>3 DEF Launch, TypeOK
  <1>5. cycle'[c].targets = {} /\ cycle'[c].pc = "start"
    BY <1>4 DEF Idle
  <1>6. \A d \in Cycles \ {c} : cycle'[d] = cycle[d]
    BY <1>3 DEF Launch, TypeOK
  <1>7. Live' = Live
    BY <1>1 DEF Live, Unseen
  <1> QED BY <1>1, <1>5, <1>6, <1>7

\* Projects come and go, and the front end reads.
LEMMA BadgeElse ==
    ASSUME IndInv, BadgeInv,
           \/ Trigger \/ (\E q \in Projects : UserStep(q)) \/ (\E m \in Periods : SetMinutes(m))
           \/ RefetchStatuses \/ Minute \/ UNCHANGED vars
    PROVE  BadgeInv'
  <1>1. TypeOK
    BY DEF IndInv
  <1>2. ASSUME NEW p \in Projects, AddProject(p) PROVE BadgeInv'
    <2>1. /\ cycle' = cycle /\ task' = task /\ freshness' = freshness /\ shown' = shown
          /\ pending' = pending /\ dropped' = dropped /\ status[p] = "new" /\ status'[p] = "live"
          /\ \A q \in Projects \ {p} : status'[q] = status[q]
      BY <1>1, <1>2 DEF AddProject, TypeOK
    <2>2. Live' = Live \cup {p} /\ p \notin shown /\ ~freshness[p].error
      BY <2>1 DEF Live, BadgeInv, Unborn, NoEntry
    <2> QED BY <2>1, <2>2 DEF BadgeInv, Unborn, BadgeCoherent
  <1>3. ASSUME NEW p \in Projects, RemoveProject(p) PROVE BadgeInv'
    <2>1. /\ cycle' = cycle /\ task' = task /\ freshness' = freshness /\ shown' = shown
          /\ pending' = pending /\ dropped' = dropped
          /\ status[p] = "live" /\ status'[p] = "removed"
          /\ \A q \in Projects \ {p} : status'[q] = status[q]
      BY <1>1, <1>3 DEF RemoveProject, TypeOK
    <2>2. Live' \subseteq Live
      BY <2>1 DEF Live
    <2> QED BY <2>1, <2>2 DEF BadgeInv, Unborn, BadgeCoherent
  <1>4. CASE RefetchStatuses
    <2>1. /\ cycle' = cycle /\ task' = task /\ freshness' = freshness /\ status' = status
          /\ shown' = {p \in Live : freshness[p].error} /\ dropped' = {} /\ Live' = Live
      BY <1>4 DEF RefetchStatuses, Live
    <2> QED BY <2>1 DEF BadgeInv, BadgeCoherent, Unborn, Live
  <1>5. CASE Trigger
    <2>1. PICK c \in Cycles : /\ task' = task /\ Unseen /\ Live' = Live
                              /\ \A d \in Cycles \ {c} : cycle'[d] = cycle[d]
                              /\ cycle'[c].targets = {}
      BY <1>1, <1>5, TriggerStarts
    <2> QED BY <2>1 DEF BadgeInv, Unborn, BadgeCoherent, Unseen
  <1>6. CASE UNCHANGED <<cycle, task>> /\ Unseen
    <2>1. Live' = Live
      BY <1>6 DEF Live, Unseen
    <2> QED BY <1>6, <2>1 DEF BadgeInv, Unborn, BadgeCoherent, Unseen
  <1>7. CASE (\E q \in Projects : UserBegin(q) \/ UserEnd(q)) \/ (\E m \in Periods : SetMinutes(m))
             \/ Minute \/ UNCHANGED vars
    BY <1>6, <1>7 DEF UserBegin, UserEnd, SetMinutes, Minute, vars, Unseen
  <1> QED BY <1>2, <1>3, <1>4, <1>5, <1>7 DEF UserStep

LEMMA BadgeNext == IndInv /\ BadgeInv /\ [Next]_vars => BadgeInv'
  <1> SUFFICES ASSUME IndInv, BadgeInv, [Next]_vars PROVE BadgeInv'
    OBVIOUS
  <1> QED BY BadgeCycle, BadgeTask, BadgeElse DEF Next

LEMMA BadgeInit == Init => BadgeInv
  <1> SUFFICES ASSUME Init PROVE BadgeInv
    OBVIOUS
  <1>1. \A p \in Projects : freshness[p] = NoEntry /\ ~freshness[p].error
    BY DEF Init, NoEntry
  <1>2. Unborn
    BY <1>1 DEF Init, Unborn, Idle
  <1>3. BadgeCoherent
    BY <1>1 DEF Init, BadgeCoherent, Live
  <1> QED BY <1>2, <1>3 DEF BadgeInv

\* For every number of cycles and projects: with nothing pending the badge of
\* a live project is right, unless a full cycle has forgotten the project's
\* error since the front end last looked (run_cycle's retain, apply_outcome).
THEOREM Badges == Spec => []BadgeCoherent
  <1>1. BadgeInv => BadgeCoherent
    BY DEF BadgeInv
  <1>2. IndInv /\ BadgeInv /\ [Next]_vars => BadgeInv'
    BY BadgeNext
  <1> QED BY <1>1, <1>2, BadgeInit, Invariance, PTL DEF Spec

-----------------------------------------------------------------------------
(* Where no error of a live project is forgotten.  A full cycle forgets the *)
(* record of a project that was not yet there at its snapshot, so no other  *)
(* cycle may have fetched such a project between the snapshot and the stamp. *)

\* One cycle at a time, or every project there from the start, or one project.
NoLateProject ==
    Cycles = {Loop} \/ InitialLive = Projects \/ (\A p, q \in Projects : p = q)

Born == InitialLive = Projects => \A p \in Projects : status[p] # "new"

\* What a cycle is about to forget has no badge.
StampSees(c) == cycle[c].pc = "stamp" =>
    /\ cycle[c].targets # {}
    /\ InitialLive = Projects => Live \subseteq cycle[c].targets
    /\ \A p \in Live \ cycle[c].targets : ~freshness[p].error

\* No live project's error has been forgotten.
NoneDropped == dropped \cap Live = {}

LateInv == Born /\ (\A c \in Cycles : StampSees(c)) /\ NoneDropped

LEMMA StampFrame ==
    ASSUME NEW c \in Cycles, StampSees(c), Live' \subseteq Live, cycle'[c] = cycle[c],
           \A p \in Live' \ cycle[c].targets : freshness'[p].error = freshness[p].error
    PROVE  StampSees(c)'
  BY DEF StampSees

LEMMA BornNext == ASSUME TypeOK, Born, [Next]_vars PROVE Born'
  <1>1. CASE status' = status
    BY <1>1 DEF Born
  <1>2. ASSUME NEW p \in Projects, AddProject(p) \/ RemoveProject(p) PROVE Born'
    BY <1>2 DEF AddProject, RemoveProject, Born, TypeOK
  <1> QED BY <1>1, <1>2 DEF Next, Trigger, LoopTick, FocusReturn, ManualRefresh, RefreshRemotes,
       CycleStep, CycleSnapshot, CycleStamp, CyclePlan, CycleDone,
       AcquirePermit, GitStep, YieldFetch, BeginFetch, RemoteListed, RemoteMissing,
       RemoteFailed, FetchRetry, FetchSucceeded, FetchFailed,
       UserStep, UserBegin, UserEnd, SetMinutes, RefetchStatuses, Minute, vars

\* A cycle that stamps forgets no live project's error.
LEMMA LateCycle ==
    ASSUME IndInv, LateInv, NEW c \in Cycles, CycleStep(c)
    PROVE  (\A d \in Cycles : StampSees(d)') /\ NoneDropped'
  <1>1. TypeOK
    BY DEF IndInv
  <1>2. /\ \A d \in Cycles \ {c} : cycle'[d] = cycle[d]
        /\ status' = status /\ Live' = Live
    BY <1>1, CycleSteps
  <1>3. NoneDropped'
    <2>1. CASE CycleStamp(c)
      BY <1>2, <2>1 DEF CycleStamp, LateInv, NoneDropped, StampSees
    <2>2. CASE ~CycleStamp(c)
      BY <1>1, <1>2, <2>2, CycleSteps DEF LateInv, NoneDropped
    <2> QED BY <2>1, <2>2
  <1>4. \A p \in Live : freshness'[p].error = freshness[p].error
    <2>1. CASE CycleStamp(c)
      <3>1. \A p \in Live : p \in Projects \ dropped'
        BY <1>2, <1>3 DEF NoneDropped, Live
      <3> QED BY <1>1, <2>1, <3>1, StampFacts
    <2>2. CASE ~CycleStamp(c)
      BY <1>1, <2>2, CycleSteps
    <2> QED BY <2>1, <2>2
  <1>5. StampSees(c)'
    <2>1. CASE CycleStamp(c)
      BY <1>1, <2>1, StampFacts DEF StampSees
    <2>2. CASE ~CycleStamp(c)
      BY <1>1, <1>2, <2>2, CycleTargets DEF StampSees, CycleStep
    <2> QED BY <2>1, <2>2
  <1>6. ASSUME NEW d \in Cycles, d # c PROVE StampSees(d)'
    BY <1>2, <1>4, <1>6, StampFrame DEF LateInv
  <1> QED BY <1>3, <1>5, <1>6

\* An outcome may come between a snapshot and a stamp only of another cycle,
\* and then it is about one of that cycle's targets.
LEMMA LateTask ==
    ASSUME NoLateProject, IndInv, LateInv, NEW c \in Cycles, NEW p \in Projects,
           AcquirePermit(c, p) \/ GitStep(c, p)
    PROVE  (\A d \in Cycles : StampSees(d)') /\ NoneDropped'
  <1>1. TypeOK /\ TasksAwaited
    BY DEF IndInv
  <1>2. /\ cycle' = cycle /\ Live' = Live /\ dropped' = dropped /\ task[<<c, p>>] # "none"
        /\ \A q \in Projects \ {p} : freshness'[q] = freshness[q]
    BY <1>1, TaskSteps
  <1>3. ASSUME NEW d \in Cycles PROVE StampSees(d)'
    <2> SUFFICES ASSUME cycle[d].pc = "stamp" PROVE StampSees(d)'
      BY <1>2 DEF StampSees
    <2>1. d # c
      BY <1>1, <1>2 DEF TasksAwaited
    <2>2. p \in Live => p \in cycle[d].targets
      <3>1. CASE Cycles = {Loop}
        BY <2>1, <3>1
      <3>2. CASE InitialLive = Projects
        BY <3>2 DEF LateInv, StampSees
      <3>3. CASE \A r, q \in Projects : r = q
        <4>1. cycle[d].targets \subseteq Projects /\ cycle[d].targets # {}
          BY <1>1 DEF TypeOK, CycleType, LateInv, StampSees
        <4> QED BY <3>3, <4>1
      <3> QED BY <3>1, <3>2, <3>3 DEF NoLateProject
    <2>3. \A q \in Live' \ cycle[d].targets : freshness'[q].error = freshness[q].error
      BY <1>2, <2>2 DEF Live
    <2> QED BY <1>2, <2>3, StampFrame DEF LateInv
  <1> QED BY <1>2, <1>3 DEF LateInv, NoneDropped

LEMMA LateElse ==
    ASSUME IndInv, BadgeInv, LateInv,
           \/ Trigger \/ (\E q \in Projects : UserStep(q)) \/ (\E m \in Periods : SetMinutes(m))
           \/ RefetchStatuses \/ Minute \/ UNCHANGED vars
    PROVE  (\A d \in Cycles : StampSees(d)') /\ NoneDropped'
  <1> DEFINE Goal == (\A d \in Cycles : StampSees(d)') /\ NoneDropped'
  <1>1. TypeOK
    BY DEF IndInv
  <1>2. ASSUME NEW p \in Projects, AddProject(p) PROVE Goal
    <2>1. /\ cycle' = cycle /\ freshness' = freshness /\ dropped' = dropped
          /\ status[p] = "new" /\ Live' = Live \cup {p} /\ ~freshness[p].error
      BY <1>1, <1>2 DEF AddProject, TypeOK, Live, BadgeInv, Unborn, NoEntry
    <2>2. InitialLive # Projects
      BY <2>1 DEF LateInv, Born
    <2>3. p \notin dropped
      BY <2>1 DEF BadgeInv, Unborn
    <2> QED BY <2>1, <2>2, <2>3 DEF LateInv, StampSees, NoneDropped
  <1>3. ASSUME NEW p \in Projects, RemoveProject(p) PROVE Goal
    <2>1. cycle' = cycle /\ freshness' = freshness /\ dropped' = dropped /\ Live' \subseteq Live
      BY <1>1, <1>3 DEF RemoveProject, TypeOK, Live
    <2> QED BY <2>1, StampFrame DEF LateInv, NoneDropped
  <1>4. CASE RefetchStatuses
    <2>1. cycle' = cycle /\ freshness' = freshness /\ Live' = Live /\ dropped' = {}
      BY <1>4 DEF RefetchStatuses, Live
    <2> QED BY <2>1, StampFrame DEF LateInv, NoneDropped
  <1>5. CASE Trigger
    <2>1. PICK c \in Cycles : /\ Unseen /\ Live' = Live
                              /\ \A d \in Cycles \ {c} : cycle'[d] = cycle[d]
                              /\ cycle'[c].pc = "start"
      BY <1>1, <1>5, TriggerStarts
    <2> QED BY <2>1 DEF LateInv, StampSees, NoneDropped, Unseen
  <1>6. CASE cycle' = cycle /\ Unseen
    <2>1. Live' = Live
      BY <1>6 DEF Live, Unseen
    <2> QED BY <1>6, <2>1 DEF LateInv, StampSees, NoneDropped, Unseen
  <1>7. CASE (\E q \in Projects : UserBegin(q) \/ UserEnd(q)) \/ (\E m \in Periods : SetMinutes(m))
             \/ Minute \/ UNCHANGED vars
    BY <1>6, <1>7 DEF UserBegin, UserEnd, SetMinutes, Minute, vars, Unseen
  <1> QED BY <1>2, <1>3, <1>4, <1>5, <1>7 DEF UserStep

LEMMA LateNext == NoLateProject /\ IndInv /\ BadgeInv /\ LateInv /\ [Next]_vars => LateInv'
  <1> SUFFICES ASSUME NoLateProject, IndInv, BadgeInv, LateInv, [Next]_vars PROVE LateInv'
    OBVIOUS
  <1>1. Born'
    BY BornNext DEF IndInv, LateInv
  <1>2. (\A d \in Cycles : StampSees(d)') /\ NoneDropped'
    BY LateCycle, LateTask, LateElse DEF Next
  <1> QED BY <1>1, <1>2 DEF LateInv

LEMMA LateInit == Init => LateInv
  BY DEF Init, LateInv, Born, StampSees, NoneDropped, Idle

\* With one cycle at a time, or all projects there from the start, or one
\* project, no error of a live project is forgotten: with nothing pending
\* every badge is right (run_cycle's snapshot and retain).
THEOREM AllBadges ==
    ASSUME NoLateProject
    PROVE  Spec => [](pending \/ \A p \in Live : p \in shown <=> freshness[p].error)
  <1>1. BadgeInv /\ LateInv => (pending \/ \A p \in Live : p \in shown <=> freshness[p].error)
    BY DEF BadgeInv, LateInv, BadgeCoherent, NoneDropped
  <1>2. IndInv /\ BadgeInv /\ [Next]_vars => BadgeInv'
    BY BadgeNext
  <1>3. IndInv /\ BadgeInv /\ LateInv /\ [Next]_vars => LateInv'
    BY LateNext
  <1> QED BY <1>1, <1>2, <1>3, BadgeInit, LateInit, Invariance, PTL DEF Spec
=============================================================================

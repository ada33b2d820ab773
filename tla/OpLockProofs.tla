---------------------------- MODULE OpLockProofs ----------------------------
(***************************************************************************)
(* Proofs about OpLock for every set of projects, folders and concurrent   *)
(* commands: the lock set is exact, one command runs per id, folders stay  *)
(* distinct, the commands use the set as a lock with one owner per id, and *)
(* when that makes one operation per folder.                               *)
(***************************************************************************)
EXTENDS OpLock, TLAPS

\* The lock invariant: a running command owns its id, and owns it alone.
LockInv == TypeOK /\ LockedWhileRunning /\ OneOperationPerKey

-----------------------------------------------------------------------------
(* Type correctness. *)

\* The records a call goes through.
CallType == {Ready, [Ready EXCEPT !.stage = "refused"]} \cup
                [stage : {"resolved", "running"}, key : Keys, dir : Dirs]

\* A call past the "ready" and "refused" stages carries an id and a path.
LEMMA Carries ==
    ASSUME TypeOK, NEW c \in Calls, call[c].stage \in {"resolved", "running"}
    PROVE  call[c] \in [stage : {"resolved", "running"}, key : Keys, dir : Dirs]
  BY DEF TypeOK, Ready

\* An id that resolves resolves to a path.
LEMMA ResolveTyped ==
    ASSUME TypeOK, NEW key \in Keys PROVE Resolve(key) \in Dirs \cup {NoDir}
  <1>1. key[1] \in Projects /\ (key[2] = "top" \/ key[2] \in Rels)
    BY DEF Keys
  <1>2. path[key[1]] \in Dirs \cup {NoDir}
    BY <1>1 DEF TypeOK
  <1>3. CASE path[key[1]] = NoDir \/ key[2] = "top"
    BY <1>2, <1>3 DEF Resolve
  <1>4. CASE ~(path[key[1]] = NoDir \/ key[2] = "top")
    <2>1. Below[path[key[1]], key[2]] \in Dirs \cup {NoDir}
      BY <1>1, <1>2, <1>4, DirsAssumption
    <2> QED BY <1>4, <2>1 DEF Resolve
  <1> QED BY <1>3, <1>4

LEMMA TypeInit == Init => TypeOK
  BY DEF Init, TypeOK

LEMMA TypeNext == TypeOK /\ [Next]_vars => TypeOK'
  <1> SUFFICES ASSUME TypeOK, [Next]_vars PROVE TypeOK'
    OBVIOUS
  <1>1. ASSUME NEW p \in Projects, NEW d \in Existing,
               AddProject(p, d) \/ UpdatePath(p, d)
        PROVE  TypeOK'
    BY <1>1, DirsAssumption DEF AddProject, UpdatePath, TypeOK
  <1>2. ASSUME NEW p \in Projects, RemoveProject(p) PROVE TypeOK'
    BY <1>2 DEF RemoveProject, TypeOK
  <1>3. ASSUME NEW c \in Calls, NEW key \in Keys, ResolveCall(c, key)
        PROVE  TypeOK'
    <2>1. Resolve(key) \in Dirs
      BY <1>3, ResolveTyped DEF ResolveCall
    <2>2. call' \in [Calls -> CallType]
      BY <1>3, <2>1 DEF ResolveCall, TypeOK, CallType
    <2> QED BY <1>3, <2>2 DEF ResolveCall, TypeOK, CallType
  <1>4. ASSUME NEW c \in Calls, CallStep(c) PROVE TypeOK'
    <2>1. CASE BeginOp(c)
      <3>1. call[c] \in [stage : {"resolved", "running"}, key : Keys, dir : Dirs]
        BY <2>1, Carries DEF BeginOp
      <3>2. [call[c] EXCEPT !.stage = "running"] \in CallType
        BY <3>1 DEF CallType
      <3>3. call' \in [Calls -> CallType]
        BY <2>1, <3>2 DEF BeginOp, TypeOK, CallType
      <3> QED BY <2>1, <3>1, <3>3 DEF BeginOp, TypeOK, CallType
    <2>2. CASE RefuseOp(c)
      BY <2>2 DEF RefuseOp, TypeOK
    <2>3. CASE EndOp(c)
      BY <2>3 DEF EndOp, TypeOK
    <2>4. CASE Acknowledge(c)
      BY <2>4 DEF Acknowledge, TypeOK
    <2> QED BY <1>4, <2>1, <2>2, <2>3, <2>4 DEF CallStep
  <1>5. CASE UNCHANGED vars
    BY <1>5 DEF vars, TypeOK
  <1> QED BY <1>1, <1>2, <1>3, <1>4, <1>5 DEF Next

\* Every variable keeps its type.
THEOREM TypeCorrect == Spec => []TypeOK
  BY TypeInit, TypeNext, PTL DEF Spec

-----------------------------------------------------------------------------
(* What each step does to the set of running commands. *)

\* A command starts running only in BeginOp and stops only in EndOp.
LEMMA StageFacts ==
    ASSUME TypeOK, NEW c \in Calls
    PROVE  /\ BeginOp(c) => /\ c \notin Running
                            /\ Running' = Running \cup {c}
                            /\ \A d \in Calls : call'[d].key = call[d].key
           /\ EndOp(c) => /\ c \in Running
                          /\ Running' = Running \ {c}
                          /\ \A d \in Running' : call'[d].key = call[d].key
  <1>1. ASSUME BeginOp(c)
        PROVE  /\ c \notin Running
               /\ Running' = Running \cup {c}
               /\ \A d \in Calls : call'[d].key = call[d].key
    <2>1. call[c] \in [stage : {"resolved", "running"}, key : Keys, dir : Dirs]
      BY <1>1, Carries DEF BeginOp
    <2>2. call'[c].stage = "running" /\ call'[c].key = call[c].key
      BY <1>1, <2>1 DEF BeginOp, TypeOK
    <2>3. \A d \in Calls \ {c} : call'[d] = call[d]
      BY <1>1 DEF BeginOp, TypeOK
    <2>4. c \notin Running
      BY <1>1 DEF BeginOp, Running
    <2> QED BY <2>2, <2>3, <2>4 DEF Running
  <1>2. ASSUME EndOp(c)
        PROVE  /\ c \in Running
               /\ Running' = Running \ {c}
               /\ \A d \in Running' : call'[d].key = call[d].key
    <2>1. call'[c].stage = "ready"
      BY <1>2 DEF EndOp, TypeOK, Ready
    <2>2. \A d \in Calls \ {c} : call'[d] = call[d]
      BY <1>2 DEF EndOp, TypeOK
    <2> QED BY <1>2, <2>1, <2>2 DEF EndOp, Running
  <1> QED BY <1>1, <1>2

\* Every other step leaves the running commands, their ids and the lock alone.
LEMMA OtherSteps ==
    ASSUME TypeOK, [Next]_vars, \A c \in Calls : ~BeginOp(c) /\ ~EndOp(c)
    PROVE  /\ ops' = ops
           /\ Running' = Running
           /\ \A d \in Running : call'[d].key = call[d].key
  <1>1. CASE UNCHANGED call /\ UNCHANGED ops
    BY <1>1 DEF Running
  <1>2. ASSUME NEW c \in Calls, UNCHANGED ops,
               call[c].stage # "running", call'[c].stage # "running",
               \A d \in Calls \ {c} : call'[d] = call[d]
        PROVE  /\ ops' = ops
               /\ Running' = Running
               /\ \A d \in Running : call'[d].key = call[d].key
    BY <1>2 DEF Running
  <1>3. ASSUME NEW c \in Calls, NEW key \in Keys, ResolveCall(c, key)
        PROVE  /\ UNCHANGED ops /\ call[c].stage # "running"
               /\ call'[c].stage # "running"
               /\ \A d \in Calls \ {c} : call'[d] = call[d]
    BY <1>3 DEF ResolveCall, TypeOK
  <1>4. ASSUME NEW c \in Calls, RefuseOp(c) \/ Acknowledge(c)
        PROVE  /\ UNCHANGED ops /\ call[c].stage # "running"
               /\ call'[c].stage # "running"
               /\ \A d \in Calls \ {c} : call'[d] = call[d]
    BY <1>4 DEF RefuseOp, Acknowledge, TypeOK, Ready
  <1>5. ASSUME NEW p \in Projects, RemoveProject(p)
        PROVE  UNCHANGED call /\ UNCHANGED ops
    BY <1>5 DEF RemoveProject
  <1>6. ASSUME NEW p \in Projects, NEW d \in Existing,
               AddProject(p, d) \/ UpdatePath(p, d)
        PROVE  UNCHANGED call /\ UNCHANGED ops
    BY <1>6 DEF AddProject, UpdatePath
  <1>7. UNCHANGED vars => UNCHANGED call /\ UNCHANGED ops
    BY DEF vars
  <1> QED BY <1>1, <1>2, <1>3, <1>4, <1>5, <1>6, <1>7 DEF Next, CallStep

-----------------------------------------------------------------------------
(* The lock. *)

LEMMA LockInit == Init => LockInv
  <1> SUFFICES ASSUME Init PROVE LockInv
    OBVIOUS
  <1>1. Running = {}
    BY DEF Init, Running, Ready
  <1> QED BY <1>1, TypeInit DEF Init, LockInv, LockedWhileRunning, OneOperationPerKey

LEMMA LockNext == LockInv /\ [Next]_vars => LockInv'
  <1> SUFFICES ASSUME LockInv, [Next]_vars PROVE LockInv'
    OBVIOUS
  <1>0. TypeOK /\ TypeOK'
    BY TypeNext DEF LockInv
  <1>1. ASSUME NEW c \in Calls, BeginOp(c)
        PROVE  LockedWhileRunning' /\ OneOperationPerKey'
    <2>1. /\ Running' = Running \cup {c}
          /\ \A d \in Calls : call'[d].key = call[d].key
      BY <1>0, <1>1, StageFacts
    <2>2. ops' = ops \cup {call[c].key} /\ call[c].key \notin ops
      BY <1>1 DEF BeginOp
    <2>3. \A d \in Running : call[d].key # call[c].key
      BY <2>2 DEF LockInv, LockedWhileRunning
    <2>4. Running \subseteq Calls
      BY DEF Running
    <2>5. LockedWhileRunning'
      BY <2>1, <2>2, <2>4 DEF LockInv, LockedWhileRunning
    <2>6. OneOperationPerKey'
      BY <2>1, <2>3, <2>4 DEF LockInv, OneOperationPerKey
    <2> QED BY <2>5, <2>6
  <1>2. ASSUME NEW c \in Calls, EndOp(c)
        PROVE  LockedWhileRunning' /\ OneOperationPerKey'
    <2>1. /\ c \in Running
          /\ Running' = Running \ {c}
          /\ \A d \in Running' : call'[d].key = call[d].key
      BY <1>0, <1>2, StageFacts
    <2>2. ops' = ops \ {call[c].key}
      BY <1>2 DEF EndOp
    <2>3. \A d \in Running' : call[d].key # call[c].key
      BY <2>1 DEF LockInv, OneOperationPerKey
    <2>4. LockedWhileRunning'
      BY <2>1, <2>2, <2>3 DEF LockInv, LockedWhileRunning
    <2>5. OneOperationPerKey'
      BY <2>1 DEF LockInv, OneOperationPerKey
    <2> QED BY <2>4, <2>5
  <1>3. CASE \A c \in Calls : ~BeginOp(c) /\ ~EndOp(c)
    <2>1. /\ ops' = ops
          /\ Running' = Running
          /\ \A d \in Running : call'[d].key = call[d].key
      BY <1>0, <1>3, OtherSteps
    <2>2. LockedWhileRunning' /\ OneOperationPerKey'
      BY <2>1 DEF LockInv, LockedWhileRunning, OneOperationPerKey
    <2> QED BY <1>0, <2>2 DEF LockInv
  <1> QED BY <1>0, <1>1, <1>2, <1>3 DEF LockInv

LEMMA LockInvariance == Spec => []LockInv
  BY LockInit, LockNext, PTL DEF Spec

\* AppState.ops holds exactly the ids of the running commands, whatever
\* happens to the projects meanwhile.
THEOREM LocksExact == Spec => []LockedWhileRunning
  <1>1. LockInv => LockedWhileRunning
    BY DEF LockInv
  <1> QED BY <1>1, LockInvariance, PTL

\* try_begin_op lets one command in per id.
THEOREM OnePerKey == Spec => []OneOperationPerKey
  <1>1. LockInv => OneOperationPerKey
    BY DEF LockInv
  <1> QED BY <1>1, LockInvariance, PTL

\* A command is refused only because another of the same id is running.
THEOREM Refusals == Spec => RefusedForCause
  <1> DEFINE Cause ==
          \A c \in Calls :
              call[c].stage = "resolved" /\ call'[c].stage = "refused"
                  => \E d \in Running : call[d].key = call[c].key
  <1>1. LockInv /\ [Next]_vars => [Cause]_vars
    <2> SUFFICES ASSUME LockInv, [Next]_vars,
                        NEW c \in Calls,
                        call[c].stage = "resolved", call'[c].stage = "refused"
                 PROVE  \E d \in Running : call[d].key = call[c].key
      OBVIOUS
    <2>1. call \in [Calls -> CallType]
      BY DEF LockInv, TypeOK, CallType
    <2>2. RefuseOp(c)
      <3>1. ASSUME NEW d \in Calls, BeginOp(d) \/ EndOp(d) \/ Acknowledge(d)
            PROVE  FALSE
        <4>1. call'[d].stage \in {"running", "ready"}
          <5>1. CASE BeginOp(d)
            <6>1. call[d] \in [stage : {"resolved", "running"}, key : Keys, dir : Dirs]
              BY <5>1, Carries DEF BeginOp, LockInv
            <6> QED BY <2>1, <5>1, <6>1 DEF BeginOp
          <5>2. CASE EndOp(d) \/ Acknowledge(d)
            BY <2>1, <5>2 DEF EndOp, Acknowledge, Ready
          <5> QED BY <3>1, <5>1, <5>2
        <4>2. \A e \in Calls \ {d} : call'[e] = call[e]
          BY <2>1, <3>1 DEF BeginOp, EndOp, Acknowledge
        <4> QED BY <4>1, <4>2
      <3>2. ASSUME NEW d \in Calls, RefuseOp(d), d # c PROVE FALSE
        BY <2>1, <3>2 DEF RefuseOp
      <3>3. ASSUME NEW d \in Calls, NEW key \in Keys, ResolveCall(d, key)
            PROVE  FALSE
        BY <2>1, <3>3 DEF ResolveCall
      <3>4. call' # call
        OBVIOUS
      <3> QED BY <3>1, <3>2, <3>3, <3>4
              DEF Next, CallStep, vars, AddProject, UpdatePath, RemoveProject
    <2> QED BY <2>2 DEF RefuseOp, LockInv, LockedWhileRunning
  <1>2. Spec => [][Cause]_vars
    BY <1>1, LockInvariance, PTL DEF Spec
  <1> QED BY <1>2 DEF RefusedForCause

-----------------------------------------------------------------------------
(* The project list. *)

LEMMA FoldersNext ==
    ASSUME TypeOK, FoldersDistinct, [Next]_vars PROVE FoldersDistinct'
  <1>1. ASSUME NEW p \in Projects, NEW d \in Existing,
               path' = [path EXCEPT ![p] = d],
               \A q \in Projects \ {p} : path[q] # d
        PROVE  FoldersDistinct'
    BY <1>1 DEF TypeOK, FoldersDistinct
  <1>2. ASSUME NEW p \in Projects, NEW d \in Existing,
               AddProject(p, d) \/ UpdatePath(p, d)
        PROVE  FoldersDistinct'
    BY <1>1, <1>2 DEF AddProject, UpdatePath
  <1>3. ASSUME NEW p \in Projects, RemoveProject(p) PROVE FoldersDistinct'
    BY <1>3 DEF RemoveProject, TypeOK, FoldersDistinct
  <1>4. CASE UNCHANGED path
    BY <1>4 DEF FoldersDistinct
  <1> QED BY <1>2, <1>3, <1>4
          DEF Next, CallStep, ResolveCall, BeginOp, RefuseOp, EndOp, Acknowledge, vars

\* No two registered projects share a folder, however they are added, moved
\* and removed.
THEOREM Folders == Spec => []FoldersDistinct
  <1>1. Init => FoldersDistinct
    BY DEF Init, FoldersDistinct
  <1> QED BY <1>1, TypeCorrect, FoldersNext, PTL DEF Spec

-----------------------------------------------------------------------------
(* The commands implement KeyedMutex. *)

\* The commands running with an id, and what they say about its owner.
RunningWith(key) == {c \in Running : call[c].key = key}

Owned ==
    \A key \in Keys :
        /\ RunningWith(key) = {} => Holder(key) = NoDir
        /\ \A c \in RunningWith(key) : Holder(key) = c

\* The owner of an id is the one command running with it, if any.
LEMMA HolderOwns == OneOperationPerKey => Owned
  <1> SUFFICES ASSUME OneOperationPerKey, NEW key \in Keys
               PROVE  /\ RunningWith(key) = {} => Holder(key) = NoDir
                      /\ \A c \in RunningWith(key) : Holder(key) = c
    BY DEF Owned
  <1>1. CASE RunningWith(key) = {}
    BY <1>1 DEF RunningWith, Holder
  <1>2. ASSUME NEW c \in RunningWith(key) PROVE Holder(key) = c
    <2>1. \E d \in Running : call[d].key = key
      BY DEF RunningWith
    <2>2. Holder(key) \in Running /\ call[Holder(key)].key = key
      BY <2>1 DEF Holder
    <2> QED BY <2>2 DEF RunningWith, OneOperationPerKey
  <1> QED BY <1>1, <1>2

LEMMA MutexInit == Init => Mutex!Init
  <1> SUFFICES ASSUME Init PROVE Mutex!Init
    OBVIOUS
  <1>1. Running = {}
    BY DEF Init, Running, Ready
  <1>2. \A key \in Keys : Holder(key) = NoDir
    BY <1>1 DEF Holder
  <1> QED BY <1>2 DEF Mutex!Init

\* Running an id's command acquires its lock, ending it releases the lock;
\* everything else leaves every owner alone.
LEMMA MutexNext ==
    ASSUME LockInv, Owned, Owned', [Next]_vars
    PROVE  [Mutex!Next]_[key \in Keys |-> Holder(key)]
  <1>0. TypeOK /\ OneOperationPerKey /\ Running \subseteq Calls
    BY DEF LockInv, Running
  <1>1. ASSUME NEW key \in Keys, RunningWith(key)' = RunningWith(key)
        PROVE  Holder(key)' = Holder(key)
    <2>1. CASE RunningWith(key) = {}
      BY <1>1, <2>1 DEF Owned
    <2>2. CASE RunningWith(key) # {}
      BY <1>1, <2>2 DEF Owned
    <2> QED BY <2>1, <2>2
  <1>2. ASSUME NEW c \in Calls, BeginOp(c) PROVE Mutex!Next
    <2> DEFINE k == call[c].key
    <2>1. /\ c \notin Running
          /\ Running' = Running \cup {c}
          /\ \A d \in Calls : call'[d].key = call[d].key
      BY <1>0, <1>2, StageFacts
    <2>2. k \in Keys
      BY <1>0, <1>2, Carries DEF BeginOp
    <2>3. RunningWith(k) = {}
      BY <1>2 DEF BeginOp, LockInv, LockedWhileRunning, RunningWith
    <2>4. PICK key \in Keys : key = k
      BY <2>2
    <2>5. RunningWith(key)' = {c}
      BY <1>0, <2>1, <2>3, <2>4 DEF RunningWith
    <2>6. Holder(key) = NoDir /\ Holder(key)' = c
      BY <2>3, <2>4, <2>5 DEF Owned
    <2>7. \A other \in Keys \ {key} : Holder(other)' = Holder(other)
      <3> SUFFICES ASSUME NEW other \in Keys, other # key
                   PROVE  RunningWith(other)' = RunningWith(other)
        BY <1>1
      <3> QED BY <1>0, <2>1, <2>4 DEF RunningWith
    <2>8. Mutex!Acquire(key, c)
      BY <2>6, <2>7 DEF Mutex!Acquire, Mutex!Free
    <2> QED BY <2>8 DEF Mutex!Next
  <1>3. ASSUME NEW c \in Calls, EndOp(c) PROVE Mutex!Next
    <2> DEFINE k == call[c].key
    <2>1. /\ c \in Running
          /\ Running' = Running \ {c}
          /\ \A d \in Running' : call'[d].key = call[d].key
      BY <1>0, <1>3, StageFacts
    <2>2. k \in Keys
      BY <1>0, <1>3, Carries DEF EndOp
    <2>3. PICK key \in Keys : key = k
      BY <2>2
    <2>4. RunningWith(key) = {c}
      BY <1>0, <2>1, <2>3 DEF RunningWith, OneOperationPerKey
    <2>5. RunningWith(key)' = {}
      BY <2>1, <2>4 DEF RunningWith
    <2>6. Holder(key) = c /\ Holder(key)' = NoDir
      BY <2>4, <2>5 DEF Owned
    <2>7. \A other \in Keys \ {key} : Holder(other)' = Holder(other)
      <3> SUFFICES ASSUME NEW other \in Keys, other # key
                   PROVE  RunningWith(other)' = RunningWith(other)
        BY <1>1
      <3> QED BY <2>1, <2>3 DEF RunningWith
    <2>8. Mutex!Release(key, c)
      BY <2>6, <2>7 DEF Mutex!Release
    <2> QED BY <2>8 DEF Mutex!Next
  <1>4. CASE \A c \in Calls : ~BeginOp(c) /\ ~EndOp(c)
    <2>1. /\ Running' = Running
          /\ \A d \in Running : call'[d].key = call[d].key
      BY <1>0, <1>4, OtherSteps
    <2>2. \A key \in Keys : RunningWith(key)' = RunningWith(key)
      BY <2>1 DEF RunningWith
    <2>3. \A key \in Keys : Holder(key)' = Holder(key)
      BY <1>1, <2>2
    <2> QED BY <2>3
  <1> QED BY <1>2, <1>3, <1>4

\* The commands use AppState.ops as a lock with one owner per id: every
\* command's step acquires, releases or leaves alone, and only the owner
\* releases.
THEOREM Refinement == Spec => LocksImplementMutex
  <1>1. LockInv => Owned
    BY HolderOwns DEF LockInv
  <1>2. LockInv /\ LockInv' /\ [Next]_vars
            => [Mutex!Next]_[key \in Keys |-> Holder(key)]
    <2>1. LockInv' => Owned'
      BY <1>1, PTL
    <2> QED BY <1>1, <2>1, MutexNext
  <1>3. Spec => Mutex!Spec
    BY <1>2, MutexInit, LockInvariance, PTL DEF Spec, Mutex!Spec
  <1> QED BY <1>3 DEF LocksImplementMutex

-----------------------------------------------------------------------------
(* One operation per folder, which is what the lock is for ("no concurrent   *)
(* git operations in one repository", state.rs).  Ids stand for folders only *)
(* on two conditions, and each fails in the code: see the findings.          *)

UnderWay(c) == call[c].stage \in {"resolved", "running"}

\* A nested repository's folder is reached under no other id.
NestedApart ==
    \A k, l \in Keys : k[2] # "top" /\ Resolve(k) = Resolve(l) /\ Resolve(k) # NoDir => k = l

\* No project is moved or removed while a command on it is under way.
StaysPut == [][\A c \in Calls : UnderWay(c) => path'[call[c].key[1]] = path[call[c].key[1]]]_vars

\* At most one command runs in a folder.
OneOperationPerFolder == \A c, d \in Running : call[c].dir = call[d].dir => c = d

\* A command works in the folder that its id stands for.
InPlace == \A c \in Calls : UnderWay(c) => call[c].dir = Resolve(call[c].key)

LEMMA InPlaceNext ==
    ASSUME TypeOK, InPlace, [Next]_vars,
           \A c \in Calls : UnderWay(c) => path'[call[c].key[1]] = path[call[c].key[1]]
    PROVE  InPlace'
  <1> SUFFICES ASSUME NEW c \in Calls, UnderWay(c)'
               PROVE  call'[c].dir = Resolve(call[c].key)'
    BY DEF InPlace
  <1>1. ASSUME UnderWay(c), call'[c].key = call[c].key, call'[c].dir = call[c].dir
        PROVE  call'[c].dir = Resolve(call[c].key)'
    BY <1>1 DEF InPlace, Resolve
  <1>2. ASSUME call'[c] = call[c] PROVE call'[c].dir = Resolve(call[c].key)'
    BY <1>1, <1>2 DEF UnderWay
  <1>3. ASSUME NEW d \in Calls, NEW key \in Keys, ResolveCall(d, key)
        PROVE  call'[c].dir = Resolve(call[c].key)'
    <2>1. CASE d = c
      <3>1. call'[c].dir = Resolve(key) /\ call'[c].key = key
        BY <1>3, <2>1 DEF ResolveCall, TypeOK
      <3> QED BY <1>3, <3>1 DEF ResolveCall, Resolve
    <2>2. CASE d # c
      BY <1>2, <1>3, <2>2 DEF ResolveCall, TypeOK
    <2> QED BY <2>1, <2>2
  <1>4. ASSUME NEW d \in Calls, CallStep(d) PROVE call'[c].dir = Resolve(call[c].key)'
    <2>1. CASE d # c
      BY <1>2, <1>4, <2>1 DEF CallStep, BeginOp, RefuseOp, EndOp, Acknowledge, TypeOK
    <2>2. CASE d = c
      <3>1. BeginOp(c)
        BY <1>4, <2>2 DEF CallStep, RefuseOp, EndOp, Acknowledge, TypeOK, UnderWay, Ready
      <3>2. call[c] \in [stage : {"resolved", "running"}, key : Keys, dir : Dirs]
        BY <3>1, Carries DEF BeginOp
      <3>3. call'[c] = [call[c] EXCEPT !.stage = "running"] /\ UnderWay(c)
        BY <3>1 DEF BeginOp, TypeOK, UnderWay
      <3> QED BY <1>1, <3>2, <3>3
    <2> QED BY <2>1, <2>2
  <1>5. CASE UNCHANGED call
    BY <1>2, <1>5
  <1> QED BY <1>3, <1>4, <1>5 DEF Next, AddProject, UpdatePath, RemoveProject, vars

\* Where nested repositories are reached under one id only and projects stay
\* where they are while commands run, the lock keeps the promise made for
\* folders: no two locking commands run in one repository.
THEOREM OnePerFolder == Spec /\ []NestedApart /\ StaysPut => []OneOperationPerFolder
  <1>1. Init => InPlace
    BY DEF Init, InPlace, UnderWay, Ready
  <1>2. TypeOK /\ InPlace /\ [Next]_vars
           /\ [\A c \in Calls : UnderWay(c) => path'[call[c].key[1]] = path[call[c].key[1]]]_vars
        => InPlace'
    <2>1. CASE UNCHANGED vars
      BY <2>1 DEF vars, InPlace, UnderWay, Resolve
    <2> QED BY <2>1, InPlaceNext
  <1>3. ASSUME LockInv, FoldersDistinct, InPlace, NestedApart PROVE OneOperationPerFolder
    <2> SUFFICES ASSUME NEW c \in Running, NEW d \in Running, call[c].dir = call[d].dir
                 PROVE  c = d
      BY DEF OneOperationPerFolder
    <2> DEFINE k == call[c].key
               l == call[d].key
    <2>1. /\ k \in Keys /\ l \in Keys /\ Resolve(k) = Resolve(l) /\ Resolve(k) # NoDir
      BY <1>3, Carries, DirsAssumption DEF LockInv, InPlace, UnderWay, Running
    <2>2. k = l
      <3>1. CASE k[2] # "top" \/ l[2] # "top"
        BY <1>3, <2>1, <3>1 DEF NestedApart
      <3>2. CASE k[2] = "top" /\ l[2] = "top"
        <4>1. k = <<k[1], "top">> /\ l = <<l[1], "top">> /\ k[1] \in Projects /\ l[1] \in Projects
          BY <2>1, <3>2 DEF Keys
        <4>2. path[k[1]] = path[l[1]] /\ path[k[1]] # NoDir
          BY <2>1, <3>2 DEF Resolve
        <4>3. k[1] = l[1]
          BY <1>3, <4>1, <4>2 DEF FoldersDistinct
        <4> QED BY <4>1, <4>3
      <3> QED BY <3>1, <3>2
    <2> QED BY <1>3, <2>2 DEF LockInv, OneOperationPerKey
  <1> QED BY <1>1, <1>2, <1>3, TypeCorrect, LockInvariance, Folders, PTL DEF Spec, StaysPut
=============================================================================

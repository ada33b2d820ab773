------------------------------- MODULE OpLock -------------------------------
(***************************************************************************)
(* The write lock of the git commands: AppState.ops (state.rs), the        *)
(* resolution of a project id to a folder and the project list it reads    *)
(* (commands/projects.rs), and the commands that take the lock             *)
(* (commands/actions.rs, commands/sync.rs).                                *)
(*                                                                         *)
(* A command names a registered project, or a repository nested in one by  *)
(* the composite id "outer::rel".  It resolves the id to a folder first    *)
(* and tries the lock of the id afterwards.                                *)
(***************************************************************************)
EXTENDS FiniteSets

CONSTANTS
    Projects,  \* project ids, never reused
    Rels,      \* relative paths of nested repositories
    Dirs,      \* paths
    Existing,  \* those at which there is a folder
    Below,     \* Below[d, r]: the path at r below d, or NoDir if it leads out of d
    Calls,     \* invocations of the git commands, running concurrently
    NoDir      \* no path: the project is not registered

ASSUME DirsAssumption ==
    /\ NoDir \notin Dirs /\ Existing \subseteq Dirs
    /\ Below \in [Dirs \X Rels -> Dirs \cup {NoDir}]

\* The lock's keys are the ids as the commands receive them.
Keys == (Projects \X {"top"}) \cup (Projects \X Rels)

VARIABLES
    path,  \* AppState.projects: the folder of each registered project
    used,  \* the ids already given out
    ops,   \* AppState.ops
    call   \* per invocation: its stage, its id and the path it resolved

vars == <<path, used, ops, call>>

Ready == [stage |-> "ready", key |-> <<"none", "none">>, dir |-> NoDir]

Running == {c \in Calls : call[c].stage = "running"}

\* project_path: the registered folder, or the path below it, whether or not
\* a folder is there; an id that resolves to nothing is NOT_FOUND.
Resolve(key) ==
    IF path[key[1]] = NoDir \/ key[2] = "top" THEN path[key[1]]
    ELSE Below[path[key[1]], key[2]]

-----------------------------------------------------------------------------
(* The project list. *)

\* Mutation: the duplicate check is left to the front end.
AddProjectUnchecked(p, d) ==
    /\ p \notin used
    /\ path' = [path EXCEPT ![p] = d]
    /\ used' = used \cup {p}
    /\ UNCHANGED <<ops, call>>

\* add_project: refused when the folder is registered already.
AddProject(p, d) ==
    /\ p \notin used
    /\ \A q \in Projects : path[q] # d
    /\ path' = [path EXCEPT ![p] = d]
    /\ used' = used \cup {p}
    /\ UNCHANGED <<ops, call>>

\* update_project_path: the id stays, the folder changes.
UpdatePath(p, d) ==
    /\ path[p] # NoDir
    /\ \A q \in Projects \ {p} : path[q] # d
    /\ path' = [path EXCEPT ![p] = d]
    /\ UNCHANGED <<used, ops, call>>

\* remove_project neither takes nor clears a lock.
RemoveProject(p) ==
    /\ path[p] # NoDir
    /\ path' = [path EXCEPT ![p] = NoDir]
    /\ UNCHANGED <<used, ops, call>>

-----------------------------------------------------------------------------
(* A git command: resolve, try the lock, run, drop the guard. *)

ResolveCall(c, key) ==
    /\ call[c].stage = "ready"
    /\ Resolve(key) # NoDir
    /\ call' = [call EXCEPT ![c] =
           [stage |-> "resolved", key |-> key, dir |-> Resolve(key)]]
    /\ UNCHANGED <<path, used, ops>>

\* try_begin_op: the test and the insertion are one critical section.
BeginOp(c) ==
    /\ call[c].stage = "resolved"
    /\ call[c].key \notin ops
    /\ ops' = ops \cup {call[c].key}
    /\ call' = [call EXCEPT ![c].stage = "running"]
    /\ UNCHANGED <<path, used>>

\* Mutation: a refused call builds its guard first, and drops it.
RefuseOpDropping(c) ==
    /\ call[c].stage = "resolved"
    /\ call[c].key \in ops
    /\ ops' = ops \ {call[c].key}
    /\ call' = [call EXCEPT ![c] = [Ready EXCEPT !.stage = "refused"]]
    /\ UNCHANGED <<path, used>>

\* try_begin_op: OP_IN_PROGRESS at once, without queueing.
RefuseOp(c) ==
    /\ call[c].stage = "resolved"
    /\ call[c].key \in ops
    /\ call' = [call EXCEPT ![c] = [Ready EXCEPT !.stage = "refused"]]
    /\ UNCHANGED <<path, used, ops>>

\* Mutation: the lock is kept when the command ends.
EndOpForgetful(c) ==
    /\ call[c].stage = "running"
    /\ call' = [call EXCEPT ![c] = Ready]
    /\ UNCHANGED <<path, used, ops>>

\* The git command ended or timed out; the guard is dropped on every path.
EndOp(c) ==
    /\ call[c].stage = "running"
    /\ ops' = ops \ {call[c].key}
    /\ call' = [call EXCEPT ![c] = Ready]
    /\ UNCHANGED <<path, used>>

\* The user sees the refusal and may call again.
Acknowledge(c) ==
    /\ call[c].stage = "refused"
    /\ call' = [call EXCEPT ![c] = Ready]
    /\ UNCHANGED <<path, used, ops>>

-----------------------------------------------------------------------------
Init ==
    /\ path = [p \in Projects |-> NoDir]
    /\ used = {}
    /\ ops = {}
    /\ call = [c \in Calls |-> Ready]

CallStep(c) == BeginOp(c) \/ RefuseOp(c) \/ EndOp(c) \/ Acknowledge(c)

Next ==
    \/ \E p \in Projects, d \in Existing : AddProject(p, d) \/ UpdatePath(p, d)
    \/ \E p \in Projects : RemoveProject(p)
    \/ \E c \in Calls, key \in Keys : ResolveCall(c, key)
    \/ \E c \in Calls : CallStep(c)

\* Commands run to their end: git answers or the runner kills it.
Spec == Init /\ [][Next]_vars /\ \A c \in Calls : WF_vars(CallStep(c))

-----------------------------------------------------------------------------
TypeOK ==
    /\ path \in [Projects -> Dirs \cup {NoDir}]
    /\ used \subseteq Projects
    /\ ops \subseteq Keys
    /\ call \in [Calls -> {Ready, [Ready EXCEPT !.stage = "refused"]} \cup
                   [stage : {"resolved", "running"}, key : Keys, dir : Dirs]]

\* No two registered projects share a folder, whatever is added and moved.
FoldersDistinct ==
    \A p, q \in Projects : path[p] = path[q] /\ path[p] # NoDir => p = q

\* A command holds the lock of its id as long as it runs, and no lock
\* outlives its command: removing or moving the project loses neither.
LockedWhileRunning == ops = {call[c].key : c \in Running}

\* At most one locking command runs per project id.
OneOperationPerKey ==
    \A c, d \in Running : call[c].key = call[d].key => c = d

\* Different repositories do not wait for each other: a resolved command is
\* refused only because one of the same id is running.
RefusedForCause ==
    [][\A c \in Calls :
        call[c].stage = "resolved" /\ call'[c].stage = "refused"
            => \E d \in Running : call[d].key = call[c].key]_vars

-----------------------------------------------------------------------------
\* The running command with this id, if any.
Holder(key) ==
    IF \E c \in Running : call[c].key = key
    THEN CHOOSE c \in Running : call[c].key = key ELSE NoDir

Mutex == INSTANCE KeyedMutex WITH
             Keys <- Keys, Actors <- Calls, Nobody <- NoDir,
             owner <- [key \in Keys |-> Holder(key)]

\* The commands use AppState.ops as a lock with one owner per id.
LocksImplementMutex == Mutex!Spec
=============================================================================

---------------------------- MODULE LspSessions ----------------------------
(***************************************************************************)
(* Language servers: the registry of server processes of the back end      *)
(* (commands/lsp.rs) and the session objects of the front end              *)
(* (lib/lsp/client.ts) that use them, one per project and language.        *)
(*                                                                         *)
(* The two halves only share messages: lsp_start and its answer, lsp_send, *)
(* lsp_stop, and the lsp://exit event.  The registry's lock is held for    *)
(* one look-up or change at a time; a start holds START_LOCK from its      *)
(* look-up to its registration.  A server's stdout has a reader thread     *)
(* that lives until the process is gone.                                   *)
(***************************************************************************)
EXTENDS Naturals, FiniteSets

CONSTANTS
    Projects,    \* ids; an id removed from the list never comes back
    Langs,       \* languages a server exists for
    Clients,     \* front-end LspSession objects
    Servers,     \* server processes
    MaxSessions, \* MAX_SESSIONS
    MaxReloads,  \* bound: how often the web view is reloaded
    Nobody       \* no client, no server

ASSUME NobodyAssumption == Nobody \notin Clients \cup Servers
ASSUME BoundsAssumption == MaxSessions \in Nat \ {0} /\ MaxReloads \in Nat

Keys == Projects \X Langs  \* the session key "{projectId}:{lang}"

VARIABLES
    listed,   \* AppState.projects
    leaving,  \* projects off the list whose sessions are still to be stopped
    app,      \* "up", "closing" (SHUTTING_DOWN is set), "drained"
    sessions, \* AppState.lsp: the server registered under each key
    lru,      \* the pairs of registered keys of which the first was used before the second
    idle,     \* registered servers whose last_activity is IDLE_TIMEOUT ago
    stale,    \* the keys the reaper found idle and has still to take
    server,   \* the processes with their reader threads and sinks
    client,   \* the session objects and their lsp_start calls
    current,  \* client.ts sessions: the object of each key
    stops,    \* lsp_stop calls on their way
    exits,    \* servers whose lsp://exit event is on its way
    reloads

vars == <<listed, leaving, app, sessions, lru, idle, stale, server, client,
          current, stops, exits, reloads>>

registry == <<sessions, lru, idle>>
frontEnd == <<client, current, stops>>
lifetimes == <<listed, leaving, app>>

NoServer == [key |-> Nobody, proc |-> "none", reading |-> FALSE, sink |-> Nobody]
NoClient == [key |-> Nobody, pc |-> "none", server |-> Nobody]

Registered == {sessions[k] : k \in Keys} \ {Nobody}
RegisteredKeys == {k \in Keys : sessions[k] # Nobody}
Live(c) == client[c].key # Nobody /\ current[client[c].key] = c
Starting(c) == client[c].pc \in {"resolving", "spawned"}
Gone(p) == p \notin listed \cup leaving

\* spawn_terminate: a thread asks the server to exit, then kills it.
Terminated(S) ==
    [s \in Servers |-> IF s \in S /\ server[s].proc = "running"
                       THEN [server[s] EXCEPT !.proc = "dying"] ELSE server[s]]

\* An order without the keys K.
Without(order, K) == {p \in order : p[1] \notin K /\ p[2] \notin K}

\* The sessions of K leave the registry and are terminated.
Remove(K) ==
    LET out == {sessions[k] : k \in K} IN
    /\ sessions' = [k \in Keys |-> IF k \in K THEN Nobody ELSE sessions[k]]
    /\ lru' = Without(lru, K)
    /\ idle' = idle \ out
    /\ server' = Terminated(out)

\* The registered keys and k in the order of last_activity, k's being now.
NewOrder(k) == Without(lru, {k}) \cup {<<j, k>> : j \in RegisteredKeys \ {k}}

\* last_activity = now.
Touch(k) == /\ lru' = NewOrder(k)
            /\ idle' = idle \ {sessions[k]}

\* The answer of lsp_start arrives; an object disposed meanwhile ignores it.
Return(c, pc) ==
    client' = [client EXCEPT
        ![c] = IF Live(c) THEN [key |-> @.key, pc |-> pc, server |-> Nobody]
               ELSE NoClient]

Sink(c) == IF Live(c) THEN c ELSE Nobody

\* LspSession.dispose of the objects C: they leave the map, and nobody
\* listens to what their servers still send.  A call on its way goes on.
Dispose(C) ==
    /\ current' = [k \in Keys |-> IF current[k] \in C THEN Nobody ELSE current[k]]
    /\ client' = [c \in Clients |->
                    IF c \in C /\ client[c].pc \notin {"waiting", "resolving", "spawned"}
                    THEN NoClient ELSE client[c]]
    /\ server' = [s \in Servers |->
                    IF server[s].sink \in C THEN [server[s] EXCEPT !.sink = Nobody]
                    ELSE server[s]]

-----------------------------------------------------------------------------
(* The front end. *)

\* ensureSession: a document is opened and its key has no session object.
OpenDoc(c, k) ==
    /\ app = "up" /\ k[1] \in listed
    /\ current[k] = Nobody /\ client[c] = NoClient
    /\ current' = [current EXCEPT ![k] = c]
    /\ client' = [client EXCEPT ![c] = [key |-> k, pc |-> "waiting", server |-> Nobody]]
    /\ UNCHANGED <<lifetimes, registry, stale, server, stops, exits, reloads>>

\* The server answers the initialize request.
Initialized(c) ==
    /\ client[c].pc = "init"
    /\ \E s \in Registered : /\ s = sessions[client[c].key]
                             /\ server[s].proc = "running" /\ server[s].sink = c
    /\ client' = [client EXCEPT ![c].pc = "ready"]
    /\ UNCHANGED <<lifetimes, registry, stale, server, current, stops, exits, reloads>>

DisposeAndStop(c) ==
    /\ Dispose({c})
    /\ stops' = stops \cup {client[c].key}
    /\ UNCHANGED <<lifetimes, registry, stale, exits, reloads>>

\* initialize times out or is refused (a server that already had one).
InitializeFails(c) == client[c].pc = "init" /\ DisposeAndStop(c)

\* The last document has been closed for IDLE_DISPOSE_DELAY.
IdleDispose(c) == client[c].pc = "ready" /\ DisposeAndStop(c)

\* lsp_send of something the user did; without a session it is dropped.
UserRequest(c) ==
    /\ client[c].pc = "ready" /\ sessions[client[c].key] # Nobody
    /\ Touch(client[c].key)
    /\ UNCHANGED <<lifetimes, sessions, stale, server, frontEnd, exits, reloads>>

\* The listener of lsp://exit disposes whatever object the key has now.
HearExit(s) ==
    /\ s \in exits
    /\ exits' = exits \ {s}
    /\ Dispose({current[server[s].key]} \ {Nobody})
    /\ UNCHANGED <<lifetimes, registry, stale, stops, reloads>>

\* The web view is reloaded: its objects vanish without a word.
Reload ==
    /\ reloads < MaxReloads
    /\ reloads' = reloads + 1
    /\ Dispose({c \in Clients : Live(c)})
    /\ UNCHANGED <<lifetimes, registry, stale, stops, exits>>

-----------------------------------------------------------------------------
(* Starting a server. *)

\* A session is there: its messages go to the caller from now on.
Reattach(c) ==
    LET s == sessions[client[c].key] IN
    /\ s # Nobody
    /\ server' = [server EXCEPT ![s].sink = Sink(c)]
    /\ Touch(client[c].key)
    /\ Return(c, "init")

LookUpProject(c) ==
    /\ sessions[client[c].key] = Nobody
    /\ IF client[c].key[1] \in listed
       THEN client' = [client EXCEPT ![c].pc = "resolving"]
       ELSE Return(c, "failed")
    /\ UNCHANGED <<server, lru, idle>>

\* Mutation: starts are not serialised.
LookUpUnserialised(c) ==
    /\ client[c].pc = "waiting" /\ client[c].key \notin stops
    /\ Reattach(c) \/ LookUpProject(c)
    /\ UNCHANGED <<lifetimes, sessions, stale, current, stops, exits, reloads>>

\* start_blocking up to the spawn, with START_LOCK taken.  The IPC thread
\* has handled an lsp_stop that was sent earlier.
LookUp(c) ==
    /\ client[c].pc = "waiting" /\ client[c].key \notin stops
    /\ \A d \in Clients : ~Starting(d)
    /\ Reattach(c) \/ LookUpProject(c)
    /\ UNCHANGED <<lifetimes, sessions, stale, current, stops, exits, reloads>>

\* acquire::resolve finds nothing to run, or the spawn fails.
StartFails(c) ==
    /\ client[c].pc = "resolving"
    /\ Return(c, "failed")
    /\ UNCHANGED <<lifetimes, registry, stale, server, current, stops, exits, reloads>>

\* The process and its reader thread are there, the session is not yet.
Spawn(c, s) ==
    /\ client[c].pc = "resolving" /\ server[s] = NoServer
    /\ server' = [server EXCEPT ![s] = [key |-> client[c].key, proc |-> "running",
                                        reading |-> TRUE, sink |-> Sink(c)]]
    /\ client' = [client EXCEPT ![c].pc = "spawned", ![c].server = s]
    /\ UNCHANGED <<lifetimes, registry, stale, current, stops, exits, reloads>>

\* The keys that were used after k.
UsedAfter(order, k) == {j \in Keys : <<k, j>> \in order}

\* Mutation: one session too many stays.
LruVictimsLate(order) == {k \in Keys : Cardinality(UsedAfter(order, k)) > MaxSessions}

\* lru_victims: the sessions beyond the limit, oldest first; the new one,
\* just touched, is the last of the order and never among them.
LruVictims(order) == {k \in Keys : Cardinality(UsedAfter(order, k)) >= MaxSessions}

\* Refused after the removal of the project or the start of the shutdown.
RefuseRegister(c) ==
    /\ client[c].pc = "spawned"
    /\ app # "up" \/ client[c].key[1] \notin listed
    /\ server' = Terminated({client[c].server})
    /\ Return(c, "failed")
    /\ UNCHANGED <<lifetimes, registry, stale, current, stops, exits, reloads>>

\* The session of c enters the registry, the sessions in `out` leave it and
\* those in `ended` are terminated.
Insert(c, out, ended) ==
    LET k == client[c].key IN
    /\ sessions' = [j \in Keys |-> IF j = k THEN client[c].server
                                   ELSE IF j \in out THEN Nobody ELSE sessions[j]]
    /\ lru' = Without(NewOrder(k), out)
    /\ idle' = idle \ {sessions[j] : j \in out \cup {k}}
    /\ server' = Terminated({sessions[j] : j \in ended})
    /\ Return(c, "init")
    /\ UNCHANGED <<lifetimes, stale, current, stops, exits, reloads>>

\* Mutation: evicted sessions leave the registry only.
RegisterLeaky(c) ==
    /\ client[c].pc = "spawned"
    /\ app = "up" /\ client[c].key[1] \in listed
    /\ Insert(c, LruVictims(NewOrder(client[c].key)), {})

\* Mutation: the project and the shutdown are not looked at again.
RegisterBlindly(c) ==
    /\ client[c].pc = "spawned"
    /\ LET victims == LruVictims(NewOrder(client[c].key))
       IN  Insert(c, victims, victims \cup {client[c].key})

\* The insertion, what it replaces, and the eviction, under one lock.
Register(c) ==
    /\ client[c].pc = "spawned"
    /\ app = "up" /\ client[c].key[1] \in listed
    /\ LET victims == LruVictims(NewOrder(client[c].key))
       IN  Insert(c, victims, victims \cup {client[c].key})

-----------------------------------------------------------------------------
(* Ending a server. *)

LspStop(k) ==
    /\ k \in stops
    /\ stops' = stops \ {k}
    /\ Remove({k})
    /\ UNCHANGED <<lifetimes, stale, client, current, exits, reloads>>

\* The idle reaper collects keys, gives the lock back, and takes them one by
\* one, whatever is registered under them by then.
GrowIdle(s) ==
    /\ s \in Registered \ idle
    /\ idle' = idle \cup {s}
    /\ UNCHANGED <<lifetimes, sessions, lru, stale, server, frontEnd, exits, reloads>>

ReaperLooks ==
    /\ stale = {} /\ idle # {}
    /\ stale' = {k \in Keys : sessions[k] \in idle}
    /\ UNCHANGED <<lifetimes, registry, server, frontEnd, exits, reloads>>

ReaperTakes(k) ==
    /\ k \in stale
    /\ stale' = stale \ {k}
    /\ Remove({k})
    /\ UNCHANGED <<lifetimes, frontEnd, exits, reloads>>

\* remove_project takes the project off the list, then stops its sessions.
RemoveProject(p) ==
    /\ p \in listed
    /\ listed' = listed \ {p}
    /\ leaving' = leaving \cup {p}
    /\ UNCHANGED <<app, registry, stale, server, frontEnd, exits, reloads>>

StopProjectSessions(p) ==
    /\ p \in leaving
    /\ leaving' = leaving \ {p}
    /\ Remove({k \in Keys : k[1] = p})
    /\ UNCHANGED <<listed, app, stale, frontEnd, exits, reloads>>

\* lsp_kill_all sets the flag, then drains the registry.
ShutDown ==
    /\ app = "up"
    /\ app' = "closing"
    /\ UNCHANGED <<listed, leaving, registry, stale, server, frontEnd, exits, reloads>>

Drain ==
    /\ app = "closing"
    /\ app' = "drained"
    /\ Remove(Keys)
    /\ UNCHANGED <<listed, leaving, stale, frontEnd, exits, reloads>>

Crash(s) ==
    /\ server[s].proc = "running"
    /\ server' = [server EXCEPT ![s].proc = "dead"]
    /\ UNCHANGED <<lifetimes, registry, stale, frontEnd, exits, reloads>>

\* terminate_child: the server exits in its grace period or is killed.
TerminateChild(s) ==
    /\ server[s].proc = "dying"
    /\ server' = [server EXCEPT ![s].proc = "dead"]
    /\ UNCHANGED <<lifetimes, registry, stale, frontEnd, exits, reloads>>

\* The session of the keys K is taken out of the registry by the reader of s.
TakeOut(s, K) ==
    /\ sessions' = [k \in Keys |-> IF k \in K THEN Nobody ELSE sessions[k]]
    /\ lru' = Without(lru, K)
    /\ idle' = idle \ {sessions[k] : k \in K}
    /\ exits' = IF K = {} THEN exits ELSE exits \cup {s}
    /\ server' = [server EXCEPT ![s].reading = FALSE]
    /\ UNCHANGED <<lifetimes, stale, frontEnd, reloads>>

\* Mutation: the key alone decides.
ReaderEndsByKey(s) ==
    /\ server[s].proc = "dead" /\ server[s].reading
    /\ TakeOut(s, {k \in {server[s].key} : sessions[k] # Nobody})

\* The reader sees the end of the stream.  Only a session that is still its
\* own (the same pid) is taken out and announced.
ReaderEnds(s) ==
    /\ server[s].proc = "dead" /\ server[s].reading
    /\ TakeOut(s, {k \in {server[s].key} : sessions[k] = s})

\* The last reference to a session is dropped: the process is waited for.
DropSession(s) ==
    /\ server[s].proc = "dead" /\ ~server[s].reading
    /\ s \notin Registered \cup exits /\ \A c \in Clients : client[c].server # s
    /\ server' = [server EXCEPT ![s] = NoServer]
    /\ UNCHANGED <<lifetimes, registry, stale, frontEnd, exits, reloads>>

-----------------------------------------------------------------------------

Init ==
    /\ listed = Projects /\ leaving = {} /\ app = "up"
    /\ sessions = [k \in Keys |-> Nobody] /\ lru = {} /\ idle = {}
    /\ stale = {}
    /\ server = [s \in Servers |-> NoServer]
    /\ client = [c \in Clients |-> NoClient]
    /\ current = [k \in Keys |-> Nobody]
    /\ stops = {} /\ exits = {} /\ reloads = 0

FrontEndStep(c) ==
    \/ \E k \in Keys : OpenDoc(c, k)
    \/ Initialized(c) \/ InitializeFails(c) \/ IdleDispose(c) \/ UserRequest(c)

StartStep(c) ==
    \/ LookUp(c) \/ StartFails(c) \/ RefuseRegister(c) \/ Register(c)
    \/ \E s \in Servers : Spawn(c, s)

KeyStep(k) == LspStop(k) \/ ReaperTakes(k)

ServerStep(s) ==
    \/ HearExit(s) \/ GrowIdle(s) \/ Crash(s) \/ TerminateChild(s)
    \/ ReaderEnds(s) \/ DropSession(s)

Next ==
    \/ \E c \in Clients : FrontEndStep(c) \/ StartStep(c)
    \/ \E k \in Keys : KeyStep(k)
    \/ \E s \in Servers : ServerStep(s)
    \/ \E p \in Projects : RemoveProject(p) \/ StopProjectSessions(p)
    \/ ReaperLooks \/ ShutDown \/ Drain \/ Reload

Spec == Init /\ [][Next]_vars

-----------------------------------------------------------------------------
(* Safety. *)

\* Every server that runs unhindered is registered or about to be: no path
\* (replacement, eviction, refusal, stop) loses one (LspSession's Drop, "the
\* safety net": no child is left behind).
NoStrayServer ==
    \A s \in Servers : server[s].proc = "running" =>
        s \in Registered \/ \E c \in Clients : client[c].server = s

\* One start at a time, so a registration never replaces a session
\* (start_blocking: two overlapping starts of a key would evict the first).
StartsSerial ==
    /\ \A c, d \in Clients : Starting(c) /\ Starting(d) => c = d
    /\ \A c \in Clients : Starting(c) => sessions[client[c].key] = Nobody

\* Whatever start was on its way, nothing is registered for a removed
\* project, nor after the drain at shutdown (start_blocking looks again
\* under the registry's lock, which "closes the window").
GoneStaysGone ==
    \A k \in Keys : Gone(k[1]) \/ app = "drained" => sessions[k] = Nobody

\* At most MAX_SESSIONS servers are registered.
CapHeld == Cardinality(Registered) <= MaxSessions

\* A reader that ends late takes out no session but its own (reader_loop:
\* the key alone may belong to a new session by then).
LateReaderHarmless ==
    [][\A s \in Servers : server[s].reading /\ ~server'[s].reading =>
        \A k \in Keys : sessions[k] # s => sessions'[k] = sessions[k]]_vars

=============================================================================

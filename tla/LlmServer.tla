----------------------------- MODULE LlmServer -----------------------------
(***************************************************************************)
(* The local language model: the one llama-server process of the           *)
(* application (llm/server.rs), the chat requests of the front end         *)
(* (llm/chat.rs) and the connections of the coding agent's relay           *)
(* (llm/relay.rs) that use it, the idle reaper, the user's stop, and what  *)
(* the shutdown of the application (lib.rs) does about it.                 *)
(*                                                                         *)
(* A caller looks for a usable server, takes an unusable one out of the    *)
(* registry and kills it, spawns its own, waits for it and registers it.   *)
(* Each of these is a step: the registry's lock is never held across two.  *)
(* A chat is a future that can be dropped wherever it awaits; a relay      *)
(* connection is a thread and runs to its end.                             *)
(***************************************************************************)
EXTENDS Naturals, FiniteSets

CONSTANTS
    Chats,          \* chat requests, by the request id the front end made up
    Conns,          \* connections accepted by the relay
    Servers,        \* llama-server processes
    Models,         \* model ids
    SettingsValues, \* what the settings form can save
    AgentCtx,       \* AGENT_MIN_CTX
    MaxConns,       \* MAX_CONNS
    HasCpuBuild,    \* acquire::cpu_spec: the platform has a fallback
    ShutsDown,      \* bound: whether the application shuts down at all
    Nobody          \* no server, no request

ASSUME CallersAssumption == /\ Chats \cap Conns = {}
                            /\ Nobody \notin Chats \cup Conns \cup Servers
ASSUME ConnsAssumption == IsFiniteSet(Conns)
ASSUME SettingsAssumption ==
    SettingsValues \subseteq [external : BOOLEAN, model : Models, ctx : Nat,
                              backend : {"auto", "cpu"}]
ASSUME BoundsAssumption == AgentCtx \in Nat /\ MaxConns \in Nat \ {0}
                           /\ HasCpuBuild \in BOOLEAN /\ ShutsDown \in BOOLEAN

VARIABLES
    settings, \* AppState.settings, the fields ensure_server_ctx reads
    registry, \* AppState.llm: the registered server
    server,   \* the processes, and what their LlmSession records
    call,     \* the chats and connections
    inflight, \* AppState.llm_inflight: the chat that occupies the slot
    aborted,  \* the chats whose AbortHandle was triggered
    asked,    \* history: the chats the front end asked to cancel
    conns,    \* CONNS
    reaper,   \* the idle reaper's thread
    doomed,   \* servers taken out of the registry by threads nobody awaits
    exit      \* shutdown_children and the end of the process

vars == <<settings, registry, server, call, inflight, aborted, asked, conns,
          reaper, doomed, exit>>

Callers == Chats \cup Conns

Unborn == [life |-> "none", ready |-> FALSE, model |-> Nobody, ctx |-> 0,
           idle |-> FALSE]

Fresh == [pc |-> "new", model |-> Nobody, ctx |-> 0, backend |-> "auto",
          server |-> Nobody]

\* The points where a chat's future awaits, and so where it can be dropped.
Awaiting == {"ensure", "wait", "install", "request"}
Working == Awaiting \cup {"take", "kill", "start", "register"}
Ended == {"done", "failed", "busy", "refused", "cancelled", "timeout"}

Alive(s) == s # Nobody /\ server[s].life = "alive"

Up == exit.pc # "gone"

Killed(S) == [s \in Servers |-> IF s \in S THEN [server[s] EXCEPT !.life = "dead"]
                                ELSE server[s]]

\* touch: the registered server's idle timer starts again.
Touched(s) == IF s = Nobody THEN server ELSE [server EXCEPT ![s].idle = FALSE]

Greater(a, b) == IF a > b THEN a ELSE b

-----------------------------------------------------------------------------
(* Admission. *)

\* The front end invokes llm_chat; the runtime gets to it later.
Invoke(c) ==
    /\ Up /\ c \in Chats /\ call[c].pc = "new"
    /\ call' = [call EXCEPT ![c].pc = "sent"]
    /\ UNCHANGED <<settings, registry, server, inflight, aborted, asked, conns,
                   reaper, doomed, exit>>

\* Mutation: the slot is not tested.
AdmitChatAlways(c) ==
    /\ Up /\ c \in Chats /\ call[c].pc = "sent"
    /\ call' = [call EXCEPT ![c].pc = "ensure"] /\ inflight' = c
    /\ UNCHANGED <<settings, registry, server, aborted, asked, conns, reaper,
                   doomed, exit>>

\* llm_chat: a second request is BUSY, the first takes the slot.
AdmitChat(c) ==
    /\ Up /\ c \in Chats /\ call[c].pc = "sent"
    /\ IF inflight # Nobody
       THEN call' = [call EXCEPT ![c].pc = "busy"] /\ UNCHANGED inflight
       ELSE call' = [call EXCEPT ![c].pc = "ensure"] /\ inflight' = c
    /\ UNCHANGED <<settings, registry, server, aborted, asked, conns, reaper,
                   doomed, exit>>

\* Mutation: a refused connection is not counted back.
AdmitConnLeaky(c) ==
    /\ Up /\ c \in Conns /\ call[c].pc = "new"
    /\ conns' = conns + 1
    /\ call' = [call EXCEPT ![c].pc = IF conns >= MaxConns THEN "refused" ELSE "ensure"]
    /\ UNCHANGED <<settings, registry, server, inflight, aborted, asked,
                   reaper, doomed, exit>>

\* accept_loop: one thread accepts, and nobody else reads the counter, so that
\* counting a connection, testing and taking a refused one back is one step.
AdmitConn(c) ==
    /\ Up /\ c \in Conns /\ call[c].pc = "new"
    /\ IF conns >= MaxConns
       THEN call' = [call EXCEPT ![c].pc = "refused"] /\ UNCHANGED conns
       ELSE call' = [call EXCEPT ![c].pc = "ensure"] /\ conns' = conns + 1
    /\ UNCHANGED <<settings, registry, server, inflight, aborted, asked,
                   reaper, doomed, exit>>

\* Mutation: the slot is only given back by an answer.
EndForgetful(c, outcome) ==
    /\ call' = [call EXCEPT ![c] = [Fresh EXCEPT !.pc = outcome]]
    /\ inflight' = IF inflight = c /\ outcome = "done" THEN Nobody ELSE inflight
    /\ conns' = IF c \in Conns THEN conns - 1 ELSE conns

\* The guards of a caller: InflightGuard clears its own request, ConnGuard
\* counts its connection back.
End(c, outcome) ==
    /\ call' = [call EXCEPT ![c] = [Fresh EXCEPT !.pc = outcome]]
    /\ inflight' = IF inflight = c THEN Nobody ELSE inflight
    /\ conns' = IF c \in Conns THEN conns - 1 ELSE conns

-----------------------------------------------------------------------------
(* ensure_server_ctx. *)

\* A chat may name its model, a connection takes the settings'; a connection
\* needs the agent's context.
MayWant(c, m) == m = settings.model \/ c \in Chats
WantedCtx(c) == IF c \in Conns THEN Greater(settings.ctx, AgentCtx) ELSE settings.ctx

\* An external server is no process of ours.
UseExternal(c) ==
    /\ Up /\ call[c].pc = "ensure" /\ settings.external
    /\ call' = [call EXCEPT ![c].pc = "request"]
    /\ server' = Touched(registry)
    /\ UNCHANGED <<settings, registry, inflight, aborted, asked, conns, reaper,
                   doomed, exit>>

\* Mutation: the context is not compared.
CanReuseAnyCtx(s, m, ctx) == Alive(s) /\ server[s].ready /\ server[s].model = m

\* can_reuse, alive and ready.
CanReuse(s, m, ctx) == /\ Alive(s) /\ server[s].ready
                       /\ server[s].model = m /\ server[s].ctx >= ctx

Want(c, m, pc, s) ==
    call' = [call EXCEPT ![c] = [pc |-> pc, model |-> m, ctx |-> WantedCtx(c),
                                 backend |-> settings.backend, server |-> s]]

Reuse(c, m) ==
    /\ Up /\ call[c].pc = "ensure" /\ ~settings.external /\ MayWant(c, m)
    /\ CanReuse(registry, m, WantedCtx(c))
    /\ Want(c, m, "request", registry)
    /\ server' = Touched(registry)
    /\ UNCHANGED <<settings, registry, inflight, aborted, asked, conns, reaper,
                   doomed, exit>>

\* No usable server.
Miss(c, m) ==
    /\ Up /\ call[c].pc = "ensure" /\ ~settings.external /\ MayWant(c, m)
    /\ ~CanReuse(registry, m, WantedCtx(c))
    /\ Want(c, m, "take", Nobody)
    /\ UNCHANGED <<settings, registry, server, inflight, aborted, asked, conns,
                   reaper, doomed, exit>>

\* The stale server leaves the registry, whatever it has become by now.
TakeStale(c) ==
    /\ Up /\ call[c].pc = "take"
    /\ registry' = Nobody
    /\ call' = [call EXCEPT ![c].pc = IF registry = Nobody THEN "start" ELSE "kill",
                            ![c].server = registry]
    /\ UNCHANGED <<settings, server, inflight, aborted, asked, conns, reaper,
                   doomed, exit>>

\* terminate: killed and waited for, outside the lock.
KillStale(c) ==
    /\ Up /\ call[c].pc = "kill"
    /\ server' = Killed({call[c].server})
    /\ call' = [call EXCEPT ![c].pc = "start", ![c].server = Nobody]
    /\ UNCHANGED <<settings, registry, inflight, aborted, asked, conns, reaper,
                   doomed, exit>>

\* The processes the program still refers to.
Referenced == {registry, reaper.server, exit.server} \cup doomed
              \cup {call[c].server : c \in Callers}

Spawn(c, s) ==
    /\ Up /\ call[c].pc = "start" /\ ~Alive(s) /\ s \notin Referenced
    /\ server' = [server EXCEPT ![s] =
           [Unborn EXCEPT !.life = "alive", !.model = call[c].model,
                          !.ctx = call[c].ctx]]
    /\ call' = [call EXCEPT ![c].pc = "wait", ![c].server = s]
    /\ UNCHANGED <<settings, registry, inflight, aborted, asked, conns, reaper,
                   doomed, exit>>

\* resolve_model refused the model or the address; memory_shortfall,
\* installed_server, free_port or the spawn refused the start; or the CPU
\* build could not be installed.
StartFails(c) ==
    /\ Up /\ call[c].pc \in {"ensure", "start", "install"}
    /\ End(c, "failed")
    /\ UNCHANGED <<settings, registry, server, aborted, asked, reaper, doomed,
                   exit>>

\* wait_ready: /health answered.
BecomeReady(c) ==
    /\ Up /\ call[c].pc = "wait" /\ Alive(call[c].server)
    /\ server' = [server EXCEPT ![call[c].server].ready = TRUE]
    /\ call' = [call EXCEPT ![c].pc = "register"]
    /\ UNCHANGED <<settings, registry, inflight, aborted, asked, conns, reaper,
                   doomed, exit>>

\* Mutation: the replaced session is leaked instead of dropped.
RegisterLeaky(c) ==
    /\ Up /\ call[c].pc = "register"
    /\ registry' = call[c].server
    /\ server' = [server EXCEPT ![call[c].server].idle = FALSE]
    /\ call' = [call EXCEPT ![c].pc = "request"]
    /\ UNCHANGED <<settings, inflight, aborted, asked, conns, reaper, doomed, exit>>

\* The session replaces whatever is registered, which drops and kills it.
Register(c) ==
    /\ Up /\ call[c].pc = "register"
    /\ registry' = call[c].server
    /\ server' = [Killed({registry} \ {Nobody})
                     EXCEPT ![call[c].server].idle = FALSE]
    /\ call' = [call EXCEPT ![c].pc = "request"]
    /\ UNCHANGED <<settings, inflight, aborted, asked, conns, reaper, doomed, exit>>

\* should_fallback_to_cpu: only a server that died or did not even spawn, for a
\* caller that read "auto", on a platform with a CPU build.
FallsBack(c) == /\ HasCpuBuild /\ call[c].backend = "auto"
                /\ ~Alive(call[c].server)

\* The load timed out, or the process died: the session is dropped.
WaitFails(c) ==
    /\ Up /\ call[c].pc = "wait"
    /\ server' = Killed({call[c].server})
    /\ End(c, "failed")
    /\ UNCHANGED <<settings, registry, aborted, asked, reaper, doomed, exit>>

TryCpu(c) ==
    /\ Up /\ call[c].pc \in {"start", "wait"} /\ FallsBack(c)
    /\ call' = [call EXCEPT ![c].pc = "install", ![c].server = Nobody]
    /\ UNCHANGED <<settings, registry, server, inflight, aborted, asked, conns,
                   reaper, doomed, exit>>

\* ensure_runtime succeeded: the choice is saved and the start tried again.
CpuInstalled(c) ==
    /\ Up /\ call[c].pc = "install"
    /\ settings' = [settings EXCEPT !.backend = "cpu"]
    /\ call' = [call EXCEPT ![c].pc = "start", ![c].backend = "cpu"]
    /\ UNCHANGED <<registry, server, inflight, aborted, asked, conns, reaper,
                   doomed, exit>>

-----------------------------------------------------------------------------
(* The request itself. *)

\* A token, or a chunk of the relayed answer: whatever server is registered is
\* touched, not necessarily the one that answers.
Token(c) ==
    /\ Up /\ call[c].pc = "request"
    /\ call[c].server # Nobody => Alive(call[c].server)
    /\ server' = Touched(registry)
    /\ UNCHANGED <<settings, registry, call, inflight, aborted, asked, conns,
                   reaper, doomed, exit>>

Answer(c) ==
    /\ Up /\ call[c].pc = "request"
    /\ call[c].server # Nobody => Alive(call[c].server)
    /\ End(c, "done")
    /\ UNCHANGED <<settings, registry, server, aborted, asked, reaper, doomed,
                   exit>>

\* The server refused, went away, or the agent closed the connection.
RequestFails(c) ==
    /\ Up /\ call[c].pc = "request"
    /\ End(c, "failed")
    /\ UNCHANGED <<settings, registry, server, aborted, asked, reaper, doomed,
                   exit>>

\* Mutation: whoever holds the slot is cancelled.
CancelAnyone(c) ==
    /\ Up /\ c \in Chats /\ call[c].pc # "new" /\ c \notin asked
    /\ asked' = asked \cup {c}
    /\ aborted' = IF inflight # Nobody THEN aborted \cup {inflight} ELSE aborted
    /\ UNCHANGED <<settings, registry, server, call, inflight, conns, reaper,
                   doomed, exit>>

\* llm_cancel: aborts the request in the slot if it is the one meant.  It may
\* come before llm_chat took the slot, or after the request ended.
Cancel(c) ==
    /\ Up /\ c \in Chats /\ call[c].pc # "new" /\ c \notin asked
    /\ asked' = asked \cup {c}
    /\ aborted' = IF inflight = c THEN aborted \cup {c} ELSE aborted
    /\ UNCHANGED <<settings, registry, server, call, inflight, conns, reaper,
                   doomed, exit>>

\* The abort or REQUEST_TIMEOUT drops the future where it awaits; a session it
\* has started and not yet registered is dropped, and killed, with it.
DropFuture(c, outcome) ==
    /\ Up /\ c \in Chats /\ call[c].pc \in Awaiting
    /\ outcome = "cancelled" => c \in aborted
    /\ server' = Killed(IF call[c].pc = "wait" THEN {call[c].server} ELSE {})
    /\ End(c, outcome)
    /\ UNCHANGED <<settings, registry, aborted, asked, reaper, doomed, exit>>

-----------------------------------------------------------------------------
(* The other threads. *)

\* IDLE_TIMEOUT passes without a touch.  A chat's REQUEST_TIMEOUT started
\* before its server was touched and is no longer, so it has ended by then.
GrowIdle ==
    /\ Up /\ registry # Nobody /\ ~server[registry].idle
    /\ \A c \in Chats : ~(call[c].pc = "request" /\ call[c].server = registry)
    /\ server' = [server EXCEPT ![registry].idle = TRUE]
    /\ UNCHANGED <<settings, registry, call, inflight, aborted, asked, conns,
                   reaper, doomed, exit>>

\* llm_spawn_idle_reaper: it looks under the lock and takes under the lock,
\* but the lock is free in between.
ReaperLooks ==
    /\ Up /\ reaper.pc = "sleep" /\ registry # Nobody /\ server[registry].idle
    /\ reaper' = [reaper EXCEPT !.pc = "take"]
    /\ UNCHANGED <<settings, registry, server, call, inflight, aborted, asked,
                   conns, doomed, exit>>

\* Mutation: the thread returns when the server it saw is no longer there.
ReaperTakesOrEnds ==
    /\ Up /\ reaper.pc = "take"
    /\ registry' = Nobody
    /\ reaper' = [pc |-> IF registry = Nobody THEN "ended" ELSE "kill",
                  server |-> registry]
    /\ UNCHANGED <<settings, server, call, inflight, aborted, asked, conns,
                   doomed, exit>>

ReaperTakes ==
    /\ Up /\ reaper.pc = "take"
    /\ registry' = Nobody
    /\ reaper' = [pc |-> IF registry = Nobody THEN "sleep" ELSE "kill",
                  server |-> registry]
    /\ UNCHANGED <<settings, server, call, inflight, aborted, asked, conns,
                   doomed, exit>>

ReaperKills ==
    /\ Up /\ reaper.pc = "kill"
    /\ server' = Killed({reaper.server})
    /\ reaper' = [pc |-> "sleep", server |-> Nobody]
    /\ UNCHANGED <<settings, registry, call, inflight, aborted, asked, conns,
                   doomed, exit>>

\* llm_stop, or stop_if_model before a model's file is deleted.
StopServer ==
    /\ Up /\ registry # Nobody
    /\ registry' = Nobody
    /\ doomed' = doomed \cup {registry}
    /\ UNCHANGED <<settings, server, call, inflight, aborted, asked, conns,
                   reaper, exit>>

Terminate(s) ==
    /\ Up /\ s \in doomed
    /\ doomed' = doomed \ {s}
    /\ server' = Killed({s})
    /\ UNCHANGED <<settings, registry, call, inflight, aborted, asked, conns,
                   reaper, exit>>

\* A process ends by itself: a crash, or the system reclaims its memory.
Crash(s) ==
    /\ Alive(s)
    /\ server' = Killed({s})
    /\ UNCHANGED <<settings, registry, call, inflight, aborted, asked, conns,
                   reaper, doomed, exit>>

\* set_settings: the form saves all of its fields.
SaveSettings(v) ==
    /\ Up /\ v # settings
    /\ settings' = v
    /\ UNCHANGED <<registry, server, call, inflight, aborted, asked, conns,
                   reaper, doomed, exit>>

\* llm_kill_all, called once by shutdown_children, waits for the kill.
KillAllTakes ==
    /\ exit.pc = "up" /\ ShutsDown
    /\ registry' = Nobody
    /\ exit' = [pc |-> "killing", server |-> registry]
    /\ UNCHANGED <<settings, server, call, inflight, aborted, asked, conns,
                   reaper, doomed>>

KillAllKills ==
    /\ exit.pc = "killing"
    /\ server' = Killed({exit.server} \ {Nobody})
    /\ exit' = [pc |-> "killed", server |-> Nobody]
    /\ UNCHANGED <<settings, registry, call, inflight, aborted, asked, conns,
                   reaper, doomed>>

\* The process ends and no destructor runs.
Gone ==
    /\ exit.pc = "killed"
    /\ exit' = [exit EXCEPT !.pc = "gone"]
    /\ UNCHANGED <<settings, registry, server, call, inflight, aborted, asked,
                   conns, reaper, doomed>>

-----------------------------------------------------------------------------
Init ==
    /\ settings \in SettingsValues
    /\ registry = Nobody
    /\ server = [s \in Servers |-> Unborn]
    /\ call = [c \in Callers |-> Fresh]
    /\ inflight = Nobody
    /\ aborted = {}
    /\ asked = {}
    /\ conns = 0
    /\ reaper = [pc |-> "sleep", server |-> Nobody]
    /\ doomed = {}
    /\ exit = [pc |-> "up", server |-> Nobody]

\* What a caller does without waiting for anybody.
Proceed(c) ==
    \/ AdmitChat(c) \/ AdmitConn(c)
    \/ \E m \in Models : Reuse(c, m) \/ Miss(c, m)
    \/ UseExternal(c) \/ TakeStale(c) \/ KillStale(c)
    \/ (\E s \in Servers : Spawn(c, s)) \/ StartFails(c) \/ TryCpu(c)
    \/ Register(c)

\* What it waits for.
Hear(c) == \/ BecomeReady(c) \/ WaitFails(c) \/ CpuInstalled(c)
           \/ Token(c) \/ Answer(c) \/ RequestFails(c)

CallStep(c) == \/ Invoke(c) \/ Proceed(c) \/ Hear(c) \/ Cancel(c)
               \/ \E outcome \in {"cancelled", "timeout"} : DropFuture(c, outcome)

ReaperStep == ReaperLooks \/ ReaperTakes \/ ReaperKills

Next ==
    \/ \E c \in Callers : CallStep(c)
    \/ GrowIdle \/ ReaperStep \/ StopServer
    \/ \E s \in Servers : Terminate(s) \/ Crash(s)
    \/ \E v \in SettingsValues : SaveSettings(v)
    \/ KillAllTakes \/ KillAllKills \/ Gone

\* The runtime runs what is ready, timers fire, and the reaper keeps polling.
Fairness ==
    /\ \A c \in Callers : WF_vars(Proceed(c))
    /\ \A c \in Chats : WF_vars(DropFuture(c, "timeout"))
    /\ WF_vars(ReaperStep)

Spec == Init /\ [][Next]_vars /\ Fairness

-----------------------------------------------------------------------------
Lifes == {"none", "alive", "dead"}

\* The connection count, above all, stays between zero and MAX_CONNS.
TypeOK ==
    /\ settings \in [external : BOOLEAN, model : Models, ctx : Nat,
                     backend : {"auto", "cpu"}]
    /\ registry \in Servers \cup {Nobody}
    /\ server \in [Servers -> [life : Lifes, ready : BOOLEAN, ctx : Nat,
                       model : Models \cup {Nobody}, idle : BOOLEAN]]
    /\ call \in [Callers -> [pc : {"new", "sent"} \cup Working \cup Ended,
                     model : Models \cup {Nobody}, ctx : Nat,
                     backend : {"auto", "cpu"}, server : Servers \cup {Nobody}]]
    /\ inflight \in Chats \cup {Nobody}
    /\ aborted \subseteq Chats /\ asked \subseteq Chats
    /\ conns \in 0..MaxConns
    /\ reaper \in [pc : {"sleep", "take", "kill"}, server : Servers \cup {Nobody}]
    /\ doomed \subseteq Servers
    /\ exit \in [pc : {"up", "killing", "killed", "gone"},
                 server : Servers \cup {Nobody}]

\* A server in use is registered, or its starter waits for it.
Kept(s) == \/ registry = s
           \/ \E c \in Callers : call[c].server = s /\ call[c].pc \in {"wait", "register"}

\* Somebody has taken it and is about to kill it.
Condemned(s) == \/ s \in doomed \cup {reaper.server, exit.server}
                \/ \E c \in Callers : call[c].server = s /\ call[c].pc = "kill"

\* No path - an error, a time-out, a cancel, a replacement - leaves a server
\* running that nobody would ever stop.
NoStrayServer == Up => \A s \in Servers : Alive(s) => Kept(s) \/ Condemned(s)

\* The slot names the one chat that is being worked on, on every path.
OneChat == {c \in Chats : call[c].pc \in Working} = {inflight} \ {Nobody}

\* A request is only cancelled when the front end cancelled that request: a
\* late cancel does not hit the next one.
CancelledOnlyIfAsked == \A c \in Chats : call[c].pc = "cancelled" => c \in asked

\* Every connection is counted once and given back once.
ConnsCounted == conns = Cardinality({c \in Conns : call[c].pc \in Working})

\* The server a caller talks to has the model and at least the context the
\* caller asked for: the agent never meets a server with a chat's context.
EndpointFits ==
    \A c \in Callers : LET s == call[c].server
                       IN call[c].pc = "request" /\ s # Nobody =>
                              server[s].model = call[c].model /\ server[s].ctx >= call[c].ctx

\* ensure_server_ctx: as long as only chats start servers, one at a time, what
\* it takes out and kills is dead, not ready or has another model or context.
TakesOnlyStale ==
    [][\A c \in Callers :
        call[c].pc = "take" /\ call'[c].pc = "kill"
            => ~CanReuse(registry, call[c].model, call[c].ctx)]_vars

\* llm_kill_all: no server is orphaned by the end of the application.
NothingOutlivesApp == ~Up => \A s \in Servers : ~Alive(s)

\* However a chat goes, the slot is free for the next one.
SlotFreed == \A c \in Chats : (inflight = c) ~> (inflight # c \/ ~Up)

\* An idle server is used again or taken down.
IdleReaped ==
    \A s \in Servers :
        (registry = s /\ server[s].idle) ~> (registry # s \/ ~server[s].idle \/ ~Up)
=============================================================================

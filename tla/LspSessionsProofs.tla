------------------------- MODULE LspSessionsProofs -------------------------
(***************************************************************************)
(* Proofs about LspSessions for every number of projects, languages,       *)
(* session objects and servers: starts are serial, no server is lost,      *)
(* nothing is registered for what is gone, late readers do no harm,        *)
(* MAX_SESSIONS is never exceeded, and START_LOCK is a lock.               *)
(*                                                                         *)
(* Only the limit depends on the order in which sessions are evicted: lru  *)
(* is a strict total order of the registered keys, so keys that stay are   *)
(* told apart by how many were used after them, and at most MAX_SESSIONS   *)
(* numbers are to be had.                                                  *)
(***************************************************************************)
EXTENDS LspSessions, FiniteSetTheorems, TLAPS

ServerType == [key : Keys \cup {Nobody}, proc : {"none", "running", "dying", "dead"},
               reading : BOOLEAN, sink : Clients \cup {Nobody}]
ClientType == [key : Keys \cup {Nobody},
               pc : {"none", "waiting", "resolving", "spawned", "failed", "init", "ready"},
               server : Servers \cup {Nobody}]

Types ==
    /\ listed \subseteq Projects
    /\ sessions \in [Keys -> Servers \cup {Nobody}]
    /\ server \in [Servers -> ServerType]
    /\ client \in [Clients -> ClientType]

\* Every object in use has a key; the server is the caller's only
\* between the spawn and the registration.
CallsOk ==
    \A c \in Clients :
        /\ client[c].pc # "none" => client[c].key \in Keys
        /\ client[c].pc = "spawned" <=> client[c].server # Nobody

IInv == Types /\ CallsOk /\ NoStrayServer /\ StartsSerial /\ GoneStaysGone

-----------------------------------------------------------------------------
(* What the operators change. *)

LEMMA NobodyIs == Nobody \notin Clients /\ Nobody \notin Servers
  BY NobodyAssumption

\* Terminated servers run no more; the others are as they were.
LEMMA TerminatedIs ==
    ASSUME Types, NEW S
    PROVE  /\ Terminated(S) \in [Servers -> ServerType]
           /\ \A s \in Servers : Terminated(S)[s].proc = "running"
                                 => s \notin S /\ server[s].proc = "running"
           /\ \A s \in Servers : Terminated(S)[s].reading = server[s].reading
  <1>1. ASSUME NEW s \in Servers
        PROVE  /\ [server[s] EXCEPT !.proc = "dying"] \in ServerType
               /\ [server[s] EXCEPT !.proc = "dying"].proc = "dying"
               /\ [server[s] EXCEPT !.proc = "dying"].reading = server[s].reading
    BY DEF Types, ServerType
  <1>2. \A s \in Servers : server[s] \in ServerType
    BY DEF Types
  <1> QED BY <1>1, <1>2 DEF Terminated

\* The call of c ends: c starts nothing any more and owns no server.
LEMMA ReturnIs ==
    ASSUME Types, CallsOk, NEW c \in Clients, NEW pc \in {"init", "failed"}, Return(c, pc)
    PROVE  /\ client' \in [Clients -> ClientType]
           /\ \A d \in Clients \ {c} : client'[d] = client[d]
           /\ client'[c].pc \in {"none", "init", "failed"} /\ client'[c].server = Nobody
           /\ client'[c].pc # "none" => client'[c].key \in Keys
  <1> DEFINE n == IF Live(c) THEN [key |-> client[c].key, pc |-> pc, server |-> Nobody]
                  ELSE NoClient
  <1>1. client[c].key \in Keys \cup {Nobody}
    BY DEF Types, ClientType
  <1>2. n \in ClientType /\ n.pc \in {"none", "init", "failed"} /\ n.server = Nobody
        /\ (n.pc # "none" => n.key \in Keys)
    BY <1>1 DEF ClientType, NoClient, Live
  <1>3. client' = [client EXCEPT ![c] = n]
    BY DEF Return, Types
  <1> HIDE DEF n
  <1> QED BY <1>2, <1>3 DEF Types

\* Sessions leave the registry with their servers terminated.
LEMMA RemoveKeeps ==
    ASSUME IInv, NEW K, Remove(K), UNCHANGED client,
           listed' \subseteq Projects,
           \A k \in Keys : (Gone(k[1]) \/ app = "drained")' =>
                Gone(k[1]) \/ app = "drained" \/ k \in K
    PROVE  IInv'
  <1> DEFINE out == {sessions[k] : k \in K}
  <1>1. /\ sessions' = [k \in Keys |-> IF k \in K THEN Nobody ELSE sessions[k]]
        /\ server' = Terminated(out)
    BY DEF Remove
  <1>2. /\ server' \in [Servers -> ServerType]
        /\ \A s \in Servers : server'[s].proc = "running"
                              => s \notin out /\ server[s].proc = "running"
    BY <1>1, TerminatedIs DEF IInv
  <1>3. Types' /\ CallsOk'
    BY <1>1, <1>2 DEF IInv, Types, CallsOk
  <1>4. NoStrayServer'
    <2> SUFFICES ASSUME NEW s \in Servers, server'[s].proc = "running",
                        \A c \in Clients : client'[c].server # s
                 PROVE  s \in Registered'
      BY DEF NoStrayServer
    <2>1. s \in Registered /\ s \notin out
      BY <1>2 DEF IInv, NoStrayServer
    <2>2. PICK k \in Keys : sessions[k] = s
      BY <2>1 DEF Registered
    <2>3. sessions'[k] = s
      BY <1>1, <2>1, <2>2
    <2> QED BY <2>3, NobodyIs DEF Registered
  <1>5. StartsSerial'
    BY <1>1, <1>3 DEF IInv, StartsSerial, Starting, CallsOk
  <1>6. GoneStaysGone'
    BY <1>1 DEF IInv, GoneStaysGone
  <1> QED BY <1>3, <1>4, <1>5, <1>6 DEF IInv

\* Steps that change the session objects and who listens, but no registration.
LEMMA ListenersKeep ==
    ASSUME IInv, UNCHANGED <<lifetimes, sessions>>, Types', CallsOk',
           \A s \in Servers : server'[s].proc = "running" => server[s].proc = "running",
           \A c \in Clients : client'[c].server = client[c].server,
           \A c \in Clients : client'[c].pc \in {"resolving", "spawned"}
                => client'[c] = client[c]
    PROVE  IInv'
  <1>1. NoStrayServer'
    BY DEF IInv, NoStrayServer, Registered
  <1>2. StartsSerial'
    BY DEF IInv, StartsSerial, Starting
  <1>3. GoneStaysGone'
    BY DEF IInv, GoneStaysGone, Gone, lifetimes
  <1> QED BY <1>1, <1>2, <1>3 DEF IInv

LEMMA DisposeKeeps ==
    ASSUME IInv, NEW C, Dispose(C), UNCHANGED <<lifetimes, sessions>>
    PROVE  IInv'
  <1>1. /\ client' = [c \in Clients |->
                 IF c \in C /\ client[c].pc \notin {"waiting", "resolving", "spawned"}
                 THEN NoClient ELSE client[c]]
        /\ server' = [s \in Servers |-> IF server[s].sink \in C
                                        THEN [server[s] EXCEPT !.sink = Nobody] ELSE server[s]]
    BY DEF Dispose
  <1>2. NoClient \in ClientType /\ NoClient.pc = "none" /\ NoClient.server = Nobody
    BY DEF NoClient, ClientType
  <1>3. \A c \in Clients : client'[c] \in {NoClient, client[c]}
        /\ (client'[c] = NoClient => client[c].pc # "spawned" \/ client[c] = NoClient)
    BY <1>1
  <1>4. \A c \in Clients : client[c] \in ClientType /\ client'[c] \in ClientType
    BY <1>2, <1>3 DEF IInv, Types
  <1>5. \A s \in Servers : server'[s] \in ServerType /\ server'[s].proc = server[s].proc
    <2> TAKE s \in Servers
    <2>1. server[s] \in ServerType
      BY DEF IInv, Types
    <2> QED BY <1>1, <2>1 DEF ServerType
  <1>6. Types'
    BY <1>1, <1>4, <1>5 DEF IInv, Types, lifetimes
  <1>7. CallsOk'
    BY <1>2, <1>3 DEF IInv, CallsOk
  <1>8. \A c \in Clients : client'[c].server = client[c].server
    BY <1>2, <1>3 DEF IInv, CallsOk
  <1>9. \A c \in Clients : client'[c].pc \in {"resolving", "spawned"} => client'[c] = client[c]
    BY <1>2, <1>3
  <1> QED BY <1>5, <1>6, <1>7, <1>8, <1>9, ListenersKeep

-----------------------------------------------------------------------------
(* The front end. *)

LEMMA FrontEndKeeps ==
    ASSUME IInv, NEW c \in Clients, FrontEndStep(c) PROVE IInv'
  <1>1. ASSUME NEW k \in Keys, OpenDoc(c, k) PROVE IInv'
    <2> DEFINE n == [key |-> k, pc |-> "waiting", server |-> Nobody]
    <2>1. client' = [client EXCEPT ![c] = n] /\ client[c] = NoClient
          /\ UNCHANGED <<lifetimes, sessions, server>>
      BY <1>1 DEF OpenDoc, registry
    <2>2. n \in ClientType /\ n.pc = "waiting" /\ n.server = Nobody /\ n.key \in Keys
      BY DEF ClientType
    <2>3. NoClient.server = Nobody
      BY DEF NoClient
    <2> HIDE DEF n
    <2>4. client'[c] = n /\ \A d \in Clients \ {c} : client'[d] = client[d]
      BY <2>1 DEF IInv, Types
    <2>5. Types' /\ CallsOk'
      BY <2>1, <2>2, <2>4 DEF IInv, Types, CallsOk, lifetimes
    <2>6. \A d \in Clients : /\ client'[d].server = client[d].server
                             /\ client'[d].pc \in {"resolving", "spawned"} => client'[d] = client[d]
      BY <2>1, <2>2, <2>3, <2>4
    <2> QED BY <2>1, <2>5, <2>6, ListenersKeep
  <1>2. CASE Initialized(c)
    <2> DEFINE n == [client[c] EXCEPT !.pc = "ready"]
    <2>1. client' = [client EXCEPT ![c] = n] /\ client[c].pc = "init"
          /\ UNCHANGED <<lifetimes, sessions, server>>
      BY <1>2 DEF Initialized, registry, IInv, Types
    <2>2. n \in ClientType /\ n.pc = "ready" /\ n.server = client[c].server
          /\ n.key = client[c].key
      BY DEF IInv, Types, ClientType
    <2> HIDE DEF n
    <2>4. client'[c] = n /\ \A d \in Clients \ {c} : client'[d] = client[d]
      BY <2>1 DEF IInv, Types
    <2>5. Types' /\ CallsOk'
      BY <2>1, <2>2, <2>4 DEF IInv, Types, CallsOk, lifetimes
    <2>6. \A d \in Clients : /\ client'[d].server = client[d].server
                             /\ client'[d].pc \in {"resolving", "spawned"} => client'[d] = client[d]
      BY <2>1, <2>2, <2>4
    <2> QED BY <2>1, <2>5, <2>6, ListenersKeep
  <1>3. CASE InitializeFails(c) \/ IdleDispose(c)
    BY <1>3, DisposeKeeps DEF InitializeFails, IdleDispose, DisposeAndStop, registry
  <1>4. CASE UserRequest(c)
    <2>1. UNCHANGED <<lifetimes, sessions, server, client>>
      BY <1>4 DEF UserRequest, frontEnd
    <2>2. Types' /\ CallsOk'
      BY <2>1 DEF IInv, Types, CallsOk, lifetimes
    <2> QED BY <2>1, <2>2, ListenersKeep
  <1> QED BY <1>1, <1>2, <1>3, <1>4 DEF FrontEndStep

-----------------------------------------------------------------------------
(* Starting a server. *)

\* The call of c ends without a registration; the servers that stop running
\* include its own.
LEMMA ReturnKeeps ==
    ASSUME IInv, NEW c \in Clients, NEW pc \in {"init", "failed"}, Return(c, pc),
           UNCHANGED <<lifetimes, sessions>>, server' \in [Servers -> ServerType],
           \A s \in Servers : server'[s].proc = "running"
                => server[s].proc = "running" /\ client[c].server # s
    PROVE  IInv'
  <1>1. /\ client' \in [Clients -> ClientType]
        /\ \A d \in Clients \ {c} : client'[d] = client[d]
        /\ client'[c].pc \in {"none", "init", "failed"} /\ client'[c].server = Nobody
        /\ client'[c].pc # "none" => client'[c].key \in Keys
    BY ReturnIs DEF IInv
  <1>2. Types' /\ CallsOk'
    BY <1>1 DEF IInv, Types, CallsOk, lifetimes
  <1>3. NoStrayServer'
    BY <1>1 DEF IInv, NoStrayServer, Registered
  <1>4. StartsSerial'
    BY <1>1 DEF IInv, StartsSerial, Starting
  <1>5. GoneStaysGone'
    BY DEF IInv, GoneStaysGone, Gone, lifetimes
  <1> QED BY <1>2, <1>3, <1>4, <1>5 DEF IInv

LEMMA LookUpKeeps ==
    ASSUME IInv, NEW c \in Clients, LookUp(c) PROVE IInv'
  <1>0. /\ client[c].pc = "waiting" /\ client[c].key \in Keys /\ client[c].server = Nobody
        /\ UNCHANGED <<lifetimes, sessions>> /\ \A d \in Clients : ~Starting(d)
    BY DEF LookUp, IInv, CallsOk
  <1>1. CASE Reattach(c)
    <2> DEFINE s == sessions[client[c].key]
               n == [server[s] EXCEPT !.sink = Sink(c)]
    <2>1. s \in Servers /\ server' = [server EXCEPT ![s] = n] /\ Return(c, "init")
      BY <1>0, <1>1 DEF Reattach, IInv, Types
    <2>2. n \in ServerType /\ n.proc = server[s].proc
      BY <2>1 DEF IInv, Types, ServerType, Sink
    <2> HIDE DEF n, s
    <2>3. server' \in [Servers -> ServerType]
          /\ \A t \in Servers : server'[t].proc = server[t].proc
      BY <2>1, <2>2 DEF IInv, Types
    <2> QED BY <1>0, <2>1, <2>3, ReturnKeeps, NobodyIs
  <1>2. CASE LookUpProject(c) /\ client[c].key[1] \in listed
    <2> DEFINE n == [client[c] EXCEPT !.pc = "resolving"]
    <2>1. client' = [client EXCEPT ![c] = n] /\ UNCHANGED server
          /\ sessions[client[c].key] = Nobody
      BY <1>2 DEF LookUpProject, IInv, Types
    <2>2. n \in ClientType /\ n.pc = "resolving" /\ n.server = Nobody /\ n.key = client[c].key
      BY <1>0 DEF IInv, Types, ClientType
    <2> HIDE DEF n
    <2>3. client'[c] = n /\ \A d \in Clients \ {c} : client'[d] = client[d]
      BY <2>1 DEF IInv, Types
    <2>4. Types' /\ CallsOk'
      BY <1>0, <2>1, <2>2, <2>3 DEF IInv, Types, CallsOk, lifetimes
    <2>5. NoStrayServer'
      BY <1>0, <2>1, <2>2, <2>3 DEF IInv, NoStrayServer, Registered
    <2>6. StartsSerial'
      BY <1>0, <2>1, <2>2, <2>3 DEF StartsSerial, Starting
    <2>7. GoneStaysGone'
      BY <1>0 DEF IInv, GoneStaysGone, Gone, lifetimes
    <2> QED BY <2>4, <2>5, <2>6, <2>7 DEF IInv
  <1>3. CASE LookUpProject(c) /\ client[c].key[1] \notin listed
    <2>1. Return(c, "failed") /\ UNCHANGED server
      BY <1>3 DEF LookUpProject
    <2> QED BY <1>0, <2>1, ReturnKeeps, NobodyIs DEF IInv, Types
  <1> QED BY <1>1, <1>2, <1>3 DEF LookUp

LEMMA SpawnKeeps ==
    ASSUME IInv, NEW c \in Clients, NEW s \in Servers, Spawn(c, s) PROVE IInv'
  <1> DEFINE n == [client[c] EXCEPT !.pc = "spawned", !.server = s]
             p == [key |-> client[c].key, proc |-> "running", reading |-> TRUE, sink |-> Sink(c)]
  <1>0. /\ client[c].pc = "resolving" /\ client[c].key \in Keys /\ client[c].server = Nobody
        /\ UNCHANGED <<lifetimes, sessions>>
    BY DEF Spawn, registry, IInv, CallsOk
  <1>1. client' = [client EXCEPT ![c] = n] /\ server' = [server EXCEPT ![s] = p]
    BY DEF Spawn, IInv, Types
  <1>2. n \in ClientType /\ n.pc = "spawned" /\ n.server = s /\ n.key = client[c].key
    BY DEF IInv, Types, ClientType
  <1>3. p \in ServerType
    BY <1>0 DEF ServerType, Sink
  <1> HIDE DEF n, p
  <1>4. /\ client'[c] = n /\ \A d \in Clients \ {c} : client'[d] = client[d]
        /\ \A t \in Servers \ {s} : server'[t] = server[t]
    BY <1>1 DEF IInv, Types
  <1>5. Types' /\ CallsOk'
    BY <1>0, <1>1, <1>2, <1>3, <1>4, NobodyIs DEF IInv, Types, CallsOk, lifetimes
  <1>6. NoStrayServer'
    BY <1>0, <1>2, <1>4, NobodyIs DEF IInv, NoStrayServer, Registered
  <1>7. StartsSerial'
    BY <1>0, <1>2, <1>4 DEF IInv, StartsSerial, Starting
  <1>8. GoneStaysGone'
    BY <1>0 DEF IInv, GoneStaysGone, Gone, lifetimes
  <1> QED BY <1>5, <1>6, <1>7, <1>8 DEF IInv

LEMMA RefuseKeeps ==
    ASSUME IInv, NEW c \in Clients, StartFails(c) \/ RefuseRegister(c) PROVE IInv'
  <1>1. CASE StartFails(c)
    <2>1. client[c].server = Nobody /\ Return(c, "failed") /\ UNCHANGED <<lifetimes, sessions, server>>
      BY <1>1 DEF StartFails, IInv, CallsOk, registry
    <2> QED BY <2>1, ReturnKeeps, NobodyIs DEF IInv, Types
  <1>2. CASE RefuseRegister(c)
    <2>1. server' = Terminated({client[c].server}) /\ Return(c, "failed")
          /\ UNCHANGED <<lifetimes, sessions>>
      BY <1>2 DEF RefuseRegister, registry
    <2> QED BY <2>1, TerminatedIs, ReturnKeeps DEF IInv
  <1> QED BY <1>1, <1>2

LEMMA RegisterKeeps ==
    ASSUME IInv, NEW c \in Clients, Register(c) PROVE IInv'
  <1> DEFINE k == client[c].key
             out == LruVictims(NewOrder(k))
             gone == {sessions[j] : j \in out \cup {k}}
  <1>0. /\ client[c].pc = "spawned" /\ k \in Keys /\ app = "up" /\ k[1] \in listed
        /\ client[c].server \in Servers \cup {Nobody} /\ UNCHANGED lifetimes
    BY DEF Register, Insert, IInv, CallsOk, Types, ClientType
  <1>1. /\ sessions' = [j \in Keys |-> IF j = k THEN client[c].server
                                       ELSE IF j \in out THEN Nobody ELSE sessions[j]]
        /\ server' = Terminated(gone) /\ Return(c, "init")
    BY DEF Register, Insert
  <1> HIDE DEF k, out
  <1>2. /\ client' \in [Clients -> ClientType]
        /\ \A d \in Clients \ {c} : client'[d] = client[d]
        /\ client'[c].pc \in {"none", "init", "failed"} /\ client'[c].server = Nobody
        /\ client'[c].pc # "none" => client'[c].key \in Keys
    BY <1>1, ReturnIs DEF IInv
  <1>3. /\ server' \in [Servers -> ServerType]
        /\ \A s \in Servers : server'[s].proc = "running"
                              => s \notin gone /\ server[s].proc = "running"
    BY <1>1, TerminatedIs DEF IInv
  <1>4. Types' /\ CallsOk'
    BY <1>0, <1>1, <1>2, <1>3 DEF IInv, Types, CallsOk, lifetimes
  <1>5. NoStrayServer'
    <2> SUFFICES ASSUME NEW s \in Servers, server'[s].proc = "running",
                        \A d \in Clients : client'[d].server # s
                 PROVE  s \in Registered'
      BY DEF NoStrayServer
    <2>1. s \notin gone /\ (s \in Registered \/ client[c].server = s)
      BY <1>2, <1>3 DEF IInv, NoStrayServer
    <2>2. CASE client[c].server = s
      <3>1. sessions'[k] = s
        BY <1>0, <1>1, <2>2
      <3> QED BY <1>0, <3>1, NobodyIs DEF Registered
    <2>3. CASE s \in Registered
      <3>1. PICK j \in Keys : sessions[j] = s
        BY <2>3 DEF Registered
      <3>2. j # k /\ j \notin out
        BY <2>1, <3>1
      <3>3. sessions'[j] = s
        BY <1>1, <3>1, <3>2
      <3> QED BY <3>3, NobodyIs DEF Registered
    <2> QED BY <2>1, <2>2, <2>3
  <1>6. StartsSerial'
    <2>1. \A d \in Clients : Starting(d)' => d # c /\ Starting(d)
      BY <1>2 DEF Starting
    <2>2. Starting(c)
      BY <1>0 DEF Starting
    <2>3. \A d \in Clients : ~Starting(d)'
      BY <2>1, <2>2 DEF IInv, StartsSerial
    <2> QED BY <2>3 DEF StartsSerial
  <1>7. GoneStaysGone'
    BY <1>0, <1>1 DEF IInv, GoneStaysGone, Gone, lifetimes
  <1> QED BY <1>4, <1>5, <1>6, <1>7 DEF IInv

-----------------------------------------------------------------------------
(* Ending a server. *)

\* Servers that stop running, without a change of registrations or calls.
LEMMA ServersKeep ==
    ASSUME IInv, UNCHANGED <<lifetimes, sessions, client>>, server' \in [Servers -> ServerType],
           \A s \in Servers : server'[s].proc = "running" => server[s].proc = "running"
    PROVE  IInv'
  <1>1. Types' /\ CallsOk'
    BY DEF IInv, Types, CallsOk, lifetimes
  <1> QED BY <1>1, ListenersKeep

LEMMA ReaderEndsKeeps ==
    ASSUME IInv, NEW s \in Servers, ReaderEnds(s) PROVE IInv'
  <1> DEFINE K == {k \in {server[s].key} : sessions[k] = s}
             n == [server[s] EXCEPT !.reading = FALSE]
  <1>1. /\ sessions' = [k \in Keys |-> IF k \in K THEN Nobody ELSE sessions[k]]
        /\ server' = [server EXCEPT ![s] = n] /\ server[s].proc = "dead"
        /\ UNCHANGED <<lifetimes, client>>
    BY DEF ReaderEnds, TakeOut, frontEnd, IInv, Types
  <1>2. n \in ServerType /\ n.proc = "dead"
    BY <1>1 DEF IInv, Types, ServerType
  <1>3. \A k \in Keys : sessions'[k] = sessions[k] \/ (sessions[k] = s /\ sessions'[k] = Nobody)
    BY <1>1
  <1> HIDE DEF K, n
  <1>4. server' \in [Servers -> ServerType]
        /\ \A t \in Servers : server'[t].proc = "running" => t # s /\ server[t].proc = "running"
    BY <1>1, <1>2 DEF IInv, Types
  <1>5. Types' /\ CallsOk'
    BY <1>1, <1>3, <1>4 DEF IInv, Types, CallsOk, lifetimes
  <1>6. NoStrayServer'
    <2> SUFFICES ASSUME NEW t \in Servers, server'[t].proc = "running",
                        \A c \in Clients : client'[c].server # t
                 PROVE  t \in Registered'
      BY DEF NoStrayServer
    <2>1. t # s /\ t \in Registered
      BY <1>1, <1>4 DEF IInv, NoStrayServer
    <2>2. PICK k \in Keys : sessions[k] = t
      BY <2>1 DEF Registered
    <2>3. sessions'[k] = t
      BY <1>3, <2>1, <2>2
    <2> QED BY <2>3, NobodyIs DEF Registered
  <1>7. StartsSerial'
    BY <1>1, <1>3, <1>5 DEF IInv, StartsSerial, Starting, CallsOk
  <1>8. GoneStaysGone'
    BY <1>1, <1>3 DEF IInv, GoneStaysGone, Gone, lifetimes
  <1> QED BY <1>5, <1>6, <1>7, <1>8 DEF IInv

LEMMA ServerKeeps ==
    ASSUME IInv, NEW s \in Servers, ServerStep(s) PROVE IInv'
  <1>1. CASE HearExit(s)
    <2>1. Dispose({current[server[s].key]} \ {Nobody}) /\ UNCHANGED <<lifetimes, sessions>>
      BY <1>1 DEF HearExit, registry
    <2> QED BY <2>1, DisposeKeeps
  <1>2. CASE GrowIdle(s)
    BY <1>2, ServersKeep DEF GrowIdle, frontEnd, IInv, Types
  <1>3. CASE Crash(s) \/ TerminateChild(s)
    <2> DEFINE n == [server[s] EXCEPT !.proc = "dead"]
    <2>1. server' = [server EXCEPT ![s] = n] /\ UNCHANGED <<lifetimes, sessions, client>>
      BY <1>3 DEF Crash, TerminateChild, registry, frontEnd, IInv, Types
    <2>2. n \in ServerType /\ n.proc = "dead"
      BY DEF IInv, Types, ServerType
    <2> HIDE DEF n
    <2>3. server' \in [Servers -> ServerType]
          /\ \A t \in Servers : server'[t].proc = "running" => server[t].proc = "running"
      BY <2>1, <2>2 DEF IInv, Types
    <2> QED BY <2>1, <2>3, ServersKeep
  <1>4. CASE ReaderEnds(s)
    BY <1>4, ReaderEndsKeeps
  <1>5. CASE DropSession(s)
    <2>1. server' = [server EXCEPT ![s] = NoServer] /\ UNCHANGED <<lifetimes, sessions, client>>
      BY <1>5 DEF DropSession, registry, frontEnd
    <2>2. NoServer \in ServerType /\ NoServer.proc = "none"
      BY DEF NoServer, ServerType
    <2>3. server' \in [Servers -> ServerType]
          /\ \A t \in Servers : server'[t].proc = "running" => server[t].proc = "running"
      BY <2>1, <2>2 DEF IInv, Types
    <2> QED BY <2>1, <2>3, ServersKeep
  <1> QED BY <1>1, <1>2, <1>3, <1>4, <1>5 DEF ServerStep

LEMMA LifetimesKeep ==
    ASSUME IInv,
           \/ \E p \in Projects : RemoveProject(p) \/ StopProjectSessions(p)
           \/ ShutDown \/ Drain
    PROVE  IInv'
  <1>1. ASSUME NEW p \in Projects, RemoveProject(p) PROVE IInv'
    <2>1. /\ listed' = listed \ {p} /\ leaving' = leaving \cup {p}
          /\ UNCHANGED <<app, sessions, server, client>>
      BY <1>1 DEF RemoveProject, registry, frontEnd
    <2>2. Types' /\ CallsOk' /\ NoStrayServer' /\ StartsSerial'
      BY <2>1 DEF IInv, Types, CallsOk, NoStrayServer, Registered, StartsSerial, Starting
    <2>3. GoneStaysGone'
      BY <2>1 DEF IInv, GoneStaysGone, Gone
    <2> QED BY <2>2, <2>3 DEF IInv
  <1>2. ASSUME NEW p \in Projects, StopProjectSessions(p) PROVE IInv'
    <2> DEFINE K == {k \in Keys : k[1] = p}
    <2>1. Remove(K) /\ leaving' = leaving \ {p} /\ UNCHANGED <<listed, app, client>>
      BY <1>2 DEF StopProjectSessions, frontEnd
    <2>2. \A k \in Keys : (Gone(k[1]) \/ app = "drained")'
                          => Gone(k[1]) \/ app = "drained" \/ k \in K
      BY <2>1 DEF Gone
    <2> QED BY <2>1, <2>2, RemoveKeeps DEF IInv, Types
  <1>3. CASE ShutDown
    <2>1. app' = "closing" /\ UNCHANGED <<listed, leaving, sessions, server, client>>
      BY <1>3 DEF ShutDown, registry, frontEnd
    <2>2. Types' /\ CallsOk' /\ NoStrayServer' /\ StartsSerial'
      BY <2>1 DEF IInv, Types, CallsOk, NoStrayServer, Registered, StartsSerial, Starting
    <2>3. GoneStaysGone'
      BY <2>1 DEF IInv, GoneStaysGone, Gone
    <2> QED BY <2>2, <2>3 DEF IInv
  <1>4. CASE Drain
    <2>1. Remove(Keys) /\ UNCHANGED <<listed, client>>
      BY <1>4 DEF Drain, frontEnd
    <2> QED BY <2>1, RemoveKeeps DEF IInv, Types
  <1> QED BY <1>1, <1>2, <1>3, <1>4

-----------------------------------------------------------------------------

LEMMA InitIInv == Init => IInv
  <1> SUFFICES ASSUME Init PROVE IInv
    OBVIOUS
  <1>1. /\ NoServer \in ServerType /\ NoServer.proc = "none"
        /\ NoClient \in ClientType /\ NoClient.pc = "none" /\ NoClient.server = Nobody
    BY DEF NoServer, ServerType, NoClient, ClientType
  <1>2. Types /\ CallsOk
    BY <1>1 DEF Init, Types, CallsOk
  <1>3. NoStrayServer /\ StartsSerial /\ GoneStaysGone
    BY <1>1 DEF Init, NoStrayServer, StartsSerial, Starting, GoneStaysGone
  <1> QED BY <1>2, <1>3 DEF IInv

LEMMA NextIInv == IInv /\ [Next]_vars => IInv'
  <1> SUFFICES ASSUME IInv, [Next]_vars PROVE IInv'
    OBVIOUS
  <1>1. ASSUME NEW c \in Clients, FrontEndStep(c) PROVE IInv'
    BY <1>1, FrontEndKeeps
  <1>2. ASSUME NEW c \in Clients, StartStep(c) PROVE IInv'
    BY <1>2, LookUpKeeps, RefuseKeeps, RegisterKeeps, SpawnKeeps DEF StartStep
  <1>3. ASSUME NEW k \in Keys, KeyStep(k) PROVE IInv'
    <2>1. Remove({k}) /\ UNCHANGED <<lifetimes, client>>
      BY <1>3 DEF KeyStep, LspStop, ReaperTakes, frontEnd
    <2> QED BY <2>1, RemoveKeeps DEF IInv, Types, Gone, lifetimes
  <1>4. ASSUME NEW s \in Servers, ServerStep(s) PROVE IInv'
    BY <1>4, ServerKeeps
  <1>5. CASE \/ \E p \in Projects : RemoveProject(p) \/ StopProjectSessions(p)
             \/ ShutDown \/ Drain
    BY <1>5, LifetimesKeep
  <1>6. CASE Reload
    <2>1. Dispose({c \in Clients : Live(c)}) /\ UNCHANGED <<lifetimes, sessions>>
      BY <1>6 DEF Reload, registry
    <2> QED BY <2>1, DisposeKeeps
  <1>7. CASE ReaperLooks \/ UNCHANGED vars
    <2>1. UNCHANGED <<lifetimes, sessions, client, server>>
      BY <1>7 DEF ReaperLooks, vars, registry, frontEnd, lifetimes
    <2> QED BY <2>1, ServersKeep DEF IInv, Types
  <1> QED BY <1>1, <1>2, <1>3, <1>4, <1>5, <1>6, <1>7 DEF Next

THEOREM IInvHolds == Spec => []IInv
  BY InitIInv, NextIInv, PTL DEF Spec

\* No path loses a running server.
THEOREM NoServerLost == Spec => []NoStrayServer
  <1>1. IInv => NoStrayServer
    BY DEF IInv
  <1> QED BY <1>1, IInvHolds, PTL

\* One start at a time, of a key that has no session.
THEOREM StartsAreSerial == Spec => []StartsSerial
  <1>1. IInv => StartsSerial
    BY DEF IInv
  <1> QED BY <1>1, IInvHolds, PTL

\* Nothing is registered for a removed project or after the drain.
THEOREM GoneHasNoSession == Spec => []GoneStaysGone
  <1>1. IInv => GoneStaysGone
    BY DEF IInv
  <1> QED BY <1>1, IInvHolds, PTL

\* A reader that ends takes nothing out of the registry but its own session.
THEOREM LateReadersAreHarmless == Spec => LateReaderHarmless
  <1> DEFINE Harmless == \A s \in Servers : server[s].reading /\ ~server'[s].reading =>
                            \A k \in Keys : sessions[k] # s => sessions'[k] = sessions[k]
  <1>1. ASSUME IInv, UNCHANGED sessions PROVE Harmless
    BY <1>1
  <1>2. ASSUME IInv, \A s \in Servers : server'[s].reading = server[s].reading
        PROVE  Harmless
    BY <1>2
  <1>3. ASSUME IInv, NEW K, Remove(K) PROVE Harmless
    BY <1>2, <1>3, TerminatedIs DEF Remove, IInv
  <1>4. ASSUME IInv, NEW c \in Clients, FrontEndStep(c) PROVE Harmless
    BY <1>1, <1>4 DEF FrontEndStep, OpenDoc, Initialized, InitializeFails, IdleDispose,
                      DisposeAndStop, UserRequest, registry
  <1>5. ASSUME IInv, NEW c \in Clients, StartStep(c) PROVE Harmless
    <2>1. CASE Register(c)
      BY <1>2, <1>5, <2>1, TerminatedIs DEF Register, Insert, IInv
    <2>2. CASE ~Register(c)
      BY <1>1, <1>5, <2>2 DEF StartStep, LookUp, StartFails, RefuseRegister, Spawn, registry
    <2> QED BY <2>1, <2>2
  <1>6. ASSUME IInv, NEW t \in Servers, ServerStep(t) PROVE Harmless
    <2>1. CASE ReaderEnds(t)
      <3>1. server' = [server EXCEPT ![t].reading = FALSE]
            /\ sessions' = [k \in Keys |-> IF k \in {server[t].key} /\ sessions[k] = t
                                           THEN Nobody ELSE sessions[k]]
        BY <2>1 DEF ReaderEnds, TakeOut
      <3>2. \A s \in Servers \ {t} : server'[s] = server[s]
        BY <1>6, <3>1 DEF IInv, Types
      <3>3. \A k \in Keys : sessions[k] # t => sessions'[k] = sessions[k]
        BY <3>1
      <3> QED BY <3>2, <3>3
    <2>2. CASE ~ReaderEnds(t)
      BY <1>1, <1>6, <2>2 DEF ServerStep, HearExit, GrowIdle, Crash, TerminateChild,
                              DropSession, registry
    <2> QED BY <2>1, <2>2
  <1>7. ASSUME IInv, [Next]_vars PROVE [Harmless]_vars
    <2>1. ASSUME NEW k \in Keys, KeyStep(k) PROVE Harmless
      BY <1>3, <1>7, <2>1 DEF KeyStep, LspStop, ReaperTakes
    <2>2. ASSUME NEW p \in Projects, StopProjectSessions(p) PROVE Harmless
      BY <1>3, <1>7, <2>2 DEF StopProjectSessions
    <2>3. CASE Drain
      BY <1>3, <1>7, <2>3 DEF Drain
    <2>4. CASE \/ \E p \in Projects : RemoveProject(p)
               \/ ShutDown \/ ReaperLooks \/ Reload
      BY <1>1, <1>7, <2>4 DEF RemoveProject, ShutDown, ReaperLooks, Reload, registry
    <2> QED BY <1>4, <1>5, <1>6, <1>7, <2>1, <2>2, <2>3, <2>4 DEF Next
  <1>8. IInv /\ [Next]_vars => [Harmless]_vars
    BY <1>7
  <1> QED BY <1>8, IInvHolds, PTL DEF Spec, LateReaderHarmless

-----------------------------------------------------------------------------
(* The limit. *)

\* order puts the keys R one after the other.
LinearOn(order, R) ==
    /\ order \subseteq R \X R
    /\ \A j \in R : <<j, j>> \notin order
    /\ \A i, j, k \in R : <<i, j>> \in order /\ <<j, k>> \in order => <<i, k>> \in order
    /\ \A j, k \in R : j = k \/ <<j, k>> \in order \/ <<k, j>> \in order

Ordered == IsFiniteSet(RegisteredKeys) /\ LinearOn(lru, RegisteredKeys)

LEMMA WithoutIsLinear ==
    ASSUME NEW order, NEW R, NEW K, LinearOn(order, R)
    PROVE  LinearOn(Without(order, K), R \ K)
  <1>1. \A j, k \in R : <<j, k>> \in Without(order, K)
                        <=> <<j, k>> \in order /\ j \notin K /\ k \notin K
    BY DEF Without
  <1>2. Without(order, K) \subseteq (R \ K) \X (R \ K)
    BY DEF LinearOn, Without
  <1> QED BY <1>1, <1>2 DEF LinearOn

\* Using k, registered or not, puts it at the end of the order.
LEMMA NewOrderIsLinear ==
    ASSUME Ordered, NEW k \in Keys
    PROVE  /\ LinearOn(NewOrder(k), RegisteredKeys \cup {k})
           /\ UsedAfter(NewOrder(k), k) = {}
  <1> DEFINE W == Without(lru, {k})
             R == RegisteredKeys \ {k}
             last == {<<j, k>> : j \in R}
  <1>1. LinearOn(W, R)
    BY WithoutIsLinear DEF Ordered
  <1>2. NewOrder(k) = W \cup last
    BY DEF NewOrder
  <1>3. RegisteredKeys \cup {k} = R \cup {k}
    OBVIOUS
  <1>4. k \notin R
    OBVIOUS
  <1> HIDE DEF W, R
  <1>5. \A i, j : <<i, j>> \in last <=> i \in R /\ j = k
    OBVIOUS
  <1>6. \A i, j : <<i, j>> \in W => i \in R /\ j \in R
    BY <1>1 DEF LinearOn
  <1>7. W \cup last \subseteq (R \cup {k}) \X (R \cup {k})
    BY <1>1 DEF LinearOn
  <1> HIDE DEF last
  <1>8. LinearOn(W \cup last, R \cup {k})
    BY <1>1, <1>4, <1>5, <1>6, <1>7 DEF LinearOn
  <1>9. \A j : <<k, j>> \notin W \cup last
    BY <1>4, <1>5, <1>6
  <1> QED BY <1>2, <1>3, <1>8, <1>9 DEF UsedAfter

\* Of an order's keys, at most MaxSessions have fewer than MaxSessions after them.
LEMMA FewStay ==
    ASSUME NEW R \in SUBSET Keys, IsFiniteSet(R), NEW order, LinearOn(order, R)
    PROVE  Cardinality(R \ LruVictims(order)) <= MaxSessions
  <1> DEFINE after == [k \in R |-> Cardinality(UsedAfter(order, k))]
             S == R \ LruVictims(order)
             f == [k \in S |-> after[k]]
             T == 0 .. MaxSessions - 1
  <1>1. \A k \in R : /\ UsedAfter(order, k) \in SUBSET R
                     /\ IsFiniteSet(UsedAfter(order, k))
                     /\ after[k] \in Nat /\ after[k] = Cardinality(UsedAfter(order, k))
    <2> TAKE k \in R
    <2>1. UsedAfter(order, k) \in SUBSET R
      BY DEF UsedAfter, LinearOn
    <2> QED BY <2>1, FS_Subset, FS_CardinalityType
  <1>2. \A i, j \in R : <<i, j>> \in order => after[j] # after[i]
    <2> SUFFICES ASSUME NEW i \in R, NEW j \in R, <<i, j>> \in order
                 PROVE  after[j] # after[i]
      OBVIOUS
    <2>1. UsedAfter(order, j) \in SUBSET UsedAfter(order, i)
      BY DEF UsedAfter, LinearOn
    <2>2. j \in UsedAfter(order, i) /\ j \notin UsedAfter(order, j)
      BY DEF UsedAfter, LinearOn
    <2>3. UsedAfter(order, i) # UsedAfter(order, j)
      BY <2>2
    <2>4. Cardinality(UsedAfter(order, i)) # Cardinality(UsedAfter(order, j))
      BY <1>1, <2>1, <2>3, FS_Subset
    <2> QED BY <1>1, <2>4
  <1>3. MaxSessions \in Nat \ {0} /\ IsFiniteSet(T) /\ Cardinality(T) = MaxSessions
    BY BoundsAssumption, FS_Interval
  <1>4. \A k \in S : after[k] \in T
    <2> TAKE k \in S
    <2>1. k \in R /\ k \in Keys /\ ~(after[k] >= MaxSessions)
      BY <1>1 DEF LruVictims
    <2> QED BY <1>1, <1>3, <2>1
  <1> HIDE DEF after, T
  <1>5. \A i, j \in R : i # j => after[i] # after[j]
    BY <1>2 DEF LinearOn
  <1>6. f \in [S -> T] /\ \A i, j \in S : f[i] = f[j] => i = j
    BY <1>4, <1>5
  <1>7. f \in Injection(S, T)
    BY <1>6 DEF Injection, IsInjective
  <1> QED BY <1>3, <1>7, FS_Injection

\* As many servers as keys are registered, at most.
LEMMA RegisteredFromKeys ==
    ASSUME NEW reg, IsFiniteSet({k \in Keys : reg[k] # Nobody})
    PROVE  LET S == {reg[k] : k \in Keys} \ {Nobody} IN
           /\ IsFiniteSet(S)
           /\ Cardinality(S) <= Cardinality({k \in Keys : reg[k] # Nobody})
  <1> DEFINE R == {k \in Keys : reg[k] # Nobody}
             S == {reg[k] : k \in Keys} \ {Nobody}
             f == [k \in R |-> reg[k]]
  <1>1. f \in [R -> S] /\ \A s \in S : \E k \in R : f[k] = s
    OBVIOUS
  <1>2. f \in Surjection(R, S)
    BY <1>1 DEF Surjection
  <1> HIDE DEF f
  <1> QED BY <1>2, FS_Surjection

\* Keys that leave the registry leave the order with it.
LEMMA FewerKeys ==
    ASSUME Types, Ordered, CapHeld, NEW K,
           sessions' = [k \in Keys |-> IF k \in K THEN Nobody ELSE sessions[k]],
           lru' = Without(lru, K)
    PROVE  Ordered' /\ CapHeld'
  <1>1. RegisteredKeys' = RegisteredKeys \ K /\ Registered' \in SUBSET Registered
    BY DEF RegisteredKeys, Registered
  <1>2. LinearOn(lru', RegisteredKeys')
    BY <1>1, WithoutIsLinear DEF Ordered
  <1>3. IsFiniteSet(RegisteredKeys')
    BY <1>1, FS_Subset DEF Ordered
  <1>4. IsFiniteSet(Registered) /\ Cardinality(Registered) \in Nat
    BY RegisteredFromKeys, FS_CardinalityType DEF Ordered, RegisteredKeys, Registered
  <1>5. Cardinality(Registered') <= Cardinality(Registered) /\ Cardinality(Registered') \in Nat
    BY <1>1, <1>4, FS_Subset, FS_CardinalityType
  <1>6. CapHeld'
    BY <1>4, <1>5, BoundsAssumption DEF CapHeld
  <1> QED BY <1>2, <1>3, <1>6 DEF Ordered

\* A registered key is used.
LEMMA TouchOrders ==
    ASSUME Ordered, CapHeld, NEW k \in RegisteredKeys, Touch(k), UNCHANGED sessions
    PROVE  Ordered' /\ CapHeld'
  <1>1. k \in Keys /\ RegisteredKeys \cup {k} = RegisteredKeys
    BY DEF RegisteredKeys
  <1>2. RegisteredKeys' = RegisteredKeys /\ Registered' = Registered
    BY DEF RegisteredKeys, Registered
  <1>3. LinearOn(lru', RegisteredKeys')
    BY <1>1, <1>2, NewOrderIsLinear DEF Touch
  <1> QED BY <1>2, <1>3 DEF Ordered, CapHeld

\* A registration evicts whatever is beyond the limit.
LEMMA RegisterOrders ==
    ASSUME IInv, Ordered, NEW c \in Clients, Register(c) PROVE Ordered' /\ CapHeld'
  <1> DEFINE k == client[c].key
             order == NewOrder(k)
             out == LruVictims(order)
             R == RegisteredKeys \cup {k}
  <1>1. k \in Keys
    BY DEF Register, IInv, CallsOk
  <1>2. /\ sessions' = [j \in Keys |-> IF j = k THEN client[c].server
                                       ELSE IF j \in out THEN Nobody ELSE sessions[j]]
        /\ lru' = Without(order, out)
    BY DEF Register, Insert
  <1>3. client[c].server # Nobody
    BY DEF Register, IInv, CallsOk
  <1>4. LinearOn(order, R) /\ UsedAfter(order, k) = {}
    BY <1>1, NewOrderIsLinear
  <1>5. k \notin out
    BY <1>4, FS_EmptySet, BoundsAssumption DEF LruVictims
  <1> HIDE DEF out, order, k
  <1>6. RegisteredKeys' = R \ out
    BY <1>1, <1>2, <1>3, <1>5 DEF RegisteredKeys
  <1>7. R \in SUBSET Keys /\ IsFiniteSet(R)
    BY <1>1, FS_AddElement DEF Ordered, RegisteredKeys
  <1>8. Ordered'
    BY <1>2, <1>4, <1>6, <1>7, WithoutIsLinear, FS_Subset DEF Ordered
  <1>9. Cardinality(RegisteredKeys') <= MaxSessions
    BY <1>4, <1>6, <1>7, FewStay DEF out
  <1>10. CapHeld'
    <2>1. IsFiniteSet(RegisteredKeys')
      BY <1>6, <1>7, FS_Subset
    <2>2. Cardinality(Registered') <= Cardinality(RegisteredKeys') /\ IsFiniteSet(Registered')
      BY <2>1, RegisteredFromKeys DEF RegisteredKeys, Registered
    <2>3. Cardinality(Registered') \in Nat /\ Cardinality(RegisteredKeys') \in Nat
      BY <2>1, <2>2, FS_CardinalityType
    <2> QED BY <1>9, <2>2, <2>3, BoundsAssumption DEF CapHeld
  <1> QED BY <1>8, <1>10

LEMMA CapInit == Init => Ordered /\ CapHeld
  <1> SUFFICES ASSUME Init PROVE Ordered /\ CapHeld
    OBVIOUS
  <1>1. RegisteredKeys = {} /\ Registered = {} /\ lru = {}
    BY DEF Init, RegisteredKeys, Registered
  <1>2. Ordered
    BY <1>1, FS_EmptySet DEF Ordered, LinearOn
  <1>3. CapHeld
    BY <1>1, FS_EmptySet, BoundsAssumption DEF CapHeld
  <1> QED BY <1>2, <1>3

LEMMA CapNext == IInv /\ Ordered /\ CapHeld /\ [Next]_vars => Ordered' /\ CapHeld'
  <1> SUFFICES ASSUME IInv, Ordered, CapHeld, [Next]_vars PROVE Ordered' /\ CapHeld'
    OBVIOUS
  <1>0. ASSUME UNCHANGED <<sessions, lru>> PROVE Ordered' /\ CapHeld'
    BY <1>0 DEF Ordered, CapHeld, RegisteredKeys, Registered
  <1>1. ASSUME NEW K, Remove(K) PROVE Ordered' /\ CapHeld'
    BY <1>1, FewerKeys DEF Remove, IInv
  <1>2. ASSUME NEW c \in Clients, FrontEndStep(c) PROVE Ordered' /\ CapHeld'
    <2>1. CASE UserRequest(c)
      <3>1. client[c].key \in Keys /\ sessions[client[c].key] # Nobody
        BY <2>1 DEF UserRequest, IInv, CallsOk
      <3> QED BY <2>1, <3>1, TouchOrders DEF UserRequest, RegisteredKeys
    <2>2. CASE ~UserRequest(c)
      BY <1>0, <1>2, <2>2 DEF FrontEndStep, OpenDoc, Initialized, InitializeFails,
                              IdleDispose, DisposeAndStop, registry
    <2> QED BY <2>1, <2>2
  <1>3. ASSUME NEW c \in Clients, StartStep(c) PROVE Ordered' /\ CapHeld'
    <2>1. CASE LookUp(c)
      <3>1. client[c].key \in Keys /\ UNCHANGED sessions
        BY <2>1 DEF LookUp, IInv, CallsOk
      <3>2. CASE Reattach(c)
        BY <3>1, <3>2, TouchOrders DEF Reattach, RegisteredKeys
      <3>3. CASE LookUpProject(c)
        BY <1>0, <3>1, <3>3 DEF LookUpProject
      <3> QED BY <2>1, <3>2, <3>3 DEF LookUp
    <2>2. CASE Register(c)
      BY <2>2, RegisterOrders
    <2>3. CASE StartFails(c) \/ RefuseRegister(c) \/ \E s \in Servers : Spawn(c, s)
      BY <1>0, <2>3 DEF StartFails, RefuseRegister, Spawn, registry
    <2> QED BY <1>3, <2>1, <2>2, <2>3 DEF StartStep
  <1>4. ASSUME NEW k \in Keys, KeyStep(k) PROVE Ordered' /\ CapHeld'
    BY <1>1, <1>4 DEF KeyStep, LspStop, ReaperTakes
  <1>5. ASSUME NEW s \in Servers, ServerStep(s) PROVE Ordered' /\ CapHeld'
    <2>1. CASE ReaderEnds(s)
      BY <2>1, FewerKeys DEF ReaderEnds, TakeOut, IInv
    <2>2. CASE ~ReaderEnds(s)
      BY <1>0, <1>5, <2>2 DEF ServerStep, HearExit, GrowIdle, Crash, TerminateChild,
                              DropSession, registry
    <2> QED BY <2>1, <2>2
  <1>6. ASSUME NEW p \in Projects, RemoveProject(p) \/ StopProjectSessions(p)
        PROVE  Ordered' /\ CapHeld'
    BY <1>0, <1>1, <1>6 DEF RemoveProject, StopProjectSessions, registry
  <1>7. CASE Drain
    BY <1>1, <1>7 DEF Drain
  <1>8. CASE ReaperLooks \/ ShutDown \/ Reload \/ UNCHANGED vars
    BY <1>0, <1>8 DEF ReaperLooks, ShutDown, Reload, vars, registry
  <1> QED BY <1>2, <1>3, <1>4, <1>5, <1>6, <1>7, <1>8 DEF Next

\* MAX_SESSIONS bounds the registered servers, whatever was registered, used,
\* evicted and taken out before, in whatever order.
THEOREM CapIsHeld == Spec => []CapHeld
  <1>1. Init => Ordered /\ CapHeld
    BY CapInit
  <1>2. Ordered /\ CapHeld => CapHeld
    OBVIOUS
  <1> QED BY <1>1, <1>2, CapNext, IInvHolds, PTL DEF Spec

-----------------------------------------------------------------------------
(* START_LOCK.  A start is mutually exclusive with every other from its      *)
(* look-up to its registration, refusal or failure: who starts owns a lock   *)
(* of KeyedMutex with the one key there is.                                  *)

StartLockKeys == {"START_LOCK"}
Starters == {c \in Clients : Starting(c)}
Starter == IF Starters = {} THEN Nobody ELSE CHOOSE c \in Starters : TRUE

StartLock == INSTANCE KeyedMutex WITH
    Keys <- StartLockKeys, Actors <- Clients, owner <- [k \in StartLockKeys |-> Starter]

\* The ways the set of starters can change.
Begins(c) == Starters = {} /\ Starters' = {c}
Ends(c) == Starters = {c} /\ Starters' = {}

\* Changing one client changes the set of starters by that client at most.
LEMMA OneClientMoves ==
    ASSUME StartsSerial, NEW c \in Clients,
           \A d \in Clients \ {c} : client'[d] = client[d],
           Starting(c)' => Starting(c) \/ Starters = {}
    PROVE  Starters' = Starters \/ Begins(c) \/ Ends(c)
  <1>1. \A d \in Clients \ {c} : Starting(d)' = Starting(d)
    BY DEF Starting
  <1>2. CASE Starting(c)
    <2>1. Starters = {c}
      BY <1>2 DEF StartsSerial, Starters
    <2>2. \A d \in Clients \ {c} : ~Starting(d)'
      BY <1>1, <2>1 DEF Starters
    <2>3. CASE Starting(c)'
      BY <2>1, <2>2, <2>3 DEF Starters
    <2>4. CASE ~Starting(c)'
      <3>1. Starters' = {}
        BY <2>2, <2>4 DEF Starters
      <3> QED BY <2>1, <3>1 DEF Ends
    <2> QED BY <2>3, <2>4
  <1>3. CASE ~Starting(c)
    <2>1. CASE Starting(c)'
      <3>1. Starters = {}
        BY <1>3, <2>1
      <3>2. \A d \in Clients \ {c} : ~Starting(d)'
        BY <1>1, <3>1 DEF Starters
      <3>3. Starters' = {c}
        BY <2>1, <3>2 DEF Starters
      <3> QED BY <3>1, <3>3 DEF Begins
    <2>2. CASE ~Starting(c)'
      BY <1>1, <1>3, <2>2 DEF Starters
    <2> QED BY <2>1, <2>2
  <1> QED BY <1>2, <1>3

\* What every step does to the set of starters; disposing an object does not
\* end its start.
LEMMA StartersMove ==
    ASSUME IInv, [Next]_vars
    PROVE  Starters' = Starters \/ \E c \in Clients : Begins(c) \/ Ends(c)
  <1>0. Types /\ CallsOk /\ StartsSerial
    BY DEF IInv
  <1> DEFINE Moves == Starters' = Starters \/ \E c \in Clients : Begins(c) \/ Ends(c)
  <1>a. ASSUME NEW c \in Clients, NEW n, client' = [client EXCEPT ![c] = n],
               n.pc \in {"resolving", "spawned"} => Starting(c) \/ Starters = {}
        PROVE  Moves
    <2>1. client'[c] = n /\ \A d \in Clients \ {c} : client'[d] = client[d]
      BY <1>0, <1>a DEF Types
    <2> QED BY <1>0, <1>a, <2>1, OneClientMoves DEF Starting
  <1>b. ASSUME NEW c \in Clients, NEW pc \in {"init", "failed"}, Return(c, pc) PROVE Moves
    <2>1. /\ \A d \in Clients \ {c} : client'[d] = client[d]
          /\ client'[c].pc \in {"none", "init", "failed"}
      BY <1>0, <1>b, ReturnIs
    <2> QED BY <1>0, <2>1, OneClientMoves DEF Starting
  <1>c. ASSUME NEW C, Dispose(C) PROVE Moves
    <2>1. \A d \in Clients : Starting(d)' = Starting(d)
      BY <1>0, <1>c DEF Dispose, Starting, NoClient, Types
    <2> QED BY <2>1 DEF Starters
  <1>1. ASSUME NEW c \in Clients, FrontEndStep(c) PROVE Moves
    <2>1. ASSUME NEW k \in Keys, OpenDoc(c, k) PROVE Moves
      BY <1>a, <2>1 DEF OpenDoc
    <2>2. CASE Initialized(c)
      <3>1. client' = [client EXCEPT ![c] = [client[c] EXCEPT !.pc = "ready"]]
        BY <1>0, <2>2 DEF Initialized, Types
      <3>2. [client[c] EXCEPT !.pc = "ready"].pc = "ready"
        BY <1>0 DEF Types, ClientType
      <3> QED BY <1>a, <3>1, <3>2
    <2>3. CASE InitializeFails(c) \/ IdleDispose(c)
      BY <1>c, <2>3 DEF InitializeFails, IdleDispose, DisposeAndStop
    <2>4. CASE UserRequest(c)
      BY <2>4 DEF UserRequest, frontEnd, Starters, Starting
    <2> QED BY <1>1, <2>1, <2>2, <2>3, <2>4 DEF FrontEndStep
  <1>2. ASSUME NEW c \in Clients, StartStep(c) PROVE Moves
    <2>1. CASE LookUp(c)
      <3>1. Starters = {}
        BY <2>1 DEF LookUp, Starters
      <3>2. CASE client' = [client EXCEPT ![c].pc = "resolving"]
        <4>1. client' = [client EXCEPT ![c] = [client[c] EXCEPT !.pc = "resolving"]]
          BY <1>0, <3>2 DEF Types
        <4> QED BY <1>a, <3>1, <4>1
      <3> QED BY <1>b, <2>1, <3>2 DEF LookUp, Reattach, LookUpProject
    <2>2. CASE StartFails(c) \/ RefuseRegister(c) \/ Register(c)
      BY <1>b, <2>2 DEF StartFails, RefuseRegister, Register, Insert
    <2>3. ASSUME NEW s \in Servers, Spawn(c, s) PROVE Moves
      <3>1. client' = [client EXCEPT ![c] = [client[c] EXCEPT !.pc = "spawned", !.server = s]]
            /\ Starting(c)
        BY <1>0, <2>3 DEF Spawn, Starting, Types
      <3> QED BY <1>a, <3>1
    <2> QED BY <1>2, <2>1, <2>2, <2>3 DEF StartStep
  <1>3. ASSUME UNCHANGED client PROVE Moves
    BY <1>3 DEF Starters, Starting
  <1>4. ASSUME NEW k \in Keys, KeyStep(k) PROVE Moves
    BY <1>3, <1>4 DEF KeyStep, LspStop, ReaperTakes, frontEnd
  <1>5. ASSUME NEW s \in Servers, ServerStep(s) PROVE Moves
    BY <1>3, <1>5, <1>c DEF ServerStep, HearExit, GrowIdle, Crash, TerminateChild, ReaderEnds,
                           TakeOut, DropSession, frontEnd
  <1>6. CASE Reload
    BY <1>6, <1>c DEF Reload
  <1>7. CASE ReaperLooks \/ ShutDown \/ Drain
             \/ \E p \in Projects : RemoveProject(p) \/ StopProjectSessions(p)
    BY <1>3, <1>7 DEF ReaperLooks, ShutDown, Drain, RemoveProject, StopProjectSessions, frontEnd
  <1>8. CASE UNCHANGED vars
    BY <1>3, <1>8 DEF vars
  <1> QED BY <1>1, <1>2, <1>4, <1>5, <1>6, <1>7, <1>8 DEF Next

LEMMA StarterIs ==
    /\ Starters = {} => Starter = Nobody
    /\ \A c \in Clients : Starters = {c} => Starter = c
  BY DEF Starter

\* Every step acquires START_LOCK for a start that finds it free, gives it back
\* for the start that owns it, or leaves it alone - also when the object that
\* started is disposed, its project removed, or the application shut down.
THEOREM StartsHoldALock == Spec => StartLock!Spec
  <1> DEFINE owner == [k \in StartLockKeys |-> Starter]
  <1>1. Init => StartLock!Init
    <2> SUFFICES ASSUME Init PROVE StartLock!Init
      OBVIOUS
    <2>1. Starters = {}
      BY DEF Init, Starters, Starting, NoClient
    <2> QED BY <2>1, StarterIs DEF StartLock!Init
  <1>2. ASSUME IInv, [Next]_vars PROVE [StartLock!Next]_owner
    <2>0. /\ Starters' = {} => Starter' = Nobody
          /\ \A c \in Clients : Starters' = {c} => Starter' = c
      BY DEF Starter
    <2>1. CASE Starters' = Starters
      BY <2>1 DEF Starter
    <2>2. ASSUME NEW c \in Clients, Begins(c) PROVE StartLock!Next
      <3>1. PICK k \in StartLockKeys : k = "START_LOCK"
        BY DEF StartLockKeys
      <3>2. Starter = Nobody /\ Starter' = c
        BY <2>0, <2>2, StarterIs DEF Begins
      <3>3. StartLock!Acquire(k, c)
        BY <3>1, <3>2 DEF StartLock!Acquire, StartLock!Free, StartLockKeys
      <3> QED BY <3>3 DEF StartLock!Next
    <2>3. ASSUME NEW c \in Clients, Ends(c) PROVE StartLock!Next
      <3>1. PICK k \in StartLockKeys : k = "START_LOCK"
        BY DEF StartLockKeys
      <3>2. Starter = c /\ Starter' = Nobody
        BY <2>0, <2>3, StarterIs DEF Ends
      <3>3. StartLock!Release(k, c)
        BY <3>1, <3>2 DEF StartLock!Release, StartLockKeys
      <3> QED BY <3>3 DEF StartLock!Next
    <2> QED BY <1>2, <2>1, <2>2, <2>3, StartersMove
  <1> QED BY <1>1, <1>2, IInvHolds, PTL DEF Spec, StartLock!Spec
=============================================================================

-------------------------- MODULE LlmServerProofs --------------------------
(***************************************************************************)
(* Proofs about LlmServer for every set of chats, connections, servers,    *)
(* models and settings: types, the chat slot and that it implements        *)
(* KeyedMutex, the count of connections, cancels, the endpoint a caller    *)
(* talks to, and that no server is stray; that what is taken down is       *)
(* stale, and that nothing outlives the application, on conditions that    *)
(* are named.                                                              *)
(***************************************************************************)
EXTENDS LlmServer, FiniteSetTheorems, TLAPS

Pcs == {"new", "sent"} \cup Working \cup Ended
CallType == [pc : Pcs, model : Models \cup {Nobody}, ctx : Nat,
             backend : {"auto", "cpu"}, server : Servers \cup {Nobody}]
ServerType == [life : Lifes, ready : BOOLEAN, ctx : Nat,
               model : Models \cup {Nobody}, idle : BOOLEAN]

\* TypeOK without the count of connections, which needs ConnsCounted.
Types ==
    /\ settings \in [external : BOOLEAN, model : Models, ctx : Nat,
                     backend : {"auto", "cpu"}]
    /\ registry \in Servers \cup {Nobody}
    /\ server \in [Servers -> ServerType]
    /\ call \in [Callers -> CallType]
    /\ inflight \in Chats \cup {Nobody}
    /\ aborted \subseteq Chats /\ asked \subseteq Chats
    /\ reaper \in [pc : {"sleep", "take", "kill"}, server : Servers \cup {Nobody}]
    /\ doomed \subseteq Servers
    /\ exit \in [pc : {"up", "killing", "killed", "gone"},
                 server : Servers \cup {Nobody}]

-----------------------------------------------------------------------------
(* Type correctness. *)

\* The operators that build new values build typed ones.
LEMMA KilledTyped ==
    ASSUME Types, NEW S PROVE Killed(S) \in [Servers -> ServerType]
  BY DEF Types, Killed, ServerType, Lifes

LEMMA CallWith ==
    ASSUME NEW r \in CallType, NEW pc \in Pcs, NEW s \in Servers \cup {Nobody}
    PROVE  /\ [r EXCEPT !.pc = pc] \in CallType
           /\ [r EXCEPT !.pc = pc, !.server = s] \in CallType
           /\ [r EXCEPT !.pc = pc, !.backend = "cpu"] \in CallType
  BY DEF CallType

LEMMA ServerWith ==
    ASSUME NEW r \in ServerType, NEW b \in BOOLEAN
    PROVE  /\ [r EXCEPT !.ready = b] \in ServerType
           /\ [r EXCEPT !.idle = b] \in ServerType
  BY DEF ServerType

LEMMA TouchedTyped ==
    ASSUME Types, NEW s \in Servers \cup {Nobody} PROVE Touched(s) \in [Servers -> ServerType]
  <1>1. CASE s = Nobody
    BY <1>1 DEF Types, Touched
  <1>2. CASE s \in Servers
    <2>1. [server[s] EXCEPT !.idle = FALSE] \in ServerType
      BY <1>2, ServerWith DEF Types
    <2> QED BY <1>2, <2>1, CallersAssumption DEF Types, Touched
  <1> QED BY <1>1, <1>2

LEMMA EndTyped ==
    ASSUME Types, NEW c \in Callers, NEW outcome \in Ended, End(c, outcome)
    PROVE  call' \in [Callers -> CallType] /\ inflight' \in Chats \cup {Nobody}
  BY DEF Types, End, Fresh, CallType, Pcs

LEMMA WantTyped ==
    ASSUME Types, NEW c \in Callers, NEW m \in Models, NEW pc \in Working,
           NEW s \in Servers \cup {Nobody}, Want(c, m, pc, s)
    PROVE  call' \in [Callers -> CallType]
  <1>1. WantedCtx(c) \in Nat
    BY BoundsAssumption DEF WantedCtx, Greater, Types
  <1> QED BY <1>1 DEF Want, Types, CallType, Pcs

LEMMA TypesInit == Init => Types
  BY SettingsAssumption DEF Init, Types, Unborn, Fresh, Lifes, CallType, ServerType, Pcs

\* A step that moves a caller on changes its record within the type.
LEMMA MoveTyped ==
    ASSUME Types, NEW c \in Callers, NEW pc \in Pcs, NEW s \in Servers \cup {Nobody}
    PROVE  /\ [call EXCEPT ![c].pc = pc] \in [Callers -> CallType]
           /\ [call EXCEPT ![c].pc = pc, ![c].server = s] \in [Callers -> CallType]
           /\ [call EXCEPT ![c].pc = pc, ![c].backend = "cpu"] \in [Callers -> CallType]
  <1>1. call[c] \in CallType
    BY DEF Types
  <1>2. /\ [call[c] EXCEPT !.pc = pc] \in CallType
        /\ [call[c] EXCEPT !.pc = pc, !.server = s] \in CallType
        /\ [call[c] EXCEPT !.pc = pc, !.backend = "cpu"] \in CallType
    BY <1>1, CallWith
  <1> QED BY <1>2 DEF Types

\* The steps of a caller.
LEMMA TypesCall ==
    ASSUME Types, NEW c \in Callers, CallStep(c) PROVE Types'
  <1> USE DEF Pcs, Working, Awaiting, Ended
  <1>1. CASE Invoke(c) \/ AdmitChat(c) \/ AdmitConn(c) \/ Cancel(c)
    <2>1. call' \in [Callers -> CallType]
      <3>1. CASE Invoke(c)
        BY <3>1, MoveTyped DEF Invoke
      <3>2. CASE AdmitChat(c) \/ AdmitConn(c)
        <4>1. ASSUME NEW pc \in Pcs PROVE [call EXCEPT ![c].pc = pc] \in [Callers -> CallType]
          BY MoveTyped
        <4>2. \E pc \in {"busy", "refused", "ensure"} : call' = [call EXCEPT ![c].pc = pc]
          BY <3>2 DEF AdmitChat, AdmitConn
        <4> QED BY <4>1, <4>2
      <3>4. CASE Cancel(c)
        BY <3>4 DEF Cancel, Types
      <3> QED BY <1>1, <3>1, <3>2, <3>4
    <2> QED BY <1>1, <2>1 DEF Types, Invoke, AdmitChat, AdmitConn, Cancel
  <1>2. ASSUME NEW m \in Models, Reuse(c, m) PROVE Types'
    BY <1>2, WantTyped, TouchedTyped DEF Reuse, Types
  <1>3. ASSUME NEW m \in Models, Miss(c, m) PROVE Types'
    BY <1>3, WantTyped DEF Miss, Types
  <1>4. CASE UseExternal(c) \/ Token(c)
    <2>1. server' \in [Servers -> ServerType]
      BY <1>4, TouchedTyped DEF UseExternal, Token, Types
    <2>2. call' \in [Callers -> CallType]
      <3>1. CASE UseExternal(c)
        BY <3>1, MoveTyped DEF UseExternal
      <3>2. CASE Token(c)
        BY <3>2 DEF Token, Types
      <3> QED BY <1>4, <3>1, <3>2
    <2> QED BY <1>4, <2>1, <2>2 DEF UseExternal, Token, Types
  <1>5. CASE TakeStale(c) \/ TryCpu(c)
    <2>1. call' \in [Callers -> CallType]
      <3>1. CASE TakeStale(c)
        <4> DEFINE pc == IF registry = Nobody THEN "start" ELSE "kill"
        <4>1. pc \in Pcs /\ registry \in Servers \cup {Nobody}
          BY DEF Types
        <4>2. call' = [call EXCEPT ![c].pc = pc, ![c].server = registry]
          BY <3>1 DEF TakeStale
        <4> HIDE DEF pc
        <4> QED BY <4>1, <4>2, MoveTyped
      <3>2. CASE TryCpu(c)
        BY <3>2, MoveTyped DEF TryCpu
      <3> QED BY <1>5, <3>1, <3>2
    <2> QED BY <1>5, <2>1 DEF TakeStale, TryCpu, Types
  <1>6. CASE KillStale(c)
    <2>1. call' \in [Callers -> CallType]
      BY <1>6, MoveTyped DEF KillStale
    <2> QED BY <1>6, <2>1, KilledTyped DEF KillStale, Types
  <1>7. ASSUME NEW s \in Servers, Spawn(c, s) PROVE Types'
    <2>1. call' \in [Callers -> CallType]
      BY <1>7, MoveTyped DEF Spawn
    <2>2. [Unborn EXCEPT !.life = "alive", !.model = call[c].model,
                         !.ctx = call[c].ctx] \in ServerType
      <3>1. call[c].model \in Models \cup {Nobody} /\ call[c].ctx \in Nat
        BY DEF Types, CallType
      <3> QED BY <3>1 DEF Unborn, ServerType, Lifes
    <2>3. server' \in [Servers -> ServerType]
      BY <1>7, <2>2 DEF Spawn, Types
    <2> QED BY <1>7, <2>1, <2>3 DEF Spawn, Types
  <1>8. CASE StartFails(c) \/ Answer(c) \/ RequestFails(c)
    BY <1>8, EndTyped DEF StartFails, Answer, RequestFails, Types
  <1>9. CASE BecomeReady(c)
    <2>1. call' \in [Callers -> CallType]
      BY <1>9, MoveTyped DEF BecomeReady
    <2>2. call[c].server \in Servers
      BY <1>9 DEF BecomeReady, Alive, Types, CallType
    <2>3. [server[call[c].server] EXCEPT !.ready = TRUE] \in ServerType
      BY <2>2, ServerWith DEF Types
    <2>4. server' \in [Servers -> ServerType]
      BY <1>9, <2>2, <2>3 DEF BecomeReady, Types
    <2> QED BY <1>9, <2>1, <2>4 DEF BecomeReady, Types
  <1>10. CASE Register(c)
    <2>1. call' \in [Callers -> CallType] /\ registry' \in Servers \cup {Nobody}
      BY <1>10, MoveTyped DEF Register, Types, CallType
    <2> DEFINE K == Killed({registry} \ {Nobody})
    <2>2. K \in [Servers -> ServerType]
      BY KilledTyped
    <2>3. [K EXCEPT ![call[c].server].idle = FALSE] \in [Servers -> ServerType]
      <3>1. CASE call[c].server \in Servers
        <4>1. [K[call[c].server] EXCEPT !.idle = FALSE] \in ServerType
          BY <2>2, <3>1, ServerWith
        <4> QED BY <2>2, <4>1
      <3>2. CASE call[c].server \notin Servers
        BY <2>2, <3>2
      <3> QED BY <3>1, <3>2
    <2> QED BY <1>10, <2>1, <2>3 DEF Register, Types
  <1>11. CASE WaitFails(c)
    BY <1>11, EndTyped, KilledTyped DEF WaitFails, Types
  <1>12. CASE CpuInstalled(c)
    <2>1. call' \in [Callers -> CallType]
      BY <1>12, MoveTyped DEF CpuInstalled
    <2> QED BY <1>12, <2>1 DEF CpuInstalled, Types
  <1>13. ASSUME NEW outcome \in {"cancelled", "timeout"}, DropFuture(c, outcome)
         PROVE  Types'
    BY <1>13, EndTyped, KilledTyped DEF DropFuture, Types
  <1> QED BY <1>1, <1>2, <1>3, <1>4, <1>5, <1>6, <1>7, <1>8, <1>9, <1>10, <1>11,
             <1>12, <1>13 DEF CallStep, Proceed, Hear

LEMMA TypesNext == Types /\ [Next]_vars => Types'
  <1> SUFFICES ASSUME Types, [Next]_vars PROVE Types'
    OBVIOUS
  <1>1. ASSUME NEW c \in Callers, CallStep(c) PROVE Types'
    BY <1>1, TypesCall
  <1>2. CASE GrowIdle
    <2>1. registry \in Servers
      BY <1>2 DEF GrowIdle, Types
    <2>2. [server[registry] EXCEPT !.idle = TRUE] \in ServerType
      BY <2>1, ServerWith DEF Types
    <2> QED BY <1>2, <2>1, <2>2 DEF GrowIdle, Types
  <1>3. CASE ReaperLooks \/ ReaperTakes \/ StopServer \/ KillAllTakes \/ Gone
    BY <1>3 DEF ReaperLooks, ReaperTakes, StopServer, KillAllTakes, Gone, Types
  <1>4. CASE ReaperKills \/ KillAllKills
    BY <1>4, KilledTyped DEF ReaperKills, KillAllKills, Types
  <1>5. ASSUME NEW s \in Servers, Terminate(s) \/ Crash(s) PROVE Types'
    BY <1>5, KilledTyped DEF Terminate, Crash, Types
  <1>6. ASSUME NEW v \in SettingsValues, SaveSettings(v) PROVE Types'
    BY <1>6, SettingsAssumption DEF SaveSettings, Types
  <1>7. CASE UNCHANGED vars
    BY <1>7 DEF vars, Types
  <1> QED BY <1>1, <1>2, <1>3, <1>4, <1>5, <1>6, <1>7 DEF Next, ReaperStep

-----------------------------------------------------------------------------
(* The slot and the count. *)

Busy == {c \in Conns : call[c].pc \in Working}

\* What a step does to the caller c, the slot and the count.
Others(c) == \A d \in Callers \ {c} : call'[d] = call[d]
Quiet == /\ \A c \in Callers : call'[c].pc \in Working <=> call[c].pc \in Working
         /\ inflight' = inflight /\ conns' = conns
TakesSlot(c) == /\ inflight = Nobody /\ inflight' = c /\ conns' = conns
                /\ c \in Chats /\ call'[c].pc \in Working
                /\ Others(c)
CountsIn(c) == /\ ~(conns >= MaxConns) /\ conns' = conns + 1 /\ inflight' = inflight
               /\ c \in Conns /\ call[c].pc \notin Working /\ call'[c].pc \in Working
               /\ Others(c)
Leaves(c) == /\ call[c].pc \in Working /\ call'[c].pc \notin Working
             /\ inflight' = IF inflight = c THEN Nobody ELSE inflight
             /\ conns' = IF c \in Conns THEN conns - 1 ELSE conns
             /\ Others(c)

LEMMA EndLeaves ==
    ASSUME Types, NEW c \in Callers, NEW outcome \in Ended, End(c, outcome),
           call[c].pc \in Working
    PROVE  Leaves(c)
  <1>1. outcome \notin Working
    BY DEF Ended, Working, Awaiting
  <1> QED BY <1>1 DEF End, Leaves, Others, Fresh, Types

\* A caller that goes on working stays where the slot and the count have it.
LEMMA StaysQuiet ==
    ASSUME Types, NEW c \in Callers, call[c].pc \in Working, call'[c].pc \in Working,
           Others(c), inflight' = inflight, conns' = conns
    PROVE  Quiet
  BY DEF Quiet, Others

LEMMA BookkeepingCall ==
    ASSUME Types, NEW c \in Callers, CallStep(c)
    PROVE  Quiet \/ TakesSlot(c) \/ CountsIn(c) \/ Leaves(c)
  <1> USE DEF Working, Awaiting
  <1>0. call[c] \in CallType /\ c \in DOMAIN call
    BY DEF Types
  <1>1. CASE Invoke(c)
    BY <1>0, <1>1 DEF Invoke, Quiet, Types, CallType
  <1>2. CASE AdmitChat(c)
    <2>1. CASE inflight # Nobody
      BY <1>0, <1>2, <2>1 DEF AdmitChat, Quiet, Types, CallType
    <2>2. CASE inflight = Nobody
      BY <1>0, <1>2, <2>2 DEF AdmitChat, TakesSlot, Others, Types, CallType
    <2> QED BY <2>1, <2>2
  <1>3. CASE AdmitConn(c)
    <2>1. CASE conns >= MaxConns
      BY <1>0, <1>3, <2>1 DEF AdmitConn, Quiet, Types, CallType
    <2>2. CASE ~(conns >= MaxConns)
      BY <1>0, <1>3, <2>2 DEF AdmitConn, CountsIn, Others, Types, CallType
    <2> QED BY <2>1, <2>2
  <1>4. ASSUME NEW m \in Models, Reuse(c, m) \/ Miss(c, m) PROVE Quiet
    BY <1>0, <1>4, StaysQuiet DEF Reuse, Miss, Want, Others, Types
  <1>5. CASE UseExternal(c) \/ TakeStale(c) \/ KillStale(c) \/ TryCpu(c)
             \/ Register(c) \/ BecomeReady(c) \/ CpuInstalled(c)
             \/ \E s \in Servers : Spawn(c, s)
    <2>1. call[c].pc \in Working /\ call'[c].pc \in Working
      <3>1. CASE UseExternal(c) \/ TakeStale(c) \/ KillStale(c)
        BY <1>0, <3>1 DEF UseExternal, TakeStale, KillStale, CallType, Types
      <3>2. CASE TryCpu(c) \/ Register(c) \/ BecomeReady(c)
        BY <1>0, <3>2 DEF TryCpu, Register, BecomeReady, CallType, Types
      <3>3. CASE CpuInstalled(c) \/ \E s \in Servers : Spawn(c, s)
        <4>1. CASE CpuInstalled(c)
          BY <1>0, <4>1 DEF CpuInstalled, CallType, Types
        <4>2. ASSUME NEW s \in Servers, Spawn(c, s)
              PROVE  call[c].pc \in Working /\ call'[c].pc \in Working
          <5>1. call'[c] = [call[c] EXCEPT !.pc = "wait", !.server = s]
            BY <1>0, <4>2 DEF Spawn
          <5> QED BY <1>0, <4>2, <5>1 DEF Spawn, CallType
        <4> QED BY <3>3, <4>1, <4>2
      <3> QED BY <1>5, <3>1, <3>2, <3>3
    <2>2. Others(c) /\ inflight' = inflight /\ conns' = conns
      BY <1>0, <1>5 DEF UseExternal, TakeStale, KillStale, TryCpu, Register,
                        BecomeReady, CpuInstalled, Spawn, Others, Types
    <2> QED BY <2>1, <2>2, StaysQuiet
  <1>6. CASE Token(c) \/ Cancel(c)
    BY <1>6 DEF Token, Cancel, Quiet
  <1>7. CASE StartFails(c) \/ Answer(c) \/ RequestFails(c) \/ WaitFails(c)
    BY <1>7, EndLeaves DEF StartFails, Answer, RequestFails, WaitFails, Ended
  <1>8. ASSUME NEW outcome \in {"cancelled", "timeout"}, DropFuture(c, outcome)
        PROVE  Leaves(c)
    BY <1>8, EndLeaves DEF DropFuture, Ended
  <1> QED BY <1>1, <1>2, <1>3, <1>4, <1>5, <1>6, <1>7, <1>8
          DEF CallStep, Proceed, Hear

LEMMA Bookkeeping ==
    ASSUME Types, [Next]_vars
    PROVE  Quiet \/ \E c \in Callers : TakesSlot(c) \/ CountsIn(c) \/ Leaves(c)
  <1>1. ASSUME NEW c \in Callers, CallStep(c)
        PROVE  Quiet \/ TakesSlot(c) \/ CountsIn(c) \/ Leaves(c)
    BY <1>1, BookkeepingCall
  <1>2. CASE ~ \E c \in Callers : CallStep(c)
    BY <1>2 DEF Next, vars, Quiet, GrowIdle, ReaperStep, ReaperLooks, ReaperTakes,
         ReaperKills, StopServer, Terminate, Crash, SaveSettings, KillAllTakes,
         KillAllKills, Gone
  <1> QED BY <1>1, <1>2

\* OneChat, chat by chat.
Slot == \A c \in Chats : call[c].pc \in Working <=> inflight = c

LEMMA SlotNext == Types /\ Slot /\ [Next]_vars => Slot'
  <1> SUFFICES ASSUME Types, Slot, [Next]_vars PROVE Slot'
    OBVIOUS
  <1>1. CASE Quiet
    BY <1>1 DEF Quiet, Slot, Callers
  <1>2. ASSUME NEW c \in Callers, TakesSlot(c) PROVE Slot'
    BY <1>2, CallersAssumption DEF TakesSlot, Others, Slot, Callers
  <1>3. ASSUME NEW c \in Callers, CountsIn(c) PROVE Slot'
    BY <1>3, CallersAssumption DEF CountsIn, Others, Slot, Callers
  <1>4. ASSUME NEW c \in Callers, Leaves(c) PROVE Slot'
    BY <1>4, CallersAssumption DEF Leaves, Others, Slot, Callers
  <1> QED BY <1>1, <1>2, <1>3, <1>4, Bookkeeping

Counted == conns = Cardinality(Busy) /\ conns \in 0 .. MaxConns

LEMMA BusyFinite == IsFiniteSet(Busy) /\ IsFiniteSet(Busy')
  BY ConnsAssumption, FS_Subset DEF Busy

LEMMA CountedNext == Types /\ Counted /\ [Next]_vars => Counted'
  <1> SUFFICES ASSUME Types, Counted, [Next]_vars PROVE Counted'
    OBVIOUS
  <1> USE BoundsAssumption
  <1>1. CASE Quiet
    <2>1. Busy' = Busy
      BY <1>1 DEF Quiet, Busy, Callers
    <2> QED BY <1>1, <2>1 DEF Quiet, Counted
  <1>2. ASSUME NEW c \in Callers, TakesSlot(c) PROVE Counted'
    <2>1. Busy' = Busy
      BY <1>2, CallersAssumption DEF TakesSlot, Others, Busy, Callers
    <2> QED BY <1>2, <2>1 DEF TakesSlot, Counted
  <1>3. ASSUME NEW c \in Callers, CountsIn(c) PROVE Counted'
    <2>1. c \notin Busy /\ Busy' = Busy \cup {c}
      BY <1>3 DEF CountsIn, Others, Busy, Callers
    <2>2. Cardinality(Busy') = Cardinality(Busy) + 1
      BY <2>1, BusyFinite, FS_AddElement
    <2> QED BY <1>3, <2>2 DEF CountsIn, Counted
  <1>4. ASSUME NEW c \in Callers, Leaves(c) PROVE Counted'
    <2>1. CASE c \in Conns
      <3>1. c \in Busy /\ Busy' = Busy \ {c}
        BY <1>4, <2>1 DEF Leaves, Others, Busy, Callers
      <3>2. Cardinality(Busy') = Cardinality(Busy) - 1 /\ Cardinality(Busy') \in Nat
        BY <3>1, BusyFinite, FS_RemoveElement, FS_CardinalityType
      <3> QED BY <1>4, <2>1, <3>2 DEF Leaves, Counted
    <2>2. CASE c \notin Conns
      <3>1. Busy' = Busy
        BY <1>4, <2>2 DEF Leaves, Others, Busy, Callers
      <3> QED BY <1>4, <2>2, <3>1 DEF Leaves, Counted
    <2> QED BY <2>1, <2>2
  <1> QED BY <1>1, <1>2, <1>3, <1>4, Bookkeeping

LEMMA BookInit == Init => Slot /\ Counted
  <1> SUFFICES ASSUME Init PROVE Slot /\ Counted
    OBVIOUS
  <1>1. \A c \in Callers : call[c].pc \notin Working
    BY DEF Init, Fresh, Working, Awaiting
  <1>2. Slot
    BY <1>1, CallersAssumption DEF Init, Slot, Callers
  <1>3. Busy = {}
    BY <1>1 DEF Busy, Callers
  <1> QED BY <1>2, <1>3, FS_EmptySet, BoundsAssumption DEF Init, Counted

-----------------------------------------------------------------------------
(* Cancels. *)

\* Only the caller that steps changes, and only its own abort cancels it.
LEMMA CancelledCall ==
    ASSUME Types, NEW c \in Callers, CallStep(c)
    PROVE  /\ Others(c)
           /\ call'[c].pc = "cancelled" => call[c].pc = "cancelled" \/ c \in aborted
  <1>0. call[c] \in CallType /\ c \in DOMAIN call
    BY DEF Types
  <1>1. CASE Invoke(c) \/ AdmitChat(c) \/ AdmitConn(c)
    BY <1>0, <1>1 DEF Invoke, AdmitChat, AdmitConn, Others, Types, CallType
  <1>2. ASSUME NEW m \in Models, Reuse(c, m) \/ Miss(c, m)
        PROVE  Others(c) /\ call'[c].pc # "cancelled"
    BY <1>0, <1>2 DEF Reuse, Miss, Want, Others, Types
  <1>3. CASE UseExternal(c) \/ TakeStale(c) \/ KillStale(c) \/ TryCpu(c)
    BY <1>0, <1>3 DEF UseExternal, TakeStale, KillStale, TryCpu, Others, Types, CallType
  <1>4. CASE Register(c) \/ BecomeReady(c) \/ CpuInstalled(c)
    BY <1>0, <1>4 DEF Register, BecomeReady, CpuInstalled, Others, Types, CallType
  <1>5. ASSUME NEW s \in Servers, Spawn(c, s)
        PROVE  Others(c) /\ call'[c].pc # "cancelled"
    <2>1. call'[c] = [call[c] EXCEPT !.pc = "wait", !.server = s]
      BY <1>0, <1>5 DEF Spawn
    <2> QED BY <1>0, <1>5, <2>1 DEF Spawn, Others, Types, CallType
  <1>6. CASE Token(c) \/ Cancel(c)
    BY <1>6 DEF Token, Cancel, Others
  <1>7. CASE StartFails(c) \/ Answer(c) \/ RequestFails(c) \/ WaitFails(c)
    BY <1>0, <1>7 DEF StartFails, Answer, RequestFails, WaitFails, End, Fresh, Others, Types
  <1>8. ASSUME NEW outcome \in {"cancelled", "timeout"}, DropFuture(c, outcome)
        PROVE  Others(c) /\ (call'[c].pc = "cancelled" => c \in aborted)
    BY <1>0, <1>8 DEF DropFuture, End, Fresh, Others, Types
  <1> QED BY <1>1, <1>2, <1>3, <1>4, <1>5, <1>6, <1>7, <1>8
          DEF CallStep, Proceed, Hear

CancelInv == aborted \subseteq asked /\ CancelledOnlyIfAsked

LEMMA CancelNext == Types /\ CancelInv /\ [Next]_vars => CancelInv'
  <1> SUFFICES ASSUME Types, CancelInv, [Next]_vars PROVE CancelInv'
    OBVIOUS
  <1>1. aborted' \subseteq asked' /\ asked \subseteq asked'
    BY DEF CancelInv, Next, vars, CallStep, Proceed, Hear, Invoke, AdmitChat, AdmitConn,
       Reuse, Miss, UseExternal, TakeStale, KillStale, Spawn, StartFails, TryCpu, Register,
       BecomeReady, WaitFails, CpuInstalled, Token, Answer, RequestFails, Cancel, DropFuture,
       GrowIdle, ReaperStep, ReaperLooks, ReaperTakes, ReaperKills, StopServer, Terminate,
       Crash, SaveSettings, KillAllTakes, KillAllKills, Gone
  <1>2. ASSUME NEW c \in Callers, CallStep(c) PROVE CancelledOnlyIfAsked'
    BY <1>1, <1>2, CancelledCall DEF CancelInv, CancelledOnlyIfAsked, Others, Callers
  <1>3. CASE ~ \E c \in Callers : CallStep(c)
    <2>1. call' = call
      BY <1>3 DEF Next, vars, GrowIdle, ReaperStep, ReaperLooks, ReaperTakes,
         ReaperKills, StopServer, Terminate, Crash, SaveSettings, KillAllTakes,
         KillAllKills, Gone
    <2> QED BY <1>1, <2>1 DEF CancelInv, CancelledOnlyIfAsked
  <1> QED BY <1>1, <1>2, <1>3 DEF CancelInv

-----------------------------------------------------------------------------
(* The servers of the callers. *)

\* No step but Spawn changes what a server is, or brings one to life.
Frame == \A t \in Servers : /\ server'[t].model = server[t].model
                            /\ server'[t].ctx = server[t].ctx
                            /\ server'[t].life = "alive" => server[t].life = "alive"

LEMMA FrameKilled == ASSUME Types, NEW S, server' = Killed(S) PROVE Frame
  BY DEF Frame, Killed, Types, ServerType

LEMMA FrameIdle ==
    ASSUME Types, NEW s, NEW b, server' = [server EXCEPT ![s].idle = b] PROVE Frame
  <1>1. \A t \in Servers : server'[t] = IF t = s THEN [server[t] EXCEPT !.idle = b] ELSE server[t]
    BY DEF Types
  <1> QED BY <1>1 DEF Frame, Types, ServerType

LEMMA FrameReady ==
    ASSUME Types, NEW s, server' = [server EXCEPT ![s].ready = TRUE] PROVE Frame
  <1>1. \A t \in Servers : server'[t] = IF t = s THEN [server[t] EXCEPT !.ready = TRUE] ELSE server[t]
    BY DEF Types
  <1> QED BY <1>1 DEF Frame, Types, ServerType

LEMMA FrameTouched ==
    ASSUME Types, NEW s, server' = Touched(s) PROVE Frame
  <1>1. CASE s = Nobody
    BY <1>1 DEF Touched, Frame
  <1>2. CASE s # Nobody
    BY <1>2, FrameIdle DEF Touched
  <1> QED BY <1>1, <1>2

LEMMA FrameCall ==
    ASSUME Types, NEW c \in Callers, CallStep(c), \A s \in Servers : ~Spawn(c, s)
    PROVE  Frame
  <1>1. CASE UNCHANGED server
    BY <1>1 DEF Frame
  <1>2. CASE UseExternal(c) \/ Token(c) \/ \E m \in Models : Reuse(c, m)
    BY <1>2, FrameTouched DEF UseExternal, Token, Reuse
  <1>3. CASE KillStale(c) \/ WaitFails(c)
             \/ \E outcome \in {"cancelled", "timeout"} : DropFuture(c, outcome)
    BY <1>3, FrameKilled DEF KillStale, WaitFails, DropFuture
  <1>4. CASE BecomeReady(c)
    BY <1>4, FrameReady DEF BecomeReady
  <1>5. CASE Register(c)
    <2> DEFINE K == Killed({registry} \ {Nobody})
    <2>1. K \in [Servers -> ServerType]
      BY KilledTyped
    <2>2. \A t \in Servers : server'[t] = IF t = call[c].server
                                          THEN [K[t] EXCEPT !.idle = FALSE] ELSE K[t]
      BY <1>5, <2>1 DEF Register
    <2>3. \A t \in Servers : /\ K[t].model = server[t].model /\ K[t].ctx = server[t].ctx
                             /\ K[t].life = "alive" => server[t].life = "alive"
      BY DEF Killed, Types, ServerType
    <2> HIDE DEF K
    <2> QED BY <2>1, <2>2, <2>3 DEF Frame, ServerType
  <1> QED BY <1>1, <1>2, <1>3, <1>4, <1>5
          DEF CallStep, Proceed, Hear, Invoke, AdmitChat, AdmitConn, Miss, TakeStale,
              StartFails, TryCpu, CpuInstalled, Answer, RequestFails, Cancel

LEMMA FrameOther ==
    ASSUME Types, [Next]_vars, ~ \E c \in Callers : CallStep(c)
    PROVE  Frame /\ call' = call
  <1>1. CASE GrowIdle
    BY <1>1, FrameIdle DEF GrowIdle
  <1>2. CASE ReaperLooks \/ ReaperTakes \/ StopServer \/ KillAllTakes \/ Gone
    BY <1>2 DEF ReaperLooks, ReaperTakes, StopServer, KillAllTakes, Gone, Frame
  <1>3. CASE ReaperKills \/ KillAllKills
    BY <1>3, FrameKilled DEF ReaperKills, KillAllKills
  <1>4. ASSUME NEW s \in Servers, Terminate(s) \/ Crash(s) PROVE Frame /\ call' = call
    BY <1>4, FrameKilled DEF Terminate, Crash
  <1>5. ASSUME NEW v \in SettingsValues, SaveSettings(v) PROVE Frame /\ call' = call
    BY <1>5 DEF SaveSettings, Frame
  <1>6. CASE UNCHANGED vars
    BY <1>6 DEF vars, Frame
  <1> QED BY <1>1, <1>2, <1>3, <1>4, <1>5, <1>6 DEF Next, ReaperStep

\* A caller has no server before it has found or started one, and the one it
\* has started, found or must kill is a server.
HasServer ==
    \A c \in Callers :
        /\ call[c].pc \in {"wait", "register", "kill"} => call[c].server \in Servers
        /\ call[c].pc \notin {"wait", "register", "kill", "request"} => call[c].server = Nobody

\* EndpointFits, from the moment the server is started.
Fits(c) ==
    call[c].pc \in {"wait", "register", "request"} /\ call[c].server # Nobody
    => /\ server[call[c].server].model = call[c].model
       /\ server[call[c].server].ctx >= call[c].ctx
FitInv == HasServer /\ \A c \in Callers : Fits(c)

LEMMA FitCall ==
    ASSUME Types, FitInv, NEW c \in Callers, CallStep(c), \A s \in Servers : ~Spawn(c, s)
    PROVE  FitInv'
  <1>0. call[c] \in CallType /\ c \in DOMAIN call /\ Frame /\ Others(c)
    BY FrameCall, CancelledCall DEF Types
  <1>a. \A d \in Callers \ {c} : Fits(d)' /\ call'[d] = call[d]
    BY <1>0 DEF FitInv, Fits, Others, Frame, Types, CallType
  <1>b. ASSUME \/ call'[c].server = Nobody /\ call'[c].pc \notin {"wait", "register", "kill"}
               \/ call'[c].pc = "kill" /\ call'[c].server \in Servers
        PROVE  FitInv'
    BY <1>a, <1>b DEF FitInv, HasServer, Fits
  <1> USE DEF FitInv, HasServer
  <1>1. CASE Invoke(c) \/ AdmitChat(c) \/ AdmitConn(c) \/ UseExternal(c) \/ TryCpu(c)
             \/ KillStale(c) \/ CpuInstalled(c)
    <2>1. call'[c].server = Nobody /\ call'[c].pc \notin {"wait", "register", "kill"}
      <3>1. CASE Invoke(c) \/ AdmitChat(c) \/ AdmitConn(c) \/ UseExternal(c)
        BY <1>0, <3>1 DEF Invoke, AdmitChat, AdmitConn, UseExternal, CallType, Types
      <3>2. CASE TryCpu(c)
        <4>1. call'[c] = [call[c] EXCEPT !.pc = "install", !.server = Nobody]
          BY <1>0, <3>2 DEF TryCpu
        <4> QED BY <1>0, <4>1 DEF CallType
      <3>3. CASE KillStale(c)
        <4>1. call'[c] = [call[c] EXCEPT !.pc = "start", !.server = Nobody]
          BY <1>0, <3>3 DEF KillStale
        <4> QED BY <1>0, <4>1 DEF CallType
      <3>4. CASE CpuInstalled(c)
        <4>1. call'[c] = [call[c] EXCEPT !.pc = "start", !.backend = "cpu"]
              /\ call[c].pc = "install"
          BY <1>0, <3>4 DEF CpuInstalled
        <4> QED BY <1>0, <4>1 DEF CallType
      <3> QED BY <1>1, <3>1, <3>2, <3>3, <3>4
    <2> QED BY <1>b, <2>1
  <1>2. ASSUME NEW m \in Models, Miss(c, m) PROVE FitInv'
    BY <1>0, <1>2, <1>b DEF Miss, Want, Types
  <1>3. CASE TakeStale(c)
    <2>1. call'[c].server = registry
          /\ call'[c].pc = IF registry = Nobody THEN "start" ELSE "kill"
      BY <1>0, <1>3 DEF TakeStale, CallType, Types
    <2> QED BY <1>b, <2>1 DEF Types
  <1>4. CASE \/ StartFails(c) \/ WaitFails(c) \/ Answer(c) \/ RequestFails(c)
             \/ \E outcome \in {"cancelled", "timeout"} : DropFuture(c, outcome)
    <2>1. PICK outcome \in Ended : End(c, outcome)
      BY <1>4 DEF StartFails, WaitFails, Answer, RequestFails, DropFuture, Ended
    <2>2. call'[c].server = Nobody /\ call'[c].pc = outcome
      BY <1>0, <2>1 DEF End, Fresh, Types
    <2> QED BY <1>b, <2>2 DEF Ended
  <1>5. ASSUME NEW m \in Models, Reuse(c, m) PROVE FitInv'
    <2>1. /\ call'[c].server = registry /\ call'[c].pc = "request"
          /\ call'[c].model = m /\ call'[c].ctx = WantedCtx(c)
      BY <1>0, <1>5 DEF Reuse, Want, Types
    <2>2. registry \in Servers /\ server[registry].model = m /\ server[registry].ctx >= WantedCtx(c)
      BY <1>5 DEF Reuse, CanReuse, Alive, Types
    <2>3. Fits(c)'
      BY <1>0, <2>1, <2>2 DEF Fits, Frame
    <2> QED BY <1>a, <2>1, <2>3
  <1>6. CASE BecomeReady(c) \/ Register(c)
    <2>1. /\ call'[c] = [call[c] EXCEPT !.pc = call'[c].pc]
          /\ call[c].pc \in {"wait", "register"} /\ call'[c].pc \in {"register", "request"}
      BY <1>0, <1>6 DEF BecomeReady, Register, CallType
    <2>2. /\ call'[c].server = call[c].server /\ call'[c].model = call[c].model
          /\ call'[c].ctx = call[c].ctx /\ call[c].server \in Servers
      BY <1>0, <2>1 DEF CallType
    <2>3. Fits(c)'
      BY <1>0, <2>1, <2>2 DEF Fits, Frame
    <2> QED BY <1>a, <2>1, <2>2, <2>3
  <1>7. CASE Token(c) \/ Cancel(c)
    <2>1. call' = call
      BY <1>7 DEF Token, Cancel
    <2>2. Fits(c)'
      BY <1>0, <2>1 DEF Fits, Frame, Types, CallType
    <2> QED BY <1>a, <2>1, <2>2
  <1> QED BY <1>1, <1>2, <1>3, <1>4, <1>5, <1>6, <1>7 DEF CallStep, Proceed, Hear

\* A new process has a name nobody refers to.
LEMMA SpawnEffect ==
    ASSUME Types, NEW c \in Callers, NEW s \in Servers, Spawn(c, s)
    PROVE  /\ server'[s] = [Unborn EXCEPT !.life = "alive", !.model = call[c].model,
                                          !.ctx = call[c].ctx]
           /\ \A t \in Servers \ {s} : server'[t] = server[t]
           /\ call'[c] = [call[c] EXCEPT !.pc = "wait", !.server = s]
           /\ Others(c) /\ \A d \in Callers : call[d].server # s
  BY DEF Spawn, Others, Types, Referenced

LEMMA FitNext == Types /\ FitInv /\ [Next]_vars => FitInv'
  <1> SUFFICES ASSUME Types, FitInv, [Next]_vars PROVE FitInv'
    OBVIOUS
  <1>1. ASSUME NEW c \in Callers, CallStep(c), \A s \in Servers : ~Spawn(c, s) PROVE FitInv'
    BY <1>1, FitCall
  <1>2. ASSUME NEW c \in Callers, NEW s \in Servers, Spawn(c, s) PROVE FitInv'
    <2>0. call[c] \in CallType
      BY DEF Types
    <2>1. \A d \in Callers \ {c} : call'[d] = call[d] /\ call[d].server # s
      BY <1>2, SpawnEffect DEF Others
    <2>a. /\ server'[s] = [Unborn EXCEPT !.life = "alive", !.model = call[c].model,
                                         !.ctx = call[c].ctx]
          /\ \A t \in Servers \ {s} : server'[t] = server[t]
          /\ call'[c] = [call[c] EXCEPT !.pc = "wait", !.server = s]
      BY <1>2, SpawnEffect
    <2>2. ASSUME NEW d \in Callers \ {c} PROVE Fits(d)'
      <3>1. call[d].server \in Servers \cup {Nobody} /\ call'[d] = call[d]
            /\ call[d].server # s
        BY <2>1 DEF Types, CallType
      <3>2. call[d].server # Nobody => server'[call[d].server] = server[call[d].server]
        BY <2>a, <3>1
      <3> QED BY <3>1, <3>2 DEF FitInv, Fits
    <2>3. call'[c].pc = "wait" /\ call'[c].server = s
          /\ call'[c].model = call[c].model /\ call'[c].ctx = call[c].ctx
      BY <2>0, <2>a DEF CallType
    <2>4. server'[s].model = call[c].model /\ server'[s].ctx = call[c].ctx
      BY <2>a DEF Unborn
    <2>5. Fits(c)'
      BY <2>0, <2>3, <2>4 DEF Fits, CallType
    <2> QED BY <2>1, <2>2, <2>3, <2>5 DEF FitInv, HasServer
  <1>3. CASE ~ \E c \in Callers : CallStep(c)
    BY <1>3, FrameOther DEF FitInv, HasServer, Fits, Frame, Types, CallType
  <1> QED BY <1>1, <1>2, <1>3

-----------------------------------------------------------------------------
(* No stray server. *)

\* The threads that take a server to kill it take one at a time.
OneAtATime == /\ reaper.pc # "kill" => reaper.server = Nobody
              /\ exit.pc # "killing" => exit.server = Nobody
Owned(s) == Kept(s) \/ Condemned(s)
StrayInv == OneAtATime /\ \A s \in Servers : Up /\ Alive(s) => Owned(s)

\* A killed server, and one that was dead before, is not alive.
LEMMA KilledDead ==
    ASSUME Types, NEW S, NEW s \in Servers, server' = Killed(S), Alive(s)'
    PROVE  s \notin S /\ Alive(s)
  BY CallersAssumption DEF Killed, Alive, Types, ServerType

LEMMA FrameAlive == ASSUME Frame, NEW s \in Servers, Alive(s)' PROVE Alive(s)
  BY DEF Frame, Alive

\* A caller's step leaves what the other threads have taken, and what the
\* other callers hold.
LEMMA OwnedByOthers ==
    ASSUME NEW c \in Callers, Others(c), NEW s \in Servers, Owned(s),
           UNCHANGED <<registry, reaper, doomed, exit>>,
           call[c].server = s /\ call[c].pc \in {"wait", "register", "kill"}
               => /\ call'[c].server = s
                  /\ \/ call'[c].pc = call[c].pc
                     \/ call'[c].pc = "register" /\ call[c].pc = "wait"
    PROVE  Owned(s)'
  <1>1. CASE registry = s \/ s \in doomed \cup {reaper.server, exit.server}
    BY <1>1 DEF Owned, Kept, Condemned
  <1>2. ASSUME NEW d \in Callers, call[d].server = s,
               call[d].pc \in {"wait", "register", "kill"}
        PROVE  Owned(s)'
    <2>1. CASE d # c
      BY <1>2, <2>1 DEF Others, Owned, Kept, Condemned
    <2>2. CASE d = c
      BY <1>2, <2>2 DEF Owned, Kept, Condemned
    <2> QED BY <2>1, <2>2
  <1> QED BY <1>1, <1>2 DEF Owned, Kept, Condemned

LEMMA StrayCall ==
    ASSUME Types, HasServer, StrayInv, NEW c \in Callers, CallStep(c),
           \A s \in Servers : ~Spawn(c, s)
    PROVE  StrayInv'
  <1>0. call[c] \in CallType /\ c \in DOMAIN call /\ Frame /\ Others(c)
        /\ UNCHANGED <<reaper, doomed, exit>>
    <2>1. UNCHANGED <<reaper, doomed, exit>>
      BY DEF CallStep, Proceed, Hear, Invoke, AdmitChat, AdmitConn, Reuse, Miss,
             UseExternal, TakeStale, KillStale, StartFails, TryCpu, Register,
             BecomeReady, WaitFails, CpuInstalled, Token, Answer, RequestFails,
             Cancel, DropFuture
    <2> QED BY <2>1, FrameCall, CancelledCall DEF Types
  <1> SUFFICES ASSUME NEW s \in Servers, Up', Alive(s)' PROVE Owned(s)'
    BY <1>0 DEF StrayInv, OneAtATime
  <1>a. Alive(s) /\ Up /\ Owned(s)
    BY <1>0, FrameAlive DEF StrayInv, Up
  <1>1. ASSUME UNCHANGED registry, call[c].pc \notin {"wait", "register", "kill"}
        PROVE  Owned(s)'
    BY <1>0, <1>1, <1>a, OwnedByOthers
  <1>2. CASE Invoke(c) \/ AdmitChat(c) \/ AdmitConn(c) \/ UseExternal(c) \/ CpuInstalled(c)
             \/ StartFails(c) \/ Answer(c) \/ RequestFails(c)
             \/ \E m \in Models : Reuse(c, m) \/ Miss(c, m)
    BY <1>1, <1>2 DEF Invoke, AdmitChat, AdmitConn, UseExternal, CpuInstalled,
                      StartFails, Answer, RequestFails, Reuse, Miss
  <1>3. CASE Token(c) \/ Cancel(c)
    <2>1. call' = call /\ UNCHANGED registry
      BY <1>3 DEF Token, Cancel
    <2> QED BY <1>0, <1>a, <2>1 DEF Owned, Kept, Condemned
  <1>4. CASE TakeStale(c)
    <2>1. call'[c].server = registry
          /\ call'[c].pc = IF registry = Nobody THEN "start" ELSE "kill"
      BY <1>0, <1>4 DEF TakeStale, CallType
    <2>2. CASE registry = s
      BY <2>1, <2>2, CallersAssumption DEF Owned, Condemned
    <2>3. CASE registry # s
      <3>1. CASE s \in doomed \cup {reaper.server, exit.server}
        BY <1>0, <3>1 DEF Owned, Condemned
      <3>2. ASSUME NEW d \in Callers, call[d].server = s,
                   call[d].pc \in {"wait", "register", "kill"}
            PROVE  Owned(s)'
        BY <1>0, <1>4, <3>2 DEF TakeStale, Others, Owned, Kept, Condemned
      <3> QED BY <1>a, <2>3, <3>1, <3>2 DEF Owned, Kept, Condemned
    <2> QED BY <2>2, <2>3
  <1>5. CASE KillStale(c) \/ WaitFails(c)
    <2>1. s # call[c].server /\ UNCHANGED registry
      BY <1>5, KilledDead DEF KillStale, WaitFails
    <2> QED BY <1>0, <1>a, <2>1, OwnedByOthers
  <1>6. CASE TryCpu(c)
    <2>1. s # call[c].server
      BY <1>6, <1>a DEF TryCpu, FallsBack
    <2> QED BY <1>0, <1>6, <1>a, <2>1, OwnedByOthers DEF TryCpu
  <1>7. CASE BecomeReady(c)
    <2>1. call'[c] = [call[c] EXCEPT !.pc = "register"] /\ UNCHANGED registry
      BY <1>0, <1>7 DEF BecomeReady
    <2>2. call'[c].server = call[c].server /\ call'[c].pc = "register" /\ call[c].pc = "wait"
      BY <1>0, <1>7, <2>1 DEF CallType, BecomeReady
    <2> QED BY <1>0, <1>a, <2>1, <2>2, OwnedByOthers
  <1>8. CASE Register(c)
    <2>1. s # registry
      <3> DEFINE K == Killed({registry} \ {Nobody})
      <3>1. K \in [Servers -> ServerType]
        BY KilledTyped
      <3>2. server'[s] = IF s = call[c].server THEN [K[s] EXCEPT !.idle = FALSE] ELSE K[s]
        BY <1>8, <3>1 DEF Register
      <3>3. K[s].life = "alive"
        BY <3>1, <3>2 DEF Alive, ServerType
      <3>4. s \in {registry} \ {Nobody} => K[s].life = "dead"
        BY DEF Types, ServerType, Killed
      <3> HIDE DEF K
      <3> QED BY <3>3, <3>4, CallersAssumption
    <2>2. CASE s = call[c].server
      BY <1>8, <2>2 DEF Register, Owned, Kept
    <2>3. CASE s # call[c].server
      <3>1. CASE s \in doomed \cup {reaper.server, exit.server}
        BY <1>0, <3>1 DEF Owned, Condemned
      <3>2. ASSUME NEW d \in Callers, call[d].server = s,
                   call[d].pc \in {"wait", "register", "kill"}
            PROVE  Owned(s)'
        BY <1>0, <2>3, <3>2 DEF Others, Owned, Kept, Condemned
      <3> QED BY <1>a, <2>1, <3>1, <3>2 DEF Owned, Kept, Condemned
    <2> QED BY <2>2, <2>3
  <1>9. ASSUME NEW outcome \in {"cancelled", "timeout"}, DropFuture(c, outcome)
        PROVE  Owned(s)'
    <2>1. UNCHANGED registry /\ call[c].pc \notin {"register", "kill"}
          /\ (call[c].pc = "wait" => s # call[c].server)
      BY <1>9, KilledDead DEF DropFuture, Awaiting
    <2> QED BY <1>0, <1>a, <2>1, OwnedByOthers
  <1> QED BY <1>2, <1>3, <1>4, <1>5, <1>6, <1>7, <1>8, <1>9 DEF CallStep, Proceed, Hear

LEMMA StrayNext == Types /\ HasServer /\ StrayInv /\ [Next]_vars => StrayInv'
  <1> SUFFICES ASSUME Types, HasServer, StrayInv, [Next]_vars PROVE StrayInv'
    OBVIOUS
  <1>1. ASSUME NEW c \in Callers, CallStep(c), \A s \in Servers : ~Spawn(c, s)
        PROVE  StrayInv'
    BY <1>1, StrayCall
  <1>2. ASSUME NEW c \in Callers, NEW s \in Servers, Spawn(c, s) PROVE StrayInv'
    <2>0. call[c] \in CallType
      BY DEF Types
    <2>1. /\ \A t \in Servers \ {s} : server'[t] = server[t]
          /\ call'[c] = [call[c] EXCEPT !.pc = "wait", !.server = s]
          /\ Others(c) /\ call[c].pc = "start"
      BY <1>2, SpawnEffect DEF Spawn
    <2>2. call'[c].pc = "wait" /\ call'[c].server = s
      BY <2>0, <2>1 DEF CallType
    <2>3. UNCHANGED <<registry, reaper, doomed, exit>>
      BY <1>2 DEF Spawn
    <2>4. ASSUME NEW t \in Servers, Up', Alive(t)' PROVE Owned(t)'
      <3>1. CASE t = s
        BY <2>2, <3>1 DEF Owned, Kept
      <3>2. CASE t # s
        BY <2>1, <2>3, <2>4, <3>2, OwnedByOthers DEF StrayInv, Alive, Up
      <3> QED BY <3>1, <3>2
    <2> QED BY <2>3, <2>4 DEF StrayInv, OneAtATime
  <1>3. CASE ~ \E c \in Callers : CallStep(c)
    <2>0. Frame /\ call' = call
      BY <1>3, FrameOther
    <2>a. \A s \in Servers : Alive(s)' => Alive(s)
      BY <2>0, FrameAlive
    <2>1. ASSUME UNCHANGED <<registry, reaper, doomed, exit>> PROVE StrayInv'
      BY <2>0, <2>a, <2>1 DEF StrayInv, OneAtATime, Owned, Kept, Condemned, Up
    <2>2. CASE ReaperLooks
      BY <2>0, <2>a, <2>2 DEF ReaperLooks, StrayInv, OneAtATime, Owned, Kept, Condemned, Up, Types
    <2>3. CASE ReaperTakes
      BY <2>0, <2>a, <2>3 DEF ReaperTakes, StrayInv, OneAtATime, Owned, Kept, Condemned, Up, Types
    <2>4. CASE ReaperKills
      <3>1. \A s \in Servers : Alive(s)' => s # reaper.server
        BY <2>4, KilledDead DEF ReaperKills
      <3> QED BY <2>0, <2>a, <2>4, <3>1
              DEF ReaperKills, StrayInv, OneAtATime, Owned, Kept, Condemned, Up, Types
    <2>5. CASE StopServer
      BY <2>0, <2>a, <2>5 DEF StopServer, StrayInv, OneAtATime, Owned, Kept, Condemned, Up
    <2>6. ASSUME NEW s \in Servers, Terminate(s) PROVE StrayInv'
      <3>1. \A t \in Servers : Alive(t)' => t # s
        BY <2>6, KilledDead DEF Terminate
      <3> QED BY <2>0, <2>a, <2>6, <3>1
              DEF Terminate, StrayInv, OneAtATime, Owned, Kept, Condemned, Up
    <2>7. CASE KillAllTakes
      BY <2>0, <2>a, <2>7 DEF KillAllTakes, StrayInv, OneAtATime, Owned, Kept, Condemned, Up
    <2>8. CASE KillAllKills
      <3>1. \A s \in Servers : Alive(s)' => s \notin {exit.server} \ {Nobody}
        BY <2>8, KilledDead DEF KillAllKills
      <3> QED BY <2>0, <2>a, <2>8, <3>1, CallersAssumption
              DEF KillAllKills, StrayInv, OneAtATime, Owned, Kept, Condemned, Up
    <2>9. CASE Gone
      BY <2>9 DEF Gone, StrayInv, OneAtATime, Up, Types
    <2> QED BY <1>3, <2>1, <2>2, <2>3, <2>4, <2>5, <2>6, <2>7, <2>8, <2>9
            DEF Next, ReaperStep, GrowIdle, Crash, SaveSettings, vars
  <1> QED BY <1>1, <1>2, <1>3

-----------------------------------------------------------------------------
(* The theorems. *)

Invariant == Types /\ Slot /\ Counted /\ CancelInv /\ FitInv /\ StrayInv

LEMMA Invariance == Spec => []Invariant
  <1>1. Init => Invariant
    <2>1. Init => CancelInv
      BY DEF Init, CancelInv, CancelledOnlyIfAsked, Fresh, Callers
    <2>2. Init => FitInv
      BY DEF Init, FitInv, HasServer, Fits, Fresh
    <2>3. Init => StrayInv
      BY DEF Init, StrayInv, OneAtATime, Alive, Unborn
    <2> QED BY <2>1, <2>2, <2>3, TypesInit, BookInit DEF Invariant
  <1>2. Invariant /\ [Next]_vars => Invariant'
    BY TypesNext, SlotNext, CountedNext, CancelNext, FitNext, StrayNext
       DEF Invariant, FitInv
  <1> QED BY <1>1, <1>2, PTL DEF Spec

\* Every variable keeps its type; above all the number of connections stays
\* between zero and MAX_CONNS, although it is counted up and down by threads.
THEOREM TypeCorrect == Spec => []TypeOK
  <1>1. Invariant => TypeOK
    BY DEF Invariant, Counted, Types, TypeOK, CallType, ServerType, Pcs
  <1> QED BY <1>1, Invariance, PTL

\* The slot of llm_chat names the one chat that is worked on, whatever way it
\* ends: answer, error, busy, cancel, time-out.
THEOREM OneChatAtATime == Spec => []OneChat
  <1>1. Invariant => OneChat
    BY CallersAssumption DEF Invariant, Slot, OneChat, Types
  <1> QED BY <1>1, Invariance, PTL

\* The relay counts each connection that is worked on exactly once.
THEOREM ConnectionsCounted == Spec => []ConnsCounted
  <1>1. Invariant => ConnsCounted
    BY DEF Invariant, Counted, Busy, ConnsCounted
  <1> QED BY <1>1, Invariance, PTL

\* A late or overtaking llm_cancel never ends another request.
THEOREM CancelsHitTheirOwn == Spec => []CancelledOnlyIfAsked
  <1>1. Invariant => CancelledOnlyIfAsked
    BY DEF Invariant, CancelInv
  <1> QED BY <1>1, Invariance, PTL

\* Whatever is saved, stopped, replaced or started in between, a caller is
\* never answered by a server of another model or with too small a context.
THEOREM EndpointsFit == Spec => []EndpointFits
  <1>1. Invariant => EndpointFits
    BY DEF Invariant, FitInv, Fits, EndpointFits
  <1> QED BY <1>1, Invariance, PTL

\* Through every error, time-out, cancel, replacement, stop and reaping, a
\* running server is registered, waited for or about to be killed.
THEOREM NoServerStrays == Spec => []NoStrayServer
  <1>1. Invariant => NoStrayServer
    BY DEF Invariant, StrayInv, Owned, NoStrayServer
  <1> QED BY <1>1, Invariance, PTL

-----------------------------------------------------------------------------
(* What is taken out is stale: while one caller is at work, nobody else      *)
(* registers a server or finishes starting one.                              *)

\* At most one caller is at work: one chat and no connection, or one connection.
Alone == \A c, d \in Callers : call[c].pc \in Working /\ call[d].pc \in Working => c = d

\* What a caller is about to take out is of no use to it.
Stale(c) == call[c].pc = "take" => ~CanReuse(registry, call[c].model, call[c].ctx)

\* A step that makes no server usable and registers none.
Tame == /\ Frame
        /\ registry' \in {registry, Nobody}
        /\ \A s \in Servers : server'[s].ready = server[s].ready

LEMMA TameKeepsStale ==
    ASSUME Types, Tame, NEW c \in Callers, call'[c] = call[c], Stale(c)
    PROVE  Stale(c)'
  <1> SUFFICES ASSUME call[c].pc = "take",
                      CanReuse(registry, call[c].model, call[c].ctx)'
               PROVE  FALSE
    BY DEF Stale
  <1>1. registry' # Nobody /\ registry' = registry
    BY DEF CanReuse, Alive, Tame
  <1>2. registry \in Servers
    BY <1>1 DEF Types
  <1>3. CanReuse(registry, call[c].model, call[c].ctx)
    BY <1>1, <1>2 DEF CanReuse, Alive, Tame, Frame
  <1> QED BY <1>3 DEF Stale

\* Killing and the idle timer make no server usable.
LEMMA TameServer ==
    ASSUME Types, registry' \in {registry, Nobody},
           \/ server' = server
           \/ \E S : server' = Killed(S)
           \/ \E s, b : server' = [server EXCEPT ![s].idle = b]
    PROVE  Tame
  <1>1. CASE server' = server
    BY <1>1 DEF Tame, Frame
  <1>2. ASSUME NEW S, server' = Killed(S) PROVE Tame
    <2>1. \A s \in Servers : server'[s].ready = server[s].ready
      BY <1>2 DEF Killed, Types, ServerType
    <2> QED BY <1>2, <2>1, FrameKilled DEF Tame
  <1>3. ASSUME NEW s, NEW b, server' = [server EXCEPT ![s].idle = b] PROVE Tame
    <2>1. \A t \in Servers : server'[t].ready = server[t].ready
      <3>1. \A t \in Servers : server'[t] = IF t = s THEN [server[t] EXCEPT !.idle = b] ELSE server[t]
        BY <1>3 DEF Types
      <3> QED BY <3>1 DEF Types, ServerType
    <2> QED BY <1>3, <2>1, FrameIdle DEF Tame
  <1> QED BY <1>1, <1>2, <1>3

LEMMA TameOther ==
    ASSUME Types, [Next]_vars, ~ \E c \in Callers : CallStep(c)
    PROVE  Tame /\ call' = call
  <1>1. call' = call
    BY FrameOther
  <1>2. CASE GrowIdle
    BY <1>2, TameServer DEF GrowIdle
  <1>3. CASE ReaperLooks \/ ReaperTakes \/ StopServer \/ KillAllTakes \/ Gone
    BY <1>3, TameServer DEF ReaperLooks, ReaperTakes, StopServer, KillAllTakes, Gone
  <1>4. CASE ReaperKills \/ KillAllKills
    BY <1>4, TameServer DEF ReaperKills, KillAllKills
  <1>5. ASSUME NEW s \in Servers, Terminate(s) \/ Crash(s) PROVE Tame
    BY <1>5, TameServer DEF Terminate, Crash
  <1>6. CASE (\E v \in SettingsValues : SaveSettings(v)) \/ UNCHANGED vars
    BY <1>6, TameServer DEF SaveSettings, vars
  <1> QED BY <1>1, <1>2, <1>3, <1>4, <1>5, <1>6 DEF Next, ReaperStep

\* A caller that is not at work knocks, or is cancelled.
LEMMA IdleCallersKnock ==
    ASSUME Types, NEW c \in Callers, CallStep(c), call[c].pc \notin Working
    PROVE  UNCHANGED <<server, registry>>
  <1> USE DEF Working, Awaiting
  <1>1. CASE Invoke(c) \/ AdmitChat(c) \/ AdmitConn(c) \/ Cancel(c)
    BY <1>1 DEF Invoke, AdmitChat, AdmitConn, Cancel
  <1> QED BY <1>1 DEF CallStep, Proceed, Hear, UseExternal, TakeStale, KillStale, Spawn,
       StartFails, TryCpu, Register, BecomeReady, WaitFails, CpuInstalled, Token, Answer,
       RequestFails, DropFuture, Reuse, Miss

\* A caller starts to take because it has just found nothing it can use.
LEMMA TakesAfterMiss ==
    ASSUME Types, NEW c \in Callers, CallStep(c), Stale(c)
    PROVE  Stale(c)'
  <1>0. call[c] \in CallType /\ c \in DOMAIN call
    BY DEF Types
  <1>1. ASSUME NEW m \in Models, Miss(c, m) PROVE Stale(c)'
    <2>1. /\ call'[c].model = m /\ call'[c].ctx = WantedCtx(c)
          /\ server' = server /\ registry' = registry
          /\ ~CanReuse(registry, m, WantedCtx(c))
      BY <1>0, <1>1 DEF Miss, Want
    <2> QED BY <2>1 DEF Stale, CanReuse, Alive
  <1>2. ASSUME call'[c].pc # "take" PROVE Stale(c)'
    BY <1>2 DEF Stale
  <1>3. CASE Cancel(c) \/ Token(c)
    <2>1. CASE Token(c)
      BY <1>2, <2>1 DEF Token
    <2>2. CASE Cancel(c)
      BY <2>2 DEF Cancel, Stale, CanReuse, Alive
    <2> QED BY <1>3, <2>1, <2>2
  <1>4. CASE Invoke(c) \/ AdmitChat(c) \/ AdmitConn(c)
    BY <1>0, <1>2, <1>4 DEF Invoke, AdmitChat, AdmitConn, CallType
  <1>5. CASE UseExternal(c) \/ TakeStale(c) \/ KillStale(c) \/ TryCpu(c)
    BY <1>0, <1>2, <1>5 DEF UseExternal, TakeStale, KillStale, TryCpu, CallType
  <1>6. CASE Register(c) \/ BecomeReady(c) \/ CpuInstalled(c)
    BY <1>0, <1>2, <1>6 DEF Register, BecomeReady, CpuInstalled, CallType
  <1>7. ASSUME NEW s \in Servers, Spawn(c, s) PROVE Stale(c)'
    <2>1. call'[c] = [call[c] EXCEPT !.pc = "wait", !.server = s]
      BY <1>7, SpawnEffect
    <2> QED BY <1>0, <1>2, <2>1 DEF CallType
  <1>8. CASE \/ StartFails(c) \/ WaitFails(c) \/ Answer(c) \/ RequestFails(c)
             \/ \E outcome \in {"cancelled", "timeout"} : DropFuture(c, outcome)
    <2>1. PICK outcome \in Ended : End(c, outcome)
      BY <1>8 DEF StartFails, WaitFails, Answer, RequestFails, DropFuture, Ended
    <2>2. call'[c].pc = outcome
      BY <1>0, <2>1 DEF End, Fresh
    <2> QED BY <1>2, <2>2 DEF Ended
  <1>9. ASSUME NEW m \in Models, Reuse(c, m) PROVE Stale(c)'
    BY <1>0, <1>2, <1>9 DEF Reuse, Want
  <1> QED BY <1>1, <1>3, <1>4, <1>5, <1>6, <1>7, <1>8, <1>9 DEF CallStep, Proceed, Hear

AllStale == \A c \in Callers : Stale(c)

LEMMA StaleNext == Types /\ AllStale /\ Alone /\ [Next]_vars => AllStale'
  <1> SUFFICES ASSUME Types, AllStale, Alone, [Next]_vars, NEW c \in Callers
               PROVE  Stale(c)'
    BY DEF AllStale
  <1>1. ASSUME NEW d \in Callers, CallStep(d) PROVE Stale(c)'
    <2>1. CASE d = c
      BY <1>1, <2>1, TakesAfterMiss DEF AllStale
    <2>2. CASE d # c
      <3>1. call'[c] = call[c]
        BY <1>1, <2>2, CancelledCall DEF Others
      <3>2. CASE call[c].pc = "take"
        <4>1. call[d].pc \notin Working
          BY <2>2, <3>2 DEF Alone, Working
        <4>2. UNCHANGED <<server, registry>>
          BY <1>1, <4>1, IdleCallersKnock
        <4> QED BY <3>1, <4>2, TameServer, TameKeepsStale DEF AllStale
      <3>3. CASE call[c].pc # "take"
        BY <3>1, <3>3 DEF Stale
      <3> QED BY <3>2, <3>3
    <2> QED BY <2>1, <2>2
  <1>2. CASE ~ \E d \in Callers : CallStep(d)
    BY <1>2, TameOther, TameKeepsStale DEF AllStale
  <1> QED BY <1>1, <1>2

\* As long as one caller is at work at a time, what ensure_server_ctx takes out
\* and kills is dead, not ready or has another model or context, whatever is
\* stopped, reaped, saved and crashes between its look and its take.
THEOREM TakesStale == Spec /\ []Alone => TakesOnlyStale
  <1> DEFINE TakesIt == \A c \in Callers :
                            call[c].pc = "take" /\ call'[c].pc = "kill"
                                => ~CanReuse(registry, call[c].model, call[c].ctx)
  <1>1. Init => AllStale
    BY DEF Init, AllStale, Stale, Fresh
  <1>2. AllStale /\ [Next]_vars => [TakesIt]_vars
    BY DEF AllStale, Stale
  <1>3. Invariant => Types
    BY DEF Invariant
  <1> QED BY <1>1, <1>2, <1>3, StaleNext, Invariance, PTL DEF Spec, TakesOnlyStale

\* Without the relay the slot sees to that: chats alone take out stale servers.
THEOREM ChatsTakeStale == ASSUME Conns = {} PROVE Spec => TakesOnlyStale
  <1>1. Invariant => Alone
    BY CallersAssumption DEF Invariant, Slot, Alone, Callers
  <1> QED BY <1>1, Invariance, TakesStale, PTL
-----------------------------------------------------------------------------
(* What a shutdown needs: if nobody is starting a server, or killing one, by *)
(* the time llm_kill_all has run, then no server is left.                    *)

\* From the moment shutdown_children takes the registered server, no caller
\* has a server under way and no other thread has one to kill.
NoneUnderWay ==
    exit.pc # "up" => /\ \A c \in Callers : call[c].pc \notin {"wait", "register", "kill"}
                      /\ reaper.pc # "kill" /\ doomed = {}

\* Nothing is registered any more; and nothing runs once the kill is done.
ShutInv == exit.pc # "up" => /\ registry = Nobody
                             /\ exit.pc # "killing" => \A s \in Servers : ~Alive(s)

\* Only registering registers a server.
LEMMA OnlyRegisterRegisters ==
    ASSUME NEW c \in Callers, CallStep(c), registry = Nobody, call[c].pc # "register"
    PROVE  registry' = Nobody /\ UNCHANGED exit
  BY DEF CallStep, Proceed, Hear, Invoke, AdmitChat, AdmitConn, Reuse, Miss,
         UseExternal, TakeStale, KillStale, Spawn, StartFails, TryCpu, Register,
         BecomeReady, WaitFails, CpuInstalled, Token, Answer, RequestFails,
         Cancel, DropFuture

LEMMA ShutNext ==
    Types /\ StrayInv /\ ShutInv /\ NoneUnderWay /\ NoneUnderWay' /\ [Next]_vars => ShutInv'
  <1> SUFFICES ASSUME Types, StrayInv, ShutInv, NoneUnderWay, NoneUnderWay', [Next]_vars
               PROVE  ShutInv'
    OBVIOUS
  <1>1. ASSUME NEW c \in Callers, CallStep(c) PROVE ShutInv'
    <2>1. UNCHANGED exit
      BY <1>1 DEF CallStep, Proceed, Hear, Invoke, AdmitChat, AdmitConn, Reuse, Miss,
         UseExternal, TakeStale, KillStale, Spawn, StartFails, TryCpu, Register,
         BecomeReady, WaitFails, CpuInstalled, Token, Answer, RequestFails,
         Cancel, DropFuture
    <2>2. CASE exit.pc = "up"
      BY <2>1, <2>2 DEF ShutInv
    <2>3. CASE exit.pc # "up"
      <3>1. registry' = Nobody
        BY <1>1, <2>3, OnlyRegisterRegisters DEF ShutInv, NoneUnderWay
      <3>2. \A s \in Servers : ~Spawn(c, s)
        <4> SUFFICES ASSUME NEW s \in Servers, Spawn(c, s) PROVE FALSE
          OBVIOUS
        <4>1. call[c] \in CallType
          BY DEF Types
        <4>2. call'[c] = [call[c] EXCEPT !.pc = "wait", !.server = s]
          BY SpawnEffect
        <4>3. call'[c].pc = "wait"
          BY <4>1, <4>2 DEF CallType
        <4> QED BY <2>1, <2>3, <4>3 DEF NoneUnderWay
      <3>3. \A s \in Servers : Alive(s)' => Alive(s)
        BY <1>1, <3>2, FrameCall, FrameAlive
      <3> QED BY <2>1, <2>3, <3>1, <3>3 DEF ShutInv
    <2> QED BY <2>2, <2>3
  <1>2. CASE ~ \E c \in Callers : CallStep(c)
    <2>1. \A s \in Servers : Alive(s)' => Alive(s)
      BY <1>2, FrameOther, FrameAlive
    <2>2. CASE KillAllTakes
      BY <2>2 DEF KillAllTakes, ShutInv
    <2>3. CASE KillAllKills
      <3>1. \A s \in Servers : Alive(s)' => s # exit.server
        BY <2>3, KilledDead, CallersAssumption DEF KillAllKills
      <3>2. \A s \in Servers : Alive(s) => s = exit.server
        BY <2>3, CallersAssumption DEF KillAllKills, StrayInv, OneAtATime, Owned, Kept,
             Condemned, Up, ShutInv, NoneUnderWay
      <3> QED BY <2>1, <2>3, <3>1, <3>2 DEF KillAllKills, ShutInv
    <2>4. CASE Gone
      BY <2>1, <2>4 DEF Gone, ShutInv, Types
    <2>5. CASE UNCHANGED exit
      <3>1. registry = Nobody => registry' = Nobody
        BY <1>2, <2>5 DEF Next, ReaperStep, GrowIdle, ReaperLooks, ReaperTakes, ReaperKills,
             StopServer, Terminate, Crash, SaveSettings, KillAllTakes, KillAllKills, Gone, vars
      <3> QED BY <2>1, <2>5, <3>1 DEF ShutInv
    <2> QED BY <1>2, <2>2, <2>3, <2>4, <2>5
            DEF Next, ReaperStep, GrowIdle, ReaperLooks, ReaperTakes, ReaperKills,
                StopServer, Terminate, Crash, SaveSettings, vars
  <1> QED BY <1>1, <1>2

\* What llm_kill_all leaves alive is only what others had under way: without
\* it no server outlives the application, whatever else the callers, the user
\* and the threads do during the shutdown.
THEOREM QuietExit == Spec /\ []NoneUnderWay => []NothingOutlivesApp
  <1>1. Init => ShutInv
    BY DEF Init, ShutInv
  <1>2. ShutInv => NothingOutlivesApp
    BY DEF ShutInv, NothingOutlivesApp, Up
  <1>3. Invariant => Types /\ StrayInv
    BY DEF Invariant
  <1> QED BY <1>1, <1>2, <1>3, ShutNext, Invariance, PTL DEF Spec

-----------------------------------------------------------------------------
(* The slot as a lock: the chat that is worked on owns it.                   *)

SlotKeys == {"llm_inflight"}
Worked == {c \in Chats : call[c].pc \in Working}
Worker == IF Worked = {} THEN Nobody ELSE CHOOSE c \in Worked : TRUE

ChatSlot == INSTANCE KeyedMutex WITH
    Keys <- SlotKeys, Actors <- Chats, owner <- [k \in SlotKeys |-> Worker]

InSlot == Worker = inflight

LEMMA WorkerIsInSlot == Types /\ Slot => InSlot
  BY CallersAssumption DEF Types, Slot, InSlot, Worker, Worked

\* A chat becomes the one that is worked on only when none is, and only its own
\* end - answer, error, cancel or time-out - makes room for the next: work is
\* never handed from one chat to another, and a refused chat disturbs nothing.
THEOREM ChatsHoldTheSlot == Spec => ChatSlot!Spec
  <1> DEFINE owner == [k \in SlotKeys |-> Worker]
  <1>1. Init => ChatSlot!Init
    <2> SUFFICES ASSUME Init PROVE ChatSlot!Init
      OBVIOUS
    <2>1. Worker = inflight
      BY TypesInit, BookInit, WorkerIsInSlot DEF InSlot
    <2> QED BY <2>1 DEF Init, ChatSlot!Init
  <1>2. Invariant => InSlot
    BY WorkerIsInSlot DEF Invariant
  <1>3. Invariant /\ Invariant' /\ [Next]_vars => [ChatSlot!Next]_owner
    <2>1. Invariant' => InSlot'
      BY <1>2, PTL
    <2> SUFFICES ASSUME Types, Worker = inflight, Worker' = inflight', [Next]_vars
                 PROVE  [ChatSlot!Next]_owner
      BY <1>2, <2>1 DEF Invariant, InSlot
    <2>2. PICK k \in SlotKeys : k = "llm_inflight"
      BY DEF SlotKeys
    <2>3. CASE inflight' = inflight
      BY <2>3
    <2>4. ASSUME NEW c \in Callers, TakesSlot(c) PROVE ChatSlot!Next
      <3>1. c \in Chats /\ ChatSlot!Acquire(k, c)
        BY <2>2, <2>4 DEF TakesSlot, ChatSlot!Acquire, ChatSlot!Free, SlotKeys
      <3> QED BY <3>1 DEF ChatSlot!Next
    <2>5. ASSUME NEW c \in Callers, Leaves(c), inflight' # inflight PROVE ChatSlot!Next
      <3>1. inflight = c /\ inflight' = Nobody
        BY <2>5 DEF Leaves
      <3>2. c \in Chats
        BY <2>5, <3>1, CallersAssumption DEF Types
      <3>3. ChatSlot!Release(k, c)
        BY <2>2, <3>1 DEF ChatSlot!Release, SlotKeys
      <3> QED BY <3>2, <3>3 DEF ChatSlot!Next
    <2> QED BY <2>3, <2>4, <2>5, Bookkeeping DEF Quiet, CountsIn
  <1> QED BY <1>1, <1>3, Invariance, PTL DEF Spec, ChatSlot!Spec
=============================================================================

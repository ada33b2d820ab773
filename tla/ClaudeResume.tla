----------------------------- MODULE ClaudeResume -----------------------------
(***************************************************************************)
(* Which Claude session ran in which terminal, kept over restarts          *)
(* (claude_resume.rs): a thread writes a snapshot to one file again and    *)
(* again, shutdown writes the last one, the next start reads the file, and *)
(* each terminal that is opened takes its record once and resumes the      *)
(* session.  The front end (lib/terminal-engine.ts, stores/terminals.ts)   *)
(* opens and closes terminals; Claude and its user come and go.            *)
(*                                                                         *)
(* A map from terminals to sessions is total: NoSession stands for a key   *)
(* that is not there.                                                      *)
(***************************************************************************)
EXTENDS Naturals

CONSTANTS
    Terminals,   \* ids of panes, the same over restarts
    Sessions,    \* Claude's session ids
    NoSession,   \* no entry for a terminal
    NotWritten,  \* written, before this run's first write
    NotRead,     \* a snapshot that is not under way
    MaxStarts    \* bound: starts of the application

ASSUME SessionsAssumption == NoSession \notin Sessions
ASSUME WrittenAssumption == NotWritten \notin [Terminals -> Sessions \cup {NoSession}]

VARIABLES
    app,       \* "up", "closing", "killed" (the shells are), "down"
    tabs,      \* the panes that exist, kept by the front end over restarts
    opening,   \* term_open is on its way
    open,      \* the shells in the registry
    asks,      \* claude_resume_take is on its way
    forgets,   \* claude_resume_forget is on its way
    running,   \* terminal -> session of the Claude that runs in it
    resumed,   \* terminal -> session that was resumed in it in this run
               \* and comes up or still runs
    pending,   \* carried over from the last run and not taken
    aged,      \* their records are older than PENDING_MAX_AGE_MS
    inflight,  \* taken, until the snapshot sees the session or INFLIGHT_TTL
    late,      \* they are older than INFLIGHT_TTL
    written,   \* what the last write of this run put into the file
    frozen,    \* the last snapshot was taken
    snap,      \* snapshot -> the shells and sessions it has read
    file,      \* claude-resume.json
    ran,       \* history: what the last snapshot read and could store
    starts     \* of the application

shells == <<opening, open>>
calls == <<asks, forgets>>
claudes == <<running, resumed>>
carried == <<pending, aged>>
store == <<written, frozen, file, ran>>
vars == <<app, tabs, shells, calls, claudes, carried, inflight, late, store, snap, starts>>

Maps == [Terminals -> Sessions \cup {NoSession}]
Nothing == [t \in Terminals |-> NoSession]
In(m) == {m[t] : t \in Terminals} \ {NoSession}
Without(m, ts) == [t \in Terminals |-> IF t \in ts THEN NoSession ELSE m[t]]
Snapshots == {"period", "last"}

\* A session is recorded for one terminal at most.
OneEach(m) == \A t, u \in Terminals : m[t] # NoSession /\ m[t] = m[u] => t = u

\* What the front end, the user and Claude still do between the last reading
\* and the kill, which the file no longer sees, is left out.
Up == app = "up"

-----------------------------------------------------------------------------
(* Terminals and what runs in them.                                        *)

\* A view opens its shell and, at the same time, asks for the record.
OpenTerminal(t) ==
    /\ Up /\ t \in tabs \ (opening \cup open)
    /\ opening' = opening \cup {t}
    /\ asks' = asks \cup {t}
    /\ UNCHANGED <<app, tabs, open, forgets, claudes, carried, inflight, late, store, snap, starts>>

\* Or it is opened to launch something else, and forgets the record.
OpenToLaunch(t) ==
    /\ Up /\ t \in tabs \ (opening \cup open)
    /\ opening' = opening \cup {t}
    /\ forgets' = forgets \cup {t}
    /\ UNCHANGED <<app, tabs, open, asks, claudes, carried, inflight, late, store, snap, starts>>

\* term_open registers the shell, or fails.
ShellOpens(t) ==
    /\ Up /\ t \in opening
    /\ opening' = opening \ {t}
    /\ \/ open' = open \cup {t}
          /\ UNCHANGED resumed
       \/ resumed' = Without(resumed, {t}) /\ UNCHANGED open
    /\ UNCHANGED <<app, tabs, calls, running, carried, inflight, late, store, snap, starts>>

\* The shell ends and its Claude with it.
ShellEnds(t) ==
    /\ Up /\ t \in open
    /\ open' = open \ {t}
    /\ running' = Without(running, {t})
    /\ resumed' = Without(resumed, {t})
    /\ UNCHANGED <<app, tabs, opening, calls, carried, inflight, late, store, snap, starts>>

\* dropPane: the pane is closed for good.  term_close finds no shell while
\* term_open is on its way, and that shell opens all the same.
ClosePane(t) ==
    /\ Up /\ t \in tabs
    /\ tabs' = tabs \ {t}
    /\ open' = open \ {t}
    /\ forgets' = forgets \cup {t}
    /\ running' = Without(running, {t})
    /\ resumed' = Without(resumed, {t})
    /\ UNCHANGED <<app, opening, asks, carried, inflight, late, store, snap, starts>>

\* The line that resumes the session was typed and Claude has come up.
ResumedComesUp(t) ==
    /\ Up /\ t \in open
    /\ resumed[t] # NoSession /\ running[t] = NoSession
    /\ running' = [running EXCEPT ![t] = resumed[t]]
    /\ UNCHANGED <<app, tabs, shells, calls, resumed, carried, inflight, late, store, snap, starts>>

\* It was not typed (no line for this shell, no shell), or to no effect.
ResumeFails(t) ==
    /\ Up
    /\ resumed[t] \notin {NoSession, running[t]}
    /\ resumed' = [resumed EXCEPT ![t] = NoSession]
    /\ UNCHANGED <<app, tabs, shells, calls, running, carried, inflight, late, store, snap, starts>>

\* The user starts a Claude, or turns one to another session.
UserRuns(t, s) ==
    /\ Up /\ t \in open
    /\ running[t] # s
    /\ running' = [running EXCEPT ![t] = s]
    /\ resumed' = [resumed EXCEPT ![t] = NoSession]
    /\ UNCHANGED <<app, tabs, shells, calls, carried, inflight, late, store, snap, starts>>

\* The Claude ends and the shell stays.
ClaudeEnds(t) ==
    /\ Up /\ running[t] # NoSession
    /\ running' = [running EXCEPT ![t] = NoSession]
    /\ resumed' = [resumed EXCEPT ![t] = NoSession]
    /\ UNCHANGED <<app, tabs, shells, calls, carried, inflight, late, store, snap, starts>>

-----------------------------------------------------------------------------
(* The records.                                                            *)

\* session_live_anywhere: others run in consoles that are not ours or were
\* left by a crash; a registry file that Claude is writing cannot be read.
Live(others, unreadable) == (In(running) \cup others) \ unreadable

\* take_in takes the record in any case, and answers with it unless resuming
\* is off, the folder is gone, or the session runs or is resumed elsewhere.
\* An answer for a view that is gone is dropped.
Take(t) ==
    /\ app # "down" /\ t \in asks
    /\ asks' = asks \ {t}
    /\ pending' = Without(pending, {t})
    /\ aged' = aged \ {t}
    /\ \/ UNCHANGED <<inflight, late, resumed>>
       \/ /\ pending[t] # NoSession
          /\ \E others, unreadable \in SUBSET Sessions : pending[t] \notin Live(others, unreadable)
          /\ \A u \in Terminals \ {t} : inflight[u] # pending[t]
          /\ inflight' = [inflight EXCEPT ![t] = pending[t]]
          /\ late' = late \ {t}
          /\ resumed' = IF t \in tabs \cap (opening \cup open)
                        THEN [resumed EXCEPT ![t] = pending[t]] ELSE resumed
    /\ UNCHANGED <<app, tabs, shells, forgets, running, store, snap, starts>>

\* forget_in.
Forget(t) ==
    /\ app # "down" /\ t \in forgets
    /\ forgets' = forgets \ {t}
    /\ pending' = Without(pending, {t})
    /\ aged' = aged \ {t}
    /\ inflight' = Without(inflight, {t})
    /\ late' = late \ {t}
    /\ UNCHANGED <<app, tabs, shells, asks, claudes, store, snap, starts>>

\* INFLIGHT_TTL passes, PENDING_MAX_AGE_MS passes.
GrowLate(t) ==
    /\ app # "down" /\ inflight[t] # NoSession /\ t \notin late
    /\ late' = late \cup {t}
    /\ UNCHANGED <<app, tabs, shells, calls, claudes, carried, inflight, store, snap, starts>>

GrowOld(t) ==
    /\ app # "down" /\ pending[t] # NoSession /\ t \notin aged
    /\ aged' = aged \cup {t}
    /\ UNCHANGED <<app, tabs, shells, calls, claudes, pending, inflight, late, store, snap, starts>>

-----------------------------------------------------------------------------
(* Snapshots.  A snapshot reads the shells and the sessions in them, and   *)
(* merges and writes in one critical section later.                        *)

\* map_live: the session of each terminal, and one terminal for a session.
LiveMaps(unreadable) ==
    {m \in Maps :
        /\ \A t \in Terminals : m[t] \in {running[t], NoSession}
        /\ In(m) = In(running) \ unreadable
        /\ OneEach(m)}

\* What a reading finds; the thread and shutdown may read at the same time.
Read(w, unreadable) ==
    \E m \in LiveMaps(unreadable) : snap' = [snap EXCEPT ![w] = [open |-> open, live |-> m]]

\* The thread's round.
PeriodReads(unreadable) ==
    /\ app # "down" /\ snap["period"] = NotRead
    /\ Read("period", unreadable)
    /\ UNCHANGED <<app, tabs, shells, calls, claudes, carried, inflight, late, store, starts>>

\* shutdown_children begins with the last snapshot.
Quit(unreadable) ==
    /\ app = "up" /\ app' = "closing"
    /\ Read("last", unreadable)
    /\ UNCHANGED <<tabs, shells, calls, claudes, carried, inflight, late, store, starts>>

\* The taken records whose sessions are still awaited.
Retained(live) ==
    [t \in Terminals |-> IF live[t] # NoSession \/ t \in late THEN NoSession ELSE inflight[t]]

\* The record a terminal without a session brings into the snapshot: a taken
\* one, or one not taken while its shell has not been opened.
Candidates(live, kept, opened) ==
    [t \in Terminals |->
        IF live[t] # NoSession THEN NoSession
        ELSE IF kept[t] # NoSession THEN kept[t]
        ELSE IF t \in opened \cup aged THEN NoSession ELSE pending[t]]

\* The one terminal among several with a session: taken ones come first,
\* then the order of the map's keys.
First(ts, kept) ==
    CHOOSE t \in ts : (\E u \in ts : kept[u] # NoSession) => kept[t] # NoSession

\* Mutation: a session is kept for each terminal that has a record of it.
MergedForEach(live, kept, opened) ==
    LET cand == Candidates(live, kept, opened)
    IN [t \in Terminals |-> IF live[t] # NoSession THEN live[t] ELSE cand[t]]

\* Mutation: what was not taken yet is left out.
MergedWithoutPending(live, kept, opened) ==
    [t \in Terminals |-> IF live[t] # NoSession THEN live[t]
                         ELSE IF kept[t] \in In(live) THEN NoSession ELSE kept[t]]

\* merge_snapshot: a session is kept for one terminal only, where it runs if
\* it does.
Merged(live, kept, opened) ==
    LET cand == Candidates(live, kept, opened)
    IN [t \in Terminals |->
           IF live[t] # NoSession THEN live[t]
           ELSE IF /\ cand[t] \notin In(live)
                   /\ t = First({u \in Terminals : cand[u] = cand[t]}, kept)
                THEN cand[t] ELSE NoSession]

\* snapshot's critical section, whether its write is needed and succeeds.
Writes(w, ok) ==
    LET read == snap[w]
        kept == Retained(read.live)
        merged == Merged(read.live, kept, read.open)
    IN /\ inflight' = kept
       /\ late' = {t \in late : kept[t] # NoSession}
       /\ frozen' = (w = "last")
       /\ IF written # merged /\ ok
          THEN file' = merged /\ written' = merged
          ELSE UNCHANGED <<file, written>>
       /\ ran' = IF w = "last" /\ (ok \/ written = merged) THEN read.live ELSE ran

\* Mutation: the last snapshot does not end the rounds.
SnapshotUnfrozen(w, ok) ==
    /\ app # "down" /\ snap[w] # NotRead
    /\ snap' = [snap EXCEPT ![w] = NotRead]
    /\ Writes(w, ok)
    /\ UNCHANGED <<app, tabs, shells, calls, claudes, carried, starts>>

\* snapshot_in and the write, under one lock; after the last snapshot nothing.
Snapshot(w, ok) ==
    /\ app # "down" /\ snap[w] # NotRead
    /\ snap' = [snap EXCEPT ![w] = NotRead]
    /\ IF frozen THEN UNCHANGED <<inflight, late, store>> ELSE Writes(w, ok)
    /\ UNCHANGED <<app, tabs, shells, calls, claudes, carried, starts>>

-----------------------------------------------------------------------------
(* The end of the application, and its next start.                         *)

\* kill_all.
KillAll ==
    /\ app = "closing" /\ snap["last"] = NotRead
    /\ app' = "killed"
    /\ open' = {}
    /\ running' = Nothing /\ resumed' = Nothing
    /\ UNCHANGED <<tabs, opening, calls, carried, inflight, late, store, snap, starts>>

\* The process is gone, in order or by a crash at any moment, and leaves the
\* file; so does what is left of its terminals.
Ends ==
    /\ app # "down" /\ app' = "down"
    /\ running' = Nothing /\ resumed' = Nothing
    /\ opening' = {} /\ open' = {}
    /\ asks' = {} /\ forgets' = {}
    /\ pending' = Nothing /\ aged' = {}
    /\ inflight' = Nothing /\ late' = {}
    /\ written' = NotWritten /\ frozen' = FALSE
    /\ snap' = [w \in Snapshots |-> NotRead]
    /\ UNCHANGED <<tabs, file, ran, starts>>

\* start: the records that are not too old are read, before the thread is
\* spawned; none if the file cannot be read.
Start(old) ==
    /\ app = "down" /\ starts < MaxStarts
    /\ app' = "up" /\ starts' = starts + 1
    /\ pending' = Without(file, old)
    /\ ran' = Nothing
    /\ UNCHANGED <<tabs, shells, calls, claudes, aged, inflight, late, written, frozen, file, snap>>

-----------------------------------------------------------------------------
\* Before the first start: a file that earlier runs have left, or none.
Init ==
    /\ app = "down" /\ starts = 0
    /\ tabs = Terminals
    /\ opening = {} /\ open = {}
    /\ asks = {} /\ forgets = {}
    /\ running = Nothing /\ resumed = Nothing
    /\ pending = Nothing /\ aged = {}
    /\ inflight = Nothing /\ late = {}
    /\ written = NotWritten /\ frozen = FALSE
    /\ file \in {m \in Maps : OneEach(m)} /\ ran = Nothing
    /\ snap = [w \in Snapshots |-> NotRead]

TerminalStep(t) ==
    \/ OpenTerminal(t) \/ OpenToLaunch(t) \/ ShellOpens(t) \/ ShellEnds(t) \/ ClosePane(t)
    \/ ResumedComesUp(t) \/ ResumeFails(t)
    \/ ClaudeEnds(t)
    \/ \E s \in Sessions : UserRuns(t, s)

RecordStep(t) == Take(t) \/ Forget(t) \/ GrowLate(t) \/ GrowOld(t)

SnapshotStep ==
    \/ \E unreadable \in SUBSET Sessions : PeriodReads(unreadable) \/ Quit(unreadable)
    \/ \E w \in Snapshots, ok \in BOOLEAN : Snapshot(w, ok)

AppStep ==
    \/ KillAll \/ Ends
    \/ \E old \in SUBSET Terminals : Start(old)

Next ==
    \/ \E t \in Terminals : TerminalStep(t) \/ RecordStep(t)
    \/ SnapshotStep
    \/ AppStep

Spec == Init /\ [][Next]_vars

-----------------------------------------------------------------------------
(* Properties.                                                             *)

TypeOK ==
    /\ app \in {"up", "closing", "killed", "down"}
    /\ tabs \subseteq Terminals /\ opening \subseteq Terminals
    /\ open \subseteq Terminals
    /\ asks \subseteq Terminals /\ forgets \subseteq Terminals
    /\ running \in Maps /\ resumed \in Maps
    /\ pending \in Maps /\ aged \subseteq Terminals
    /\ inflight \in Maps /\ late \subseteq Terminals
    /\ written \in Maps \cup {NotWritten} /\ frozen \in BOOLEAN
    /\ snap \in [Snapshots -> [open : SUBSET Terminals, live : Maps] \cup {NotRead}]
    /\ file \in Maps /\ ran \in Maps /\ starts \in Nat

\* What the last snapshot saw running, and could store, is in the file until
\* the next start, whatever rounds of the thread are still under way
\* (frozen, and written as a shortcut for the file's content).
QuitIsKept == \A t \in Terminals : ran[t] # NoSession => file[t] = ran[t]

\* The session of a terminal nobody has opened in this run stays in the
\* file, so that no crash can lose it: its record, or that of a terminal
\* where it runs by now (merge_snapshot).
UnopenedIsKept ==
    app # "down" =>
        \A t \in Terminals \ (asks \cup forgets \cup aged) :
            pending[t] # NoSession => pending[t] \in In(file)

\* No session is resumed in two terminals, not even when both are opened at
\* once and the registry knows neither yet (merge_snapshot, take_in).
ResumedOnce ==
    \A t, u \in Terminals :
        t # u /\ resumed[t] # NoSession => resumed[t] # resumed[u]
=============================================================================

------------------------- MODULE ClaudeResumeProofs -------------------------
(***************************************************************************)
(* Theorems about ClaudeResume, for every set of terminals and sessions,   *)
(* any number of starts and crashes and every result of a write.           *)
(***************************************************************************)
EXTENDS ClaudeResume, TLAPS

\* Nothing of a run outlives its process.
Down ==
    app = "down" =>
        /\ open = {} /\ opening = {} /\ asks = {} /\ forgets = {}
        /\ running = Nothing /\ resumed = Nothing
        /\ pending = Nothing /\ aged = {} /\ inflight = Nothing /\ late = {}
        /\ written = NotWritten /\ frozen = FALSE
        /\ snap = [w \in Snapshots |-> NotRead]

\* A Claude runs in an open shell, now and in what a snapshot has read.
Shelled ==
    /\ \A t \in Terminals : running[t] # NoSession => t \in open
    /\ \A w \in Snapshots : snap[w] # NotRead =>
           /\ OneEach(snap[w].live)
           /\ \A t \in Terminals : snap[w].live[t] # NoSession => t \in snap[w].open

\* A shell is opened, or read by a snapshot, with its record asked for.
Asked ==
    \A t \in Terminals :
        pending[t] # NoSession /\ t \notin asks \cup forgets =>
            /\ t \notin opening \cup open
            /\ \A w \in Snapshots : snap[w] # NotRead => t \notin snap[w].open

\* A record is waiting or taken, not both.
Single == \A t \in Terminals : inflight[t] # NoSession => pending[t] = NoSession

\* What the last snapshot stored stays: nothing is written any more.
Kept ==
    /\ written # NotWritten => written = file
    /\ \A t \in Terminals :
           ran[t] # NoSession => file[t] = ran[t] /\ (frozen \/ app = "down")

\* A session is recorded once, and not any more where it was resumed.
Once ==
    /\ OneEach(file) /\ OneEach(pending) /\ OneEach(resumed)
    /\ \A t, u \in Terminals : resumed[t] # NoSession => resumed[t] # pending[u]

IInv ==
    /\ TypeOK /\ Down
    /\ Shelled /\ Asked /\ Single
    /\ Kept /\ UnopenedIsKept /\ Once

-----------------------------------------------------------------------------
(* The merge.                                                              *)

LEMMA RetainedType ==
    ASSUME NEW live \in Maps, inflight \in Maps
    PROVE  Retained(live) \in Maps
BY DEF Retained, Maps

LEMMA CandidatesType ==
    ASSUME NEW live \in Maps, NEW kept \in Maps, NEW opened, pending \in Maps
    PROVE  Candidates(live, kept, opened) \in Maps
BY DEF Candidates, Maps

\* First chooses among the terminals it is given.
LEMMA FirstIsOne ==
    ASSUME NEW ts, ts # {}, NEW kept
    PROVE  First(ts, kept) \in ts
<1>1. CASE \E t \in ts : kept[t] # NoSession
  <2>1. PICK t \in ts : kept[t] # NoSession
    BY <1>1
  <2> QED BY <2>1 DEF First
<1>2. CASE ~\E t \in ts : kept[t] # NoSession
  BY <1>2 DEF First
<1> QED BY <1>1, <1>2

\* merge_snapshot records every session once, keeps the running ones in
\* their terminals and leaves no candidate's session out.
LEMMA MergedFacts ==
    ASSUME NEW live \in Maps, OneEach(live), NEW kept \in Maps, NEW opened,
           pending \in Maps
    PROVE  LET m == Merged(live, kept, opened)
               cand == Candidates(live, kept, opened)
           IN /\ m \in Maps
              /\ OneEach(m)
              /\ \A t \in Terminals : live[t] # NoSession => m[t] = live[t]
              /\ \A t \in Terminals : cand[t] # NoSession => cand[t] \in In(m)
<1> DEFINE m == Merged(live, kept, opened)
           cand == Candidates(live, kept, opened)
           Same(s) == {u \in Terminals : cand[u] = s}
<1>1. cand \in Maps
  BY CandidatesType
<1>2. m = [t \in Terminals |->
              IF live[t] # NoSession THEN live[t]
              ELSE IF cand[t] \notin In(live) /\ t = First(Same(cand[t]), kept)
                   THEN cand[t] ELSE NoSession]
  BY DEF Merged
<1> HIDE DEF m, cand
<1>3. m \in Maps
  BY <1>1, <1>2 DEF Maps
<1>4. \A t \in Terminals : live[t] # NoSession => m[t] = live[t]
  BY <1>2
<1>5. ASSUME NEW t \in Terminals, live[t] = NoSession, m[t] # NoSession
      PROVE  m[t] = cand[t] /\ cand[t] \notin In(live) /\ t = First(Same(cand[t]), kept)
  BY <1>2, <1>5
<1>6. OneEach(m)
  <2> SUFFICES ASSUME NEW t \in Terminals, NEW u \in Terminals,
                      m[t] # NoSession, m[t] = m[u]
               PROVE  t = u
    BY DEF OneEach
  <2>1. CASE live[t] # NoSession /\ live[u] # NoSession
    BY <2>1, <1>4 DEF OneEach
  <2>2. CASE live[t] = NoSession /\ live[u] # NoSession
    BY <2>2, <1>4, <1>5 DEF In
  <2>3. CASE live[t] # NoSession /\ live[u] = NoSession
    BY <2>3, <1>4, <1>5 DEF In
  <2>4. CASE live[t] = NoSession /\ live[u] = NoSession
    <3>1. cand[t] = cand[u]
      BY <2>4, <1>5
    <3>2. t = First(Same(cand[t]), kept)
      BY <2>4, <1>5
    <3>3. u = First(Same(cand[u]), kept)
      BY <2>4, <1>5
    <3> HIDE DEF Same
    <3> QED BY <3>1, <3>2, <3>3
  <2> QED BY <2>1, <2>2, <2>3, <2>4
<1>7. ASSUME NEW t \in Terminals, cand[t] # NoSession
      PROVE  cand[t] \in In(m)
  <2>1. CASE cand[t] \in In(live)
    BY <2>1, <1>4 DEF In
  <2>2. CASE cand[t] \notin In(live)
    <3>1. PICK u \in Same(cand[t]) : u = First(Same(cand[t]), kept)
      <4>1. t \in Same(cand[t])
        OBVIOUS
      <4> HIDE DEF Same
      <4> QED BY <4>1, FirstIsOne
    <3>2. u \in Terminals /\ cand[u] = cand[t]
      BY <3>1
    <3>3. live[u] = NoSession
      BY <3>2, <1>7 DEF cand, Candidates
    <3>4. m[u] = cand[t]
      BY <1>2, <2>2, <3>1, <3>2, <3>3
    <3> QED BY <3>2, <3>4, <1>7 DEF In
  <2> QED BY <2>1, <2>2
<1> QED BY <1>3, <1>4, <1>6, <1>7 DEF m, cand

-----------------------------------------------------------------------------
(* The invariant.                                                          *)

LEMMA InitIInv == Init => IInv
<1> SUFFICES ASSUME Init PROVE IInv
  OBVIOUS
<1>1. Nothing \in Maps
  BY DEF Nothing, Maps
<1> QED
  BY <1>1 DEF Init, IInv, TypeOK, Down, Shelled, Asked, Single, Kept, UnopenedIsKept,
              Once, OneEach, Nothing

LEMMA TypeStep == IInv /\ [Next]_vars => TypeOK'
<1> SUFFICES ASSUME IInv, [Next]_vars PROVE TypeOK'
  OBVIOUS
<1> USE DEF IInv
<1>1. Nothing \in Maps
  BY DEF Nothing, Maps
<1>2. ASSUME NEW m \in Maps, NEW ts PROVE Without(m, ts) \in Maps
  BY DEF Without, Maps
<1>3. ASSUME NEW m \in Maps, NEW t \in Terminals, NEW s \in Sessions \cup {NoSession}
      PROVE  [m EXCEPT ![t] = s] \in Maps
  BY DEF Maps
<1>4. ASSUME NEW m \in Maps, NEW t \in Terminals PROVE m[t] \in Sessions \cup {NoSession}
  BY DEF Maps
<1>5. ASSUME NEW t \in Terminals, TerminalStep(t) PROVE TypeOK'
  <2> USE DEF TypeOK
  <2>1. CASE OpenTerminal(t) \/ OpenToLaunch(t)
    BY <2>1 DEF OpenTerminal, OpenToLaunch, claudes, carried, store
  <2>2. CASE ShellOpens(t)
    BY <2>2, <1>2 DEF ShellOpens, calls, carried, store
  <2>3. CASE ShellEnds(t) \/ ClosePane(t)
    BY <2>3, <1>2 DEF ShellEnds, ClosePane, calls, carried, store
  <2>4. CASE ResumedComesUp(t)
    BY <2>4, <1>3, <1>4 DEF ResumedComesUp, shells, calls, carried, store
  <2>5. CASE ResumeFails(t) \/ ClaudeEnds(t)
    BY <2>5, <1>3 DEF ResumeFails, ClaudeEnds, shells, calls, carried, store
  <2>6. ASSUME NEW s \in Sessions, UserRuns(t, s) PROVE TypeOK'
    BY <2>6, <1>3 DEF UserRuns, shells, calls, carried, store
  <2> QED BY <1>5, <2>1, <2>2, <2>3, <2>4, <2>5, <2>6 DEF TerminalStep
<1>6. ASSUME NEW t \in Terminals, RecordStep(t) PROVE TypeOK'
  <2> USE DEF TypeOK
  <2>1. CASE Take(t)
    BY <2>1, <1>2, <1>3, <1>4 DEF Take, shells, store
  <2>2. CASE Forget(t)
    BY <2>2, <1>2 DEF Forget, shells, claudes, store
  <2>3. CASE GrowLate(t) \/ GrowOld(t)
    BY <2>3 DEF GrowLate, GrowOld, shells, calls, claudes, carried, store
  <2> QED BY <1>6, <2>1, <2>2, <2>3 DEF RecordStep
<1>7. ASSUME NEW w \in Snapshots, NEW ok \in BOOLEAN, Snapshot(w, ok) PROVE TypeOK'
  <2>1. CASE frozen
    BY <2>1, <1>7 DEF TypeOK, Snapshot, shells, calls, claudes, carried, store
  <2>2. CASE ~frozen
    <3> DEFINE live == snap[w].live
               kept == Retained(live)
               merged == Merged(live, kept, snap[w].open)
    <3>1. live \in Maps
      BY <1>7 DEF TypeOK, Snapshot
    <3>2. kept \in Maps
      BY <3>1, RetainedType DEF TypeOK
    <3>3. OneEach(live)
      BY <1>7 DEF Snapshot, Shelled
    <3>4. merged \in Maps
      <4> HIDE DEF live, kept
      <4> QED BY <3>1, <3>2, <3>3, MergedFacts DEF TypeOK
    <3>5. /\ inflight' = kept
          /\ late' = {t \in late : kept[t] # NoSession}
          /\ frozen' = (w = "last")
          /\ \/ file' = merged /\ written' = merged
             \/ UNCHANGED <<file, written>>
          /\ ran' \in {live, ran}
          /\ snap' = [snap EXCEPT ![w] = NotRead]
          /\ UNCHANGED <<app, tabs, shells, calls, claudes, carried, starts>>
      BY <1>7, <2>2 DEF Snapshot, Writes
    <3> HIDE DEF live, kept, merged
    <3> QED BY <3>1, <3>2, <3>4, <3>5 DEF TypeOK, shells, calls, claudes, carried
  <2> QED BY <2>1, <2>2
<1>8. ASSUME NEW unreadable \in SUBSET Sessions, PeriodReads(unreadable) \/ Quit(unreadable)
      PROVE  TypeOK'
  <2>1. PICK w \in Snapshots : Read(w, unreadable)
    BY <1>8 DEF PeriodReads, Quit, Snapshots
  <2>2. PICK m \in Maps : snap' = [snap EXCEPT ![w] = [open |-> open, live |-> m]]
    BY <2>1 DEF Read, LiveMaps
  <2> QED BY <1>8, <2>2 DEF TypeOK, PeriodReads, Quit, shells, calls, claudes, carried, store
<1>9. CASE AppStep
  <2>1. CASE KillAll
    BY <2>1, <1>1 DEF TypeOK, KillAll, calls, carried, store
  <2>2. CASE Ends
    BY <2>2, <1>1 DEF TypeOK, Ends
  <2>3. ASSUME NEW old \in SUBSET Terminals, Start(old) PROVE TypeOK'
    BY <2>3, <1>1, <1>2 DEF TypeOK, Start, shells, calls, claudes
  <2> QED BY <1>9, <2>1, <2>2, <2>3 DEF AppStep
<1>10. CASE UNCHANGED vars
  BY <1>10 DEF TypeOK, vars, shells, calls, claudes, carried, store
<1> QED BY <1>5, <1>6, <1>7, <1>8, <1>9, <1>10 DEF Next, SnapshotStep

Rest == Down /\ Shelled /\ Asked /\ Single /\ Kept /\ UnopenedIsKept /\ Once

\* What terminals, users and Claude do.
LEMMA TerminalKeeps ==
    ASSUME IInv, NEW t \in Terminals, TerminalStep(t)
    PROVE  Rest'
<1> USE DEF IInv, Rest
<1>1. app = "up" /\ app' = "up"
  BY DEF TerminalStep, Up, OpenTerminal, OpenToLaunch, ShellOpens, ShellEnds, ClosePane,
         ResumedComesUp, ResumeFails, UserRuns, ClaudeEnds
<1>2. UNCHANGED <<carried, inflight, late, store, snap>>
  BY DEF TerminalStep, OpenTerminal, OpenToLaunch, ShellOpens, ShellEnds, ClosePane,
         ResumedComesUp, ResumeFails, UserRuns, ClaudeEnds
<1>3. Down'
  BY <1>1 DEF Down
<1>4. Single' /\ Kept'
  BY <1>1, <1>2 DEF Single, Kept, carried, store
<1>5. asks \subseteq asks' /\ forgets \subseteq forgets'
  BY DEF TerminalStep, OpenTerminal, OpenToLaunch, ShellOpens, ShellEnds, ClosePane,
         ResumedComesUp, ResumeFails, UserRuns, ClaudeEnds, calls
<1>6. UnopenedIsKept'
  BY <1>1, <1>2, <1>5 DEF UnopenedIsKept, carried, store, In
<1>7. \A u \in Terminals : u \in opening' \cup open' =>
          u \in opening \cup open \/ u \in asks' \cup forgets'
  BY DEF TerminalStep, OpenTerminal, OpenToLaunch, ShellOpens, ShellEnds, ClosePane,
         ResumedComesUp, ResumeFails, UserRuns, ClaudeEnds, shells
<1>8. Asked'
  BY <1>2, <1>5, <1>7 DEF Asked, carried
<1>9. \A u \in Terminals : resumed'[u] \in {resumed[u], NoSession}
  BY DEF TerminalStep, OpenTerminal, OpenToLaunch, ShellOpens, ShellEnds, ClosePane,
         ResumedComesUp, ResumeFails, UserRuns, ClaudeEnds, claudes, Without, TypeOK, Maps
<1>10. Once'
  BY <1>2, <1>9 DEF Once, OneEach, carried, store
<1>11. \A u \in Terminals : running'[u] # NoSession => u \in open'
  <2> USE DEF Shelled, TypeOK, Maps
  <2>1. CASE OpenTerminal(t) \/ OpenToLaunch(t) \/ ResumeFails(t)
    BY <2>1 DEF OpenTerminal, OpenToLaunch, ResumeFails, shells, claudes
  <2>2. CASE ShellOpens(t)
    BY <2>2 DEF ShellOpens
  <2>3. CASE ShellEnds(t) \/ ClosePane(t)
    BY <2>3 DEF ShellEnds, ClosePane, Without
  <2>4. CASE ResumedComesUp(t) \/ ClaudeEnds(t)
    BY <2>4 DEF ResumedComesUp, ClaudeEnds, shells
  <2>5. ASSUME NEW s \in Sessions, UserRuns(t, s)
        PROVE  \A u \in Terminals : running'[u] # NoSession => u \in open'
    BY <2>5 DEF UserRuns, shells
  <2> QED BY <2>1, <2>2, <2>3, <2>4, <2>5 DEF TerminalStep
<1>12. Shelled'
  BY <1>2, <1>11 DEF Shelled
<1> QED BY <1>3, <1>4, <1>6, <1>8, <1>10, <1>12

\* What happens to the records between two snapshots.
LEMMA RecordKeeps ==
    ASSUME IInv, NEW t \in Terminals, RecordStep(t)
    PROVE  Rest'
<1> USE DEF IInv, Rest
<1>1. app # "down" /\ UNCHANGED <<app, shells, running, store, snap>>
  BY DEF RecordStep, Take, Forget, GrowLate, GrowOld, claudes
<1>2. Down' /\ Shelled' /\ Kept'
  BY <1>1 DEF Down, Shelled, Kept, shells, store
<1>3. /\ pending' \in {pending, Without(pending, {t})}
      /\ \A u \in Terminals : u \in asks \cup forgets =>
             u \in asks' \cup forgets' \/ pending'[u] = NoSession
      /\ \A u \in Terminals : u \in aged => u \in aged' \/ pending'[u] = NoSession
  BY DEF RecordStep, Take, Forget, GrowLate, GrowOld, calls, carried, Without
<1>4. \A u \in Terminals : pending'[u] \in {pending[u], NoSession}
  BY <1>3 DEF Without
<1>5. Asked'
  BY <1>1, <1>3, <1>4 DEF Asked, shells
<1>6. UnopenedIsKept'
  BY <1>1, <1>3, <1>4 DEF UnopenedIsKept, store, In
<1>7. Single'
  BY <1>4 DEF Single, RecordStep, Take, Forget, GrowLate, GrowOld, Without, TypeOK, Maps
<1>8. Once'
  <2>1. CASE UNCHANGED resumed
    BY <2>1, <1>1, <1>4 DEF Once, OneEach, store
  <2>2. CASE /\ pending[t] # NoSession
             /\ resumed' = [resumed EXCEPT ![t] = pending[t]]
             /\ pending' = Without(pending, {t})
    <3>1. OneEach(file') /\ OneEach(pending')
      BY <1>1, <1>4 DEF Once, OneEach, store
    <3>2. \A u \in Terminals : resumed'[u] = IF u = t THEN pending[t] ELSE resumed[u]
      BY <2>2 DEF TypeOK, Maps
    <3>3. pending'[t] = NoSession
      BY <2>2 DEF Without
    <3>4. OneEach(resumed')
      BY <3>2 DEF Once, OneEach
    <3>5. ASSUME NEW u \in Terminals, NEW v \in Terminals, resumed'[u] # NoSession
          PROVE  resumed'[u] # pending'[v]
      <4>1. CASE u = t
        BY <4>1, <3>2, <3>3, <1>4, <2>2 DEF Once, OneEach
      <4>2. CASE u # t
        BY <4>2, <3>2, <3>5, <1>4 DEF Once
      <4> QED BY <4>1, <4>2
    <3> QED BY <3>1, <3>4, <3>5 DEF Once, OneEach
  <2> QED BY <2>1, <2>2 DEF RecordStep, Take, Forget, GrowLate, GrowOld, claudes
<1> QED BY <1>2, <1>5, <1>6, <1>7, <1>8

\* A reading finds every session once, and in an open shell.
LEMMA ReadingKeeps ==
    ASSUME IInv, NEW unreadable \in SUBSET Sessions, PeriodReads(unreadable) \/ Quit(unreadable)
    PROVE  Rest'
<1> USE DEF IInv, Rest
<1>1. PICK w \in Snapshots : Read(w, unreadable)
  BY DEF PeriodReads, Quit, Snapshots
<1>2. PICK m \in LiveMaps(unreadable) : snap' = [snap EXCEPT ![w] = [open |-> open, live |-> m]]
  BY <1>1 DEF Read
<1>3. /\ OneEach(m)
      /\ \A t \in Terminals : m[t] # NoSession => t \in open
  BY DEF LiveMaps, Shelled
<1>4. \A v \in Snapshots :
          snap'[v] = IF v = w THEN [open |-> open, live |-> m] ELSE snap[v]
  BY <1>2 DEF TypeOK
<1>5. /\ app # "down" /\ app' # "down"
      /\ UNCHANGED <<shells, calls, claudes, carried, inflight, late, store>>
  BY DEF PeriodReads, Quit
<1>6. Down' /\ Single' /\ Kept' /\ UnopenedIsKept' /\ Once'
  BY <1>5 DEF Down, Single, Kept, UnopenedIsKept, Once, OneEach, In, calls, claudes, carried, store
<1>7. Shelled'
  BY <1>3, <1>4, <1>5 DEF Shelled, shells, claudes
<1>8. Asked'
  BY <1>4, <1>5 DEF Asked, shells, calls, carried
<1> QED BY <1>6, <1>7, <1>8

\* The critical section of a snapshot.
LEMMA SnapshotKeeps ==
    ASSUME IInv, NEW w \in Snapshots, NEW ok \in BOOLEAN, Snapshot(w, ok)
    PROVE  Rest'
<1> USE DEF IInv, Rest
<1> DEFINE live == snap[w].live
           opened == snap[w].open
           kept == Retained(live)
           cand == Candidates(live, kept, opened)
           merged == Merged(live, kept, opened)
<1>1. /\ app # "down" /\ snap[w] # NotRead
      /\ UNCHANGED <<app, shells, calls, claudes, carried>>
      /\ snap' = [snap EXCEPT ![w] = NotRead]
  BY DEF Snapshot
<1>2. \A v \in Snapshots : snap'[v] \in {snap[v], NotRead}
  BY <1>1 DEF TypeOK
<1>3. Down' /\ Shelled' /\ Asked'
  BY <1>1, <1>2 DEF Down, Shelled, Asked, shells, calls, claudes, carried
<1>4. CASE frozen
  <2>1. UNCHANGED <<inflight, late, store>>
    BY <1>4 DEF Snapshot
  <2> QED BY <1>1, <1>3, <2>1
          DEF Single, Kept, UnopenedIsKept, Once, OneEach, In, store, calls, claudes, carried
<1>5. CASE ~frozen
  <2>1. /\ live \in Maps /\ OneEach(live) /\ kept \in Maps
        /\ \A t \in Terminals : live[t] # NoSession => t \in opened
    <3>1. live \in Maps
      BY <1>1 DEF TypeOK
    <3> QED BY <1>1, <3>1, RetainedType DEF TypeOK, Shelled
  <2>2. /\ inflight' = kept
        /\ frozen' = (w = "last")
        /\ IF written # merged /\ ok
           THEN file' = merged /\ written' = merged
           ELSE UNCHANGED <<file, written>>
        /\ ran' = IF w = "last" /\ (ok \/ written = merged) THEN live ELSE ran
    BY <1>5 DEF Snapshot, Writes
  <2>3. \A t \in Terminals : kept[t] # NoSession => kept[t] = inflight[t]
    BY DEF Retained
  <2>4. Single'
    BY <1>1, <2>2, <2>3 DEF Single, carried
  <2>5. \A t \in Terminals :
            pending[t] # NoSession /\ t \notin asks \cup forgets \cup aged =>
                cand[t] = pending[t]
    BY <1>1, <2>1, <2>3 DEF Candidates, Asked, Single
  <2> HIDE DEF live, kept, opened
  <2>6. /\ merged \in Maps /\ OneEach(merged)
        /\ \A t \in Terminals : live[t] # NoSession => merged[t] = live[t]
        /\ \A t \in Terminals : cand[t] # NoSession => cand[t] \in In(merged)
    BY <2>1, MergedFacts DEF TypeOK
  <2> HIDE DEF cand, merged
  <2>7. \A t \in Terminals : ran[t] = NoSession
    BY <1>1, <1>5 DEF Kept
  <2>8. written \in Maps => written # NotWritten
    BY WrittenAssumption DEF Maps
  <2>9. Kept'
    BY <2>2, <2>6, <2>7, <2>8 DEF Kept
  <2>10. file' \in {file, merged}
    BY <2>2
  <2>11. UnopenedIsKept'
    BY <1>1, <2>5, <2>6, <2>10 DEF UnopenedIsKept, calls, carried, In
  <2>12. Once'
    BY <1>1, <2>6, <2>10 DEF Once, OneEach, claudes, carried
  <2> QED BY <1>3, <2>4, <2>9, <2>11, <2>12
<1> QED BY <1>4, <1>5

\* The end of a run, and the start of the next one.
LEMMA AppKeeps ==
    ASSUME IInv, AppStep
    PROVE  Rest'
<1> USE DEF IInv, Rest
<1>1. \A t \in Terminals : Nothing[t] = NoSession
  BY DEF Nothing
<1>2. CASE KillAll
  <2>1. Kept' /\ Single'
    BY <1>2 DEF KillAll, Kept, Single, carried, store
  <2>2. Down' /\ UnopenedIsKept' /\ Asked'
    BY <1>2 DEF KillAll, Down, UnopenedIsKept, Asked, In, calls, carried, store
  <2>3. Shelled' /\ Once'
    BY <1>1, <1>2 DEF KillAll, Shelled, Once, OneEach, carried, store
  <2> QED BY <2>1, <2>2, <2>3
<1>3. CASE Ends
  <2>1. Down' /\ Shelled' /\ Asked' /\ Single'
    BY <1>1, <1>3 DEF Ends, Down, Shelled, Asked, Single
  <2>2. Kept' /\ UnopenedIsKept'
    BY <1>3 DEF Ends, Kept, UnopenedIsKept
  <2>3. Once'
    BY <1>1, <1>3 DEF Ends, Once, OneEach
  <2> QED BY <2>1, <2>2, <2>3
<1>4. ASSUME NEW old \in SUBSET Terminals, Start(old) PROVE Rest'
  <2>1. /\ \A t \in Terminals : pending'[t] \in {file[t], NoSession}
        /\ app = "down" /\ app' = "up" /\ ran' = Nothing
        /\ UNCHANGED <<shells, calls, claudes, inflight, written, file, snap>>
    BY <1>4 DEF Start, Without
  <2>2. Down' /\ Shelled' /\ Asked' /\ Single' /\ Kept'
    BY <1>1, <2>1 DEF Down, Shelled, Asked, Single, Kept, shells, calls, claudes
  <2>3. UnopenedIsKept'
    BY <2>1 DEF UnopenedIsKept, In
  <2>4. Once'
    BY <1>1, <2>1 DEF Down, Once, OneEach, claudes
  <2> QED BY <2>2, <2>3, <2>4
<1> QED BY <1>2, <1>3, <1>4 DEF AppStep

LEMMA Step == IInv /\ [Next]_vars => IInv'
<1> SUFFICES ASSUME IInv, [Next]_vars PROVE Rest'
  BY TypeStep DEF IInv, Rest
<1>1. CASE UNCHANGED vars
  BY <1>1 DEF IInv, Rest, vars, shells, calls, claudes, carried, store, Down, Shelled, Asked,
              Single, Kept, UnopenedIsKept, Once, OneEach, In
<1> QED BY <1>1, TerminalKeeps, RecordKeeps, ReadingKeeps, SnapshotKeeps, AppKeeps
        DEF Next, SnapshotStep

\* The invariant holds in every reachable state.
THEOREM IInvHolds == Spec => []IInv
<1>1. Init => IInv
  BY InitIInv
<1>2. IInv /\ [Next]_vars => IInv'
  BY Step
<1> QED BY <1>1, <1>2, PTL DEF Spec

\* Every reachable state is well typed.
THEOREM TypeCorrect == Spec => []TypeOK
<1>1. IInv => TypeOK
  BY DEF IInv
<1> QED BY <1>1, IInvHolds, PTL

\* What the last snapshot saw and could store is there at the next start,
\* whatever rounds of the thread come late (claude_resume.rs: frozen).
THEOREM QuitKeeps == Spec => []QuitIsKept
<1>1. IInv => QuitIsKept
  BY DEF IInv, Kept, QuitIsKept
<1> QED BY <1>1, IInvHolds, PTL

\* No snapshot drops the session of a terminal that was not opened yet, so
\* a crash at any moment leaves it in the file (merge_snapshot).
THEOREM UnopenedStay == Spec => []UnopenedIsKept
<1>1. IInv => UnopenedIsKept
  BY DEF IInv
<1> QED BY <1>1, IInvHolds, PTL

\* However many terminals open at once and however late their Claudes come
\* up, no session is resumed in two of them (merge_snapshot, take_in).
THEOREM ResumesAreSingle == Spec => []ResumedOnce
<1>1. IInv => ResumedOnce
  BY DEF IInv, Once, OneEach, ResumedOnce
<1> QED BY <1>1, IInvHolds, PTL
=============================================================================

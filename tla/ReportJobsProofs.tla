-------------------------- MODULE ReportJobsProofs --------------------------
(***************************************************************************)
(* Proofs about ReportJobs for every number of reports and windows: no     *)
(* window is left with an old state; every busy card has its one place in  *)
(* line; a batch that is shown has a job in line that will settle it.      *)
(***************************************************************************)
EXTENDS ReportJobs, FiniteSetTheorems, SequenceTheorems, TLAPS

Views == [busy : SUBSET Keys, batch : BOOLEAN]

Types ==
    /\ batch \in BOOLEAN
    /\ view \in [Others -> Views \cup {Closed}]
    /\ states \in [Others -> Seq(Views)]

Held == Types /\ WindowsCatchUp

\* Taking the head leaves the last element what it was, or takes it.
LEMMA LastOfTail ==
    ASSUME NEW S, NEW s \in Seq(S), s # <<>>
    PROVE  (IF Tail(s) = <<>> THEN Head(s) ELSE Last(Tail(s))) = Last(s)
  <1>1. Len(s) \in Nat \ {0} /\ Len(Tail(s)) = Len(s) - 1 /\ Head(s) = s[1]
    OBVIOUS
  <1>0. Tail(s) = <<>> <=> Len(Tail(s)) = 0
    <2>1. Tail(s) \in Seq(S)
      OBVIOUS
    <2> QED BY <2>1, EmptySeq
  <1>2. \A i \in 1 .. Len(s) - 1 : Tail(s)[i] = s[i + 1]
    OBVIOUS
  <1>3. CASE Len(s) = 1
    <2>1. Tail(s) = <<>>
      BY <1>0, <1>1, <1>3
    <2> QED BY <1>1, <1>3, <2>1 DEF Last
  <1>4. CASE Len(s) # 1
    <2>1. Tail(s) # <<>>
      BY <1>0, <1>1, <1>4
    <2>2. Last(Tail(s)) = Tail(s)[Len(s) - 1]
      BY <1>1 DEF Last
    <2> QED BY <1>1, <1>2, <1>4, <2>1, <2>2 DEF Last
  <1> QED BY <1>3, <1>4

LEMMA SnapshotTyped == ASSUME Types PROVE Snapshot \in Views
  BY DEF Types, Snapshot, Views, ActiveIn

\* A change that the windows do not know of yet sets the timer.
Noticed == due' \/ (Snapshot' = Snapshot /\ (due => due'))

\* Mail to the main window that asks for the state is not lost.
SyncsKept == \A w \in Others : LET c == [op |-> "sync", by |-> w] IN c \in cmds => c \in cmds'

LEMMA NoticedKeeps ==
    ASSUME Held, UNCHANGED windows, batch' \in BOOLEAN, Noticed, SyncsKept PROVE Held'
  <1>1. view' = view /\ states' = states
    BY DEF windows
  <1>2. Types'
    BY <1>1 DEF Held, Types
  <1>3. ASSUME NEW w \in Open'
        PROVE  \/ (IF states'[w] = <<>> THEN view'[w] ELSE Last(states'[w])) = Snapshot'
               \/ due'
               \/ [op |-> "sync", by |-> w] \in cmds'
    <2>1. w \in Open /\ w \in Others
      BY <1>1, <1>3 DEF Open
    <2>2. \/ (IF states[w] = <<>> THEN view[w] ELSE Last(states[w])) = Snapshot
          \/ due
          \/ [op |-> "sync", by |-> w] \in cmds
      BY <2>1 DEF Held, WindowsCatchUp
    <2> QED BY <1>1, <2>1, <2>2 DEF Noticed, SyncsKept
  <1> QED BY <1>2, <1>3 DEF Held, WindowsCatchUp

\* Every command on the queue that changes what is shown sets the timer.
LEMMA ApplyNoticed ==
    ASSUME Types, NEW c \in Commands, c.op # "sync", Apply(c)
    PROVE  Noticed /\ batch' \in BOOLEAN
  <1>1. ASSUME NEW k \in Keys, EnqueueReport(k) PROVE Noticed /\ batch' = batch
    <2>1. due' = (due \/ Added(<<k>>) # <<>>) /\ batch' = batch
          /\ jobs' = [j \in Keys |-> IF j \in ToSet(Added(<<k>>)) THEN "queued" ELSE jobs[j]]
      BY <1>1 DEF EnqueueReport, Enqueue
    <2>2. CASE Added(<<k>>) = <<>>
      <3>1. ToSet(Added(<<k>>)) = {}
        BY <2>2 DEF ToSet
      <3>2. \A j \in Keys : jobs'[j] = jobs[j]
        BY <2>1, <3>1
      <3>3. ActiveIn(jobs)' = ActiveIn(jobs)
        BY <3>2 DEF ActiveIn
      <3>4. due => due'
        BY <2>1
      <3> QED BY <2>1, <3>3, <3>4 DEF Noticed, Snapshot
    <2>3. CASE Added(<<k>>) # <<>>
      BY <2>1, <2>3 DEF Noticed
    <2> QED BY <2>1, <2>2, <2>3
  <1>2. ASSUME NEW k \in Keys, CancelReport(k) PROVE Noticed /\ batch' = batch
    BY <1>2 DEF CancelReport, Abort, Noticed, Snapshot
  <1>3. ASSUME NEW k \in Keys, ClearReportResidue(k) PROVE Noticed /\ batch' = batch
    <2>1. due' = (due \/ jobs[k] \notin Active) /\ batch' = batch
          /\ (jobs[k] \in Active => jobs' = jobs)
      BY <1>3 DEF ClearReportResidue
    <2>2. CASE jobs[k] \in Active
      BY <2>1, <2>2 DEF Noticed, Snapshot, ActiveIn
    <2>3. CASE jobs[k] \notin Active
      BY <2>1, <2>3 DEF Noticed
    <2> QED BY <2>1, <2>2, <2>3
  <1>4. CASE StartReportBatch
    BY <1>4 DEF StartReportBatch, Noticed
  <1>5. CASE CancelReportBatch
    <2>1. due' = (due \/ batch) /\ batch' = FALSE /\ jobs' = jobs
      BY <1>5 DEF CancelReportBatch, Abort
    <2>2. CASE batch
      BY <2>1, <2>2 DEF Noticed
    <2>3. CASE ~batch
      <3>1. batch' = batch
        BY <2>1, <2>3 DEF Types
      <3> QED BY <2>1, <3>1 DEF Noticed, Snapshot, ActiveIn
    <2> QED BY <2>1, <2>2, <2>3
  <1>6. \/ c.op \in {"enqueue", "cancel", "clear"} /\ c.key \in Keys
        \/ c.op = "batch" \/ c.op = "cancelBatch"
    BY DEF Commands
  <1> QED BY <1>1, <1>2, <1>3, <1>4, <1>5, <1>6 DEF Apply, Types

LEMMA JobStepKeeps == ASSUME Held, JobStep PROVE Held'
  <1>1. UNCHANGED <<windows, cmds>> /\ batch' \in BOOLEAN /\ Noticed
    <2>1. ASSUME NEW how, End(how) PROVE UNCHANGED <<windows, cmds>> /\ batch' \in BOOLEAN /\ Noticed
      BY <2>1 DEF End, Settled, Noticed, Held, Types
    <2>2. CASE Start \/ Retry
      BY <2>2 DEF Start, Retry, queue, Noticed, Held, Types
    <2>3. CASE Loaded \/ WakeUp \/ Answered
      BY <2>3 DEF Loaded, WakeUp, Answered, queue, Noticed, Snapshot, Held, Types
    <2> QED BY <2>1, <2>2, <2>3 DEF JobStep, DropCancelled, LoadFails, NothingToReport,
               WakeUpCancelled, AskingFails, Saved, SaveFails
  <1>2. SyncsKept
    BY <1>1 DEF SyncsKept
  <1> QED BY <1>1, <1>2, NoticedKeeps

LEMMA BackEndKeeps ==
    ASSUME Held, Admit \/ Refuse \/ Complete \/ Fail \/ HearCancel \/ HearCancelInVain \/ TimePasses
    PROVE  Held'
  <1>1. UNCHANGED <<queue, due, windows, cmds>>
    BY DEF Admit, Refuse, Complete, Fail, HearCancel, HearCancelInVain, TimePasses, Finish
  <1>2. batch' \in BOOLEAN /\ Noticed /\ SyncsKept /\ UNCHANGED windows
    BY <1>1 DEF queue, Noticed, Snapshot, SyncsKept, Held, Types
  <1> QED BY <1>2, NoticedKeeps

LEMMA CommandsKeep ==
    ASSUME Held, ClickInMain \/ ClickElsewhere \/ \E c \in cmds : MainHears(c), cmds \subseteq Commands
    PROVE  Held'
  <1>1. CASE ClickInMain
    <2>1. PICK c \in Offered(Snapshot) : Apply(c)
      BY <1>1 DEF ClickInMain
    <2>2. c \in Commands /\ c.op # "sync"
      BY <2>1 DEF Offered
    <2>3. Noticed /\ batch' \in BOOLEAN
      BY <2>1, <2>2, ApplyNoticed DEF Held
    <2>4. UNCHANGED windows /\ SyncsKept
      BY <1>1 DEF ClickInMain, SyncsKept
    <2> QED BY <2>3, <2>4, NoticedKeeps
  <1>2. CASE ClickElsewhere
    <2>1. UNCHANGED <<queue, due, windows>> /\ SyncsKept
      BY <1>2 DEF ClickElsewhere, SyncsKept
    <2>2. batch' \in BOOLEAN /\ Noticed
      BY <2>1 DEF queue, Noticed, Snapshot, Held, Types
    <2> QED BY <2>1, <2>2, NoticedKeeps
  <1>3. ASSUME NEW c \in cmds, MainHears(c) PROVE Held'
    <2>1. Noticed /\ batch' \in BOOLEAN
      BY <1>3, ApplyNoticed DEF MainHears, Held
    <2>2. UNCHANGED windows /\ SyncsKept
      <3>1. c.op # "sync" /\ cmds' = cmds \ {c} /\ UNCHANGED windows
        BY <1>3 DEF MainHears
      <3> QED BY <3>1 DEF SyncsKept
    <2> QED BY <2>1, <2>2, NoticedKeeps
  <1> QED BY <1>1, <1>2, <1>3

\* What every window is told is the state there is.
LEMMA TellingKeeps ==
    ASSUME Held, states' = Told, UNCHANGED <<queue, view>> PROVE Held'
  <1>1. \A w \in Others : states[w] \in Seq(Views)
    BY DEF Held, Types
  <1>2. Snapshot \in Views /\ Snapshot' = Snapshot
    BY SnapshotTyped DEF Held, queue, Snapshot
  <1> HIDE DEF Snapshot
  <1>3. \A w \in Others : Told[w] \in Seq(Views)
    BY <1>1, <1>2 DEF Told
  <1>4. Types'
    BY <1>3 DEF Held, Types, queue, Told
  <1>5. ASSUME NEW w \in Open' PROVE states'[w] # <<>> /\ Last(states'[w]) = Snapshot'
    <2>1. w \in Open /\ w \in Others
      BY <1>5 DEF Open
    <2>2. states'[w] = Append(states[w], Snapshot)
      BY <2>1 DEF Told
    <2>3. Last(Append(states[w], Snapshot)) = Snapshot /\ Append(states[w], Snapshot) # <<>>
      BY <1>1, <1>2, <2>1 DEF Last
    <2> QED BY <1>2, <2>2, <2>3
  <1> QED BY <1>4, <1>5 DEF Held, WindowsCatchUp

LEMMA WindowsKeep ==
    ASSUME Held, NEW w \in Others, WindowHears(w) \/ OpenWindow(w) \/ CloseWindow(w) PROVE Held'
  <1>1. Snapshot' = Snapshot /\ due' = due /\ batch' = batch /\ cmds \subseteq cmds'
    BY DEF WindowHears, OpenWindow, CloseWindow, queue, Snapshot
  <1>2. \A v \in Others \ {w} : view'[v] = view[v] /\ states'[v] = states[v]
    BY DEF WindowHears, OpenWindow, CloseWindow, Held, Types
  <1>3. states[w] \in Seq(Views) /\ Empty \in Views
    BY DEF Held, Types, Empty, Views
  <1>4. Types'
    <2>1. CASE WindowHears(w)
      <3>1. Head(states[w]) \in Views /\ Tail(states[w]) \in Seq(Views)
        BY <1>3, <2>1 DEF WindowHears
      <3> QED BY <1>1, <2>1, <3>1 DEF WindowHears, Held, Types
    <2>2. CASE OpenWindow(w)
      BY <1>1, <1>3, <2>2 DEF OpenWindow, Held, Types
    <2>3. CASE CloseWindow(w)
      <3>1. <<>> \in Seq(Views)
        OBVIOUS
      <3> QED BY <1>1, <2>3, <3>1 DEF CloseWindow, Held, Types
    <2> QED BY <2>1, <2>2, <2>3
  <1>5. ASSUME w \in Open'
        PROVE  \/ (IF states'[w] = <<>> THEN view'[w] ELSE Last(states'[w])) = Snapshot'
               \/ due'
               \/ [op |-> "sync", by |-> w] \in cmds'
    <2>1. CASE WindowHears(w)
      <3>1. /\ view'[w] = Head(states[w]) /\ states'[w] = Tail(states[w])
            /\ states[w] # <<>> /\ w \in Open
        BY <2>1 DEF WindowHears, Held, Types
      <3>2. (IF Tail(states[w]) = <<>> THEN Head(states[w]) ELSE Last(Tail(states[w])))
            = Last(states[w])
        BY <1>3, <3>1, LastOfTail
      <3> QED BY <1>1, <3>1, <3>2 DEF Held, WindowsCatchUp
    <2>2. CASE OpenWindow(w)
      BY <2>2 DEF OpenWindow
    <2>3. CASE CloseWindow(w)
      BY <1>5, <2>3 DEF CloseWindow, Open, Held, Types
    <2> QED BY <2>1, <2>2, <2>3
  <1>6. ASSUME NEW v \in Open' \ {w}
        PROVE  \/ (IF states'[v] = <<>> THEN view'[v] ELSE Last(states'[v])) = Snapshot'
               \/ due'
               \/ [op |-> "sync", by |-> v] \in cmds'
    <2>1. v \in Open /\ v \in Others \ {w}
      BY <1>2, <1>6 DEF Open
    <2> QED BY <1>1, <1>2, <2>1 DEF Held, WindowsCatchUp
  <1> QED BY <1>4, <1>5, <1>6 DEF Held, WindowsCatchUp

-----------------------------------------------------------------------------

\* Only commands are ever sent to the main window.
LEMMA CommandsSent == Spec => [](cmds \subseteq Commands)
  <1>1. Init => cmds \subseteq Commands
    BY DEF Init
  <1>2. cmds \subseteq Commands /\ [Next]_vars => (cmds \subseteq Commands)'
    <2> SUFFICES ASSUME cmds \subseteq Commands, [Next]_vars PROVE cmds' \subseteq Commands
      OBVIOUS
    <2>1. CASE JobStep
      BY <2>1 DEF JobStep, Start, DropCancelled, LoadFails, NothingToReport, Loaded, WakeUp,
                  WakeUpCancelled, Retry, AskingFails, Answered, Saved, SaveFails, End
    <2>2. CASE Admit \/ Refuse \/ Complete \/ Fail \/ HearCancel \/ HearCancelInVain \/ TimePasses
      BY <2>2 DEF Admit, Refuse, Complete, Fail, HearCancel, HearCancelInVain, TimePasses, Finish
    <2>3. CASE ClickElsewhere
      <3>1. PICK c : c \in Commands /\ cmds' = cmds \cup {c}
        BY <2>3 DEF ClickElsewhere, Offered
      <3> QED BY <3>1
    <2>4. CASE ClickInMain \/ Broadcast \/ \E c \in cmds : MainHears(c) \/ MainSyncs(c)
      BY <2>4 DEF ClickInMain, Broadcast, MainHears, MainSyncs
    <2>5. CASE \E w \in Others : WindowHears(w) \/ OpenWindow(w) \/ CloseWindow(w)
      <3>1. \A w \in Others : [op |-> "sync", by |-> w] \in Commands
        BY DEF Commands
      <3> QED BY <2>5, <3>1 DEF WindowHears, OpenWindow, CloseWindow
    <2>6. CASE UNCHANGED vars
      BY <2>6 DEF vars
    <2> QED BY <2>1, <2>2, <2>3, <2>4, <2>5, <2>6 DEF Next
  <1> QED BY <1>1, <1>2, PTL DEF Spec

LEMMA InitHeld == Init => Held
  <1> SUFFICES ASSUME Init PROVE Held
    OBVIOUS
  <1>1. Types
    <2>1. <<>> \in Seq(Views)
      OBVIOUS
    <2> QED BY <2>1 DEF Init, Types
  <1>2. Open = {}
    BY DEF Init, Open
  <1> QED BY <1>1, <1>2 DEF Held, WindowsCatchUp

LEMMA NextHeld == Held /\ cmds \subseteq Commands /\ [Next]_vars => Held'
  <1> SUFFICES ASSUME Held, cmds \subseteq Commands, [Next]_vars PROVE Held'
    OBVIOUS
  <1>1. CASE Broadcast \/ \E c \in cmds : MainSyncs(c)
    BY <1>1, TellingKeeps DEF Broadcast, MainSyncs
  <1>2. CASE UNCHANGED vars
    BY <1>2, NoticedKeeps DEF vars, queue, windows, Noticed, Snapshot, SyncsKept, Held, Types
  <1> QED BY <1>1, <1>2, JobStepKeeps, BackEndKeeps, CommandsKeep, WindowsKeep DEF Next

\* A window that draws an old state is about to hear of the new one.
THEOREM WindowsAreTold == Spec => []WindowsCatchUp
  <1>1. Held => WindowsCatchUp
    BY DEF Held
  <1> QED BY <1>1, InitHeld, NextHeld, CommandsSent, PTL DEF Spec

-----------------------------------------------------------------------------
(* The line. *)

\* Picked takes the places in order, each once: place is a bijection from I
\* to 1 .. Cardinality(I).
LEMMA PickedIs ==
    ASSUME NEW S, NEW ks \in Seq(S), NEW I \in SUBSET (DOMAIN ks)
    PROVE  /\ Picked(ks, I) \in Seq(S)
           /\ ToSet(Picked(ks, I)) = {ks[i] : i \in I}
           /\ IsInjective(ks) => IsInjective(Picked(ks, I))
  <1> DEFINE upTo(i) == {j \in I : j <= i}
             N == Cardinality(I)
             place == [i \in I |-> Cardinality(upTo(i))]
             nth(n) == CHOOSE i \in I : Cardinality(upTo(i)) = n
  <1>1. I \subseteq Nat /\ IsFiniteSet(I) /\ N \in Nat
    <2>1. DOMAIN ks = 1 .. Len(ks) /\ Len(ks) \in Nat
      OBVIOUS
    <2>2. IsFiniteSet(1 .. Len(ks))
      BY <2>1, FS_Interval
    <2>3. IsFiniteSet(I)
      BY <2>1, <2>2, FS_Subset
    <2> QED BY <2>1, <2>3, FS_CardinalityType
  <1>2. \A i \in I : upTo(i) \in SUBSET I /\ IsFiniteSet(upTo(i)) /\ i \in upTo(i)
    BY <1>1, FS_Subset
  <1>3. \A i \in I : place[i] \in 1 .. N
    <2> TAKE i \in I
    <2>1. place[i] \in Nat /\ place[i] <= N
      BY <1>1, <1>2, FS_Subset, FS_CardinalityType
    <2>2. upTo(i) # {}
      BY <1>2
    <2>3. place[i] # 0
      BY <1>2, <2>2, FS_EmptySet
    <2> QED BY <1>1, <2>1, <2>3
  <1>4. \A i, j \in I : i < j => place[i] # place[j]
    <2> SUFFICES ASSUME NEW i \in I, NEW j \in I, i < j PROVE place[i] # place[j]
      OBVIOUS
    <2>1. upTo(i) \in SUBSET upTo(j)
      BY <1>1
    <2>2. j \in upTo(j) /\ j \notin upTo(i)
      BY <1>1
    <2>3. upTo(i) # upTo(j)
      BY <2>2
    <2>4. Cardinality(upTo(i)) # Cardinality(upTo(j))
      BY <1>2, <2>1, <2>3, FS_Subset
    <2> QED BY <2>4
  <1>5. place \in [I -> 1 .. N] /\ \A i \in I : place[i] = Cardinality(upTo(i))
    BY <1>3
  <1> HIDE DEF place
  <1>6. \A i, j \in I : place[i] = place[j] => i = j
    BY <1>1, <1>4
  <1>7. place \in Injection(I, 1 .. N)
    BY <1>5, <1>6 DEF Injection, IsInjective
  <1>8. IsFiniteSet(1 .. N) /\ Cardinality(1 .. N) = N
    BY <1>1, FS_Interval
  <1>9. place \in Surjection(I, 1 .. N)
    BY <1>7, <1>8, FS_Injection
  <1>10. \A n \in 1 .. N : nth(n) \in I /\ place[nth(n)] = n
    <2> TAKE n \in 1 .. N
    <2>1. \E i \in I : Cardinality(upTo(i)) = n
      BY <1>5, <1>9 DEF Surjection
    <2> QED BY <1>5, <2>1
  <1>11. \A i \in I : place[i] \in 1 .. N /\ nth(place[i]) = i
    BY <1>5, <1>6, <1>10
  <1>12. Picked(ks, I) = [n \in 1 .. N |-> ks[nth(n)]]
    BY DEF Picked
  <1> HIDE DEF nth, N
  <1>13. \A i \in I : ks[i] \in S
    OBVIOUS
  <1>14. \A n \in 1 .. N : Picked(ks, I)[n] = ks[nth(n)]
    BY <1>12
  <1>15. Picked(ks, I) \in Seq(S) /\ DOMAIN Picked(ks, I) = 1 .. N
    BY <1>1, <1>10, <1>12, <1>13
  <1>16. ToSet(Picked(ks, I)) = {ks[i] : i \in I}
    BY <1>10, <1>11, <1>14, <1>15 DEF ToSet
  <1>17. ASSUME IsInjective(ks) PROVE IsInjective(Picked(ks, I))
    <2>1. \A i, j \in I : ks[i] = ks[j] => i = j
      BY <1>17 DEF IsInjective
    <2>2. \A m, n \in 1 .. N : ks[nth(m)] = ks[nth(n)] => m = n
      BY <1>10, <2>1
    <2> QED BY <1>14, <1>15, <2>2 DEF IsInjective
  <1> QED BY <1>15, <1>16, <1>17

\* A sequence without repetitions loses its head only once.
LEMMA TailOf ==
    ASSUME NEW S, NEW s \in Seq(S), s # <<>>, IsInjective(s)
    PROVE  /\ Tail(s) \in Seq(S) /\ IsInjective(Tail(s))
           /\ Head(s) \in ToSet(s) /\ ToSet(Tail(s)) = ToSet(s) \ {Head(s)}
  <1>1. /\ Len(s) \in Nat \ {0} /\ Head(s) = s[1] /\ DOMAIN s = 1 .. Len(s)
        /\ Tail(s) \in Seq(S) /\ DOMAIN Tail(s) = 1 .. Len(s) - 1
        /\ \A i \in 1 .. Len(s) - 1 : Tail(s)[i] = s[i + 1]
    OBVIOUS
  <1>2. \A i, j \in 1 .. Len(s) : s[i] = s[j] => i = j
    BY <1>1 DEF IsInjective
  <1>3. IsInjective(Tail(s))
    BY <1>1, <1>2 DEF IsInjective
  <1>4. Head(s) \in ToSet(s)
    BY <1>1 DEF ToSet
  <1>5. ASSUME NEW x \in ToSet(Tail(s)) PROVE x \in ToSet(s) \ {Head(s)}
    <2>1. PICK i \in 1 .. Len(s) - 1 : x = s[i + 1]
      BY <1>1, <1>5 DEF ToSet
    <2> QED BY <1>1, <1>2, <2>1 DEF ToSet
  <1>6. ASSUME NEW x \in ToSet(s) \ {Head(s)} PROVE x \in ToSet(Tail(s))
    <2>1. PICK i \in 1 .. Len(s) : x = s[i]
      BY <1>1, <1>6 DEF ToSet
    <2>2. i - 1 \in 1 .. Len(s) - 1 /\ Tail(s)[i - 1] = x
      BY <1>1, <1>6, <2>1
    <2> QED BY <1>1, <2>2 DEF ToSet
  <1> QED BY <1>1, <1>3, <1>4, <1>5, <1>6

LEMMA ConcatOf ==
    ASSUME NEW S, NEW s \in Seq(S), NEW t \in Seq(S)
    PROVE  /\ s \o t \in Seq(S) /\ ToSet(s \o t) = ToSet(s) \cup ToSet(t)
           /\ s # <<>> => Head(s \o t) = Head(s)
           /\ s \o t = <<>> => s = <<>> /\ t = <<>>
           /\ IsInjective(s) /\ IsInjective(t) /\ ToSet(s) \cap ToSet(t) = {}
              => IsInjective(s \o t)
  <1>1. /\ s \o t \in Seq(S) /\ DOMAIN (s \o t) = 1 .. Len(s) + Len(t)
        /\ DOMAIN s = 1 .. Len(s) /\ DOMAIN t = 1 .. Len(t) /\ Len(s) \in Nat /\ Len(t) \in Nat
        /\ \A i \in 1 .. Len(s) + Len(t) :
              (s \o t)[i] = IF i <= Len(s) THEN s[i] ELSE t[i - Len(s)]
    OBVIOUS
  <1>2. s # <<>> => Head(s \o t) = Head(s)
    OBVIOUS
  <1>3. s \o t = <<>> => s = <<>> /\ t = <<>>
    OBVIOUS
  <1> DEFINE u == s \o t
  <1> HIDE DEF u
  <1>4. ToSet(u) \subseteq ToSet(s) \cup ToSet(t)
    BY <1>1 DEF ToSet, u
  <1>5. ASSUME NEW i \in 1 .. Len(s) PROVE s[i] \in ToSet(u)
    BY <1>1 DEF ToSet, u
  <1>6. ASSUME NEW i \in 1 .. Len(t) PROVE t[i] \in ToSet(u)
    <2>1. i + Len(s) \in 1 .. Len(s) + Len(t) /\ u[i + Len(s)] = t[i]
      BY <1>1 DEF u
    <2> QED BY <1>1, <2>1 DEF ToSet, u
  <1>7. ToSet(u) = ToSet(s) \cup ToSet(t)
    BY <1>1, <1>4, <1>5, <1>6 DEF ToSet
  <1>8. ASSUME IsInjective(s), IsInjective(t), ToSet(s) \cap ToSet(t) = {} PROVE IsInjective(u)
    <2>1. \A i \in 1 .. Len(s), j \in 1 .. Len(t) : s[i] # t[j]
      BY <1>1, <1>8 DEF ToSet
    <2>2. \A i, j \in 1 .. Len(s) : s[i] = s[j] => i = j
      BY <1>1, <1>8 DEF IsInjective
    <2>3. \A i, j \in 1 .. Len(t) : t[i] = t[j] => i = j
      BY <1>1, <1>8 DEF IsInjective
    <2>4. \A i, j \in 1 .. Len(s) + Len(t) : u[i] = u[j] => i = j
      <3> SUFFICES ASSUME NEW i \in 1 .. Len(s) + Len(t), NEW j \in 1 .. Len(s) + Len(t),
                          u[i] = u[j]
                   PROVE  i = j
        OBVIOUS
      <3>1. CASE i <= Len(s) /\ j <= Len(s)
        BY <1>1, <2>2, <3>1 DEF u
      <3>2. CASE i > Len(s) /\ j > Len(s)
        <4>1. i - Len(s) \in 1 .. Len(t) /\ j - Len(s) \in 1 .. Len(t)
          BY <1>1, <3>2
        <4>2. t[i - Len(s)] = t[j - Len(s)]
          BY <1>1, <3>2 DEF u
        <4>3. i - Len(s) = j - Len(s)
          BY <2>3, <4>1, <4>2
        <4> QED BY <1>1, <4>3
      <3>3. CASE i <= Len(s) /\ j > Len(s)
        BY <1>1, <2>1, <3>3 DEF u
      <3>4. CASE i > Len(s) /\ j <= Len(s)
        BY <1>1, <2>1, <3>4 DEF u
      <3> QED BY <1>1, <3>1, <3>2, <3>3, <3>4
    <2> QED BY <1>1, <2>4 DEF IsInjective, u
  <1> QED BY <1>1, <1>2, <1>3, <1>7, <1>8 DEF u

LEMMA SetEmpty == ASSUME NEW S, NEW s \in Seq(S) PROVE s = <<>> <=> ToSet(s) = {}
  <1>1. DOMAIN s = 1 .. Len(s) /\ Len(s) \in Nat /\ (Len(s) = 0 <=> s = <<>>)
    BY EmptySeq
  <1>2. CASE s = <<>>
    BY <1>1, <1>2 DEF ToSet
  <1>3. CASE s # <<>>
    <2>1. 1 \in DOMAIN s
      BY <1>1, <1>3
    <2>2. s[1] \in ToSet(s)
      BY <2>1 DEF ToSet
    <2> QED BY <1>3, <2>2
  <1> QED BY <1>2, <1>3

Line ==
    /\ jobs \in [Keys -> {"none", "queued", "running", "failed"}]
    /\ chain \in Seq(Keys) /\ batch \in BOOLEAN
    /\ stage # "idle" => chain # <<>>
    /\ InLine /\ BatchNotStuck

\* What a step that leaves the line alone has to keep.
Inline == <<jobs, chain, batch, ofBatch>>

LEMMA AddedIs ==
    ASSUME NEW ks \in Seq(Keys), IsInjective(ks)
    PROVE  /\ Added(ks) \in Seq(Keys) /\ IsInjective(Added(ks))
           /\ ToSet(Added(ks)) = {k \in ToSet(ks) : jobs[k] \notin Active}
  <1> DEFINE I == {i \in DOMAIN ks : jobs[ks[i]] \notin Active}
  <1>1. I \in SUBSET (DOMAIN ks) /\ Added(ks) = Picked(ks, I)
    BY DEF Added
  <1>2. {ks[i] : i \in I} = {k \in ToSet(ks) : jobs[k] \notin Active}
    BY DEF ToSet
  <1> HIDE DEF I
  <1> QED BY <1>1, <1>2, PickedIs

\* New jobs go to the end of the line: who is at its head stays there.
LEMMA EnqueueInLine ==
    ASSUME Line, NEW ks \in Seq(Keys), IsInjective(ks), Enqueue(ks), UNCHANGED <<stage, request>>
    PROVE  /\ jobs' \in [Keys -> {"none", "queued", "running", "failed"}]
           /\ chain' \in Seq(Keys) /\ (stage' # "idle" => chain' # <<>>)
           /\ InLine'
           /\ ActiveIn(jobs') = ActiveIn(jobs) \cup ToSet(Added(ks))
           /\ ToSet(ks) \subseteq ActiveIn(jobs')
  <1> DEFINE new == ToSet(Added(ks))
  <1>1. /\ Added(ks) \in Seq(Keys) /\ IsInjective(Added(ks))
        /\ new = {k \in ToSet(ks) : jobs[k] \notin Active}
    BY AddedIs
  <1>2. ToSet(ks) \subseteq Keys
    BY DEF ToSet
  <1>3. /\ jobs' = [k \in Keys |-> IF k \in new THEN "queued" ELSE jobs[k]]
        /\ chain' = chain \o Added(ks)
    BY DEF Enqueue
  <1> HIDE DEF new
  <1>4. jobs' \in [Keys -> {"none", "queued", "running", "failed"}]
    BY <1>3 DEF Line
  <1>5. ActiveIn(jobs') = ActiveIn(jobs) \cup new
    BY <1>1, <1>2, <1>3 DEF ActiveIn, Active
  <1>6. ToSet(chain) \cap new = {} /\ ToSet(ks) \subseteq ActiveIn(jobs')
    BY <1>1, <1>2, <1>5 DEF Line, InLine, ActiveIn
  <1>7. /\ chain' \in Seq(Keys) /\ ToSet(chain') = ActiveIn(jobs') /\ IsInjective(chain')
        /\ (chain # <<>> => Head(chain') = Head(chain))
        /\ (chain' = <<>> => chain = <<>>)
    <2>1. ToSet(chain) \cap ToSet(Added(ks)) = {}
      BY <1>6 DEF new
    <2>2. /\ chain \o Added(ks) \in Seq(Keys)
          /\ ToSet(chain \o Added(ks)) = ToSet(chain) \cup ToSet(Added(ks))
          /\ IsInjective(chain \o Added(ks))
          /\ (chain # <<>> => Head(chain \o Added(ks)) = Head(chain))
          /\ (chain \o Added(ks) = <<>> => chain = <<>>)
      BY <1>1, <2>1, ConcatOf DEF Line, InLine
    <2> QED BY <1>3, <1>5, <2>2 DEF Line, InLine, new
  <1>8. \A k \in Keys : jobs'[k] = "running" <=> jobs[k] = "running"
    BY <1>1, <1>3 DEF Active
  <1>9. \A k \in Keys : jobs'[k] = "running" <=> stage' # "idle" /\ k = Head(chain')
    BY <1>7, <1>8 DEF Line, InLine
  <1>10. request' # "none" <=> stage' = "asking"
    BY DEF Line, InLine
  <1> QED BY <1>4, <1>5, <1>6, <1>7, <1>9, <1>10 DEF InLine, Line, new

LEMMA ApplyInLine ==
    ASSUME Line, NEW c \in Commands, c.op # "sync", Apply(c), UNCHANGED <<stage, request>>
    PROVE  Line'
  <1>1. ASSUME NEW k \in Keys, EnqueueReport(k) PROVE Line'
    <2>1. <<k>> \in Seq(Keys) /\ IsInjective(<<k>>)
      BY DEF IsInjective
    <2>2. Enqueue(<<k>>) /\ UNCHANGED <<batch, ofBatch>>
      BY <1>1 DEF EnqueueReport
    <2>3. /\ jobs' \in [Keys -> {"none", "queued", "running", "failed"}]
          /\ chain' \in Seq(Keys) /\ (stage' # "idle" => chain' # <<>>) /\ InLine'
          /\ ActiveIn(jobs) \subseteq ActiveIn(jobs')
      BY <2>1, <2>2, EnqueueInLine
    <2>4. ToSet(chain) # {} => ToSet(chain') # {}
      BY <2>3 DEF Line, InLine
    <2>5. chain # <<>> => chain' # <<>>
      BY <2>3, <2>4, SetEmpty DEF Line
    <2> QED BY <2>2, <2>3, <2>5 DEF Line, BatchNotStuck
  <1>2. CASE StartReportBatch
    <2>1. Scoped \in Seq(Keys) /\ Scoped # <<>> /\ IsInjective(Scoped)
      BY ScopedAssumption
    <2>2. Enqueue(Scoped) /\ batch' = TRUE /\ ofBatch' = ToSet(Added(Scoped))
      BY <1>2 DEF StartReportBatch
    <2>3. ToSet(Scoped) # {}
      BY <2>1, SetEmpty
    <2>4. chain' # <<>>
      BY <2>1, <2>2, <2>3, EnqueueInLine, SetEmpty DEF InLine
    <2> QED BY <2>1, <2>2, <2>4, EnqueueInLine DEF Line, BatchNotStuck
  <1>3. ASSUME NEW k \in Keys, CancelReport(k) PROVE Line'
    BY <1>3 DEF CancelReport, Abort, Line, InLine, BatchNotStuck
  <1>4. CASE CancelReportBatch
    BY <1>4 DEF CancelReportBatch, Abort, Line, InLine, BatchNotStuck
  <1>5. ASSUME NEW k \in Keys, ClearReportResidue(k) PROVE Line'
    <2>1. UNCHANGED <<chain, batch, ofBatch>>
          /\ jobs' = IF jobs[k] \in Active THEN jobs ELSE [jobs EXCEPT ![k] = "none"]
      BY <1>5 DEF ClearReportResidue
    <2>2. /\ jobs' \in [Keys -> {"none", "queued", "running", "failed"}]
          /\ ActiveIn(jobs') = ActiveIn(jobs)
          /\ \A j \in Keys : jobs'[j] = "running" <=> jobs[j] = "running"
      BY <2>1 DEF Line, ActiveIn, Active
    <2> QED BY <2>1, <2>2 DEF Line, InLine, BatchNotStuck
  <1>6. \/ c.op \in {"enqueue", "cancel", "clear"} /\ c.key \in Keys
        \/ c.op = "batch" \/ c.op = "cancelBatch"
    BY DEF Commands
  <1> QED BY <1>1, <1>2, <1>3, <1>4, <1>5, <1>6 DEF Apply

\* The end of a run, whatever became of it.
LEMMA EndInLine ==
    ASSUME Line, NEW how \in {"none", "failed"}, End(how), chain # <<>> PROVE Line'
  <1> DEFINE k == Head(chain)
  <1>1. /\ jobs' = [jobs EXCEPT ![k] = how] /\ chain' = Tail(chain)
        /\ batch' = (batch /\ ofBatch \ {k} # {}) /\ ofBatch' = ofBatch \ {k}
        /\ stage' = "idle" /\ request' = "none"
    BY DEF End, Ended, Settled
  <1>2. /\ Tail(chain) \in Seq(Keys) /\ IsInjective(Tail(chain))
        /\ k \in ToSet(chain) /\ ToSet(Tail(chain)) = ToSet(chain) \ {k}
    BY TailOf DEF Line, InLine
  <1> HIDE DEF k
  <1>3. /\ jobs' \in [Keys -> {"none", "queued", "running", "failed"}]
        /\ ActiveIn(jobs') = ActiveIn(jobs) \ {k}
    BY <1>1 DEF Line, ActiveIn, Active
  <1>4. \A j \in Keys : jobs'[j] # "running"
    BY <1>1 DEF Line, InLine, k
  <1>5. InLine'
    BY <1>1, <1>2, <1>3, <1>4 DEF Line, InLine
  <1>6. BatchNotStuck'
    <2>1. ofBatch \ {k} \subseteq ToSet(Tail(chain))
      BY <1>2 DEF Line, InLine, BatchNotStuck
    <2>2. ofBatch \ {k} # {} => Tail(chain) # <<>>
      BY <1>2, <2>1, SetEmpty
    <2> QED BY <1>1, <1>3, <2>2 DEF Line, BatchNotStuck
  <1> QED BY <1>1, <1>2, <1>3, <1>5, <1>6 DEF Line

LEMMA JobStepInLine == ASSUME Line, JobStep PROVE Line'
  <1>1. CASE Start
    <2> DEFINE k == Head(chain)
    <2>1. /\ stage = "idle" /\ chain # <<>> /\ jobs' = [jobs EXCEPT ![k] = "running"]
          /\ stage' = "loading" /\ UNCHANGED <<chain, batch, ofBatch, request>>
      BY <1>1 DEF Start, chat
    <2>2. k \in ToSet(chain)
      BY <2>1, TailOf DEF Line, InLine
    <2> HIDE DEF k
    <2>3. /\ jobs' \in [Keys -> {"none", "queued", "running", "failed"}]
          /\ ActiveIn(jobs') = ActiveIn(jobs)
          /\ \A j \in Keys : jobs'[j] = "running" <=> j = k
      BY <2>1, <2>2 DEF Line, InLine, ActiveIn, Active
    <2> QED BY <2>1, <2>3 DEF Line, InLine, BatchNotStuck, k
  <1>2. CASE DropCancelled
    BY <1>2, EndInLine DEF DropCancelled
  <1>3. CASE \/ LoadFails \/ NothingToReport \/ WakeUpCancelled \/ AskingFails
             \/ Saved \/ SaveFails
    <2>1. stage # "idle" /\ (End("none") \/ End("failed"))
      BY <1>3 DEF LoadFails, NothingToReport, WakeUpCancelled, AskingFails, Saved, SaveFails
    <2> QED BY <2>1, EndInLine DEF Line
  <1>4. CASE Loaded \/ WakeUp \/ Retry \/ Answered
    <2>1. /\ UNCHANGED Inline /\ stage # "idle" /\ stage' # "idle"
          /\ (request' # "none" <=> stage' = "asking")
      BY <1>4 DEF Loaded, WakeUp, Send, Retry, Answered, queue, Inline
    <2> QED BY <2>1 DEF Inline, Line, InLine, BatchNotStuck
  <1> QED BY <1>1, <1>2, <1>3, <1>4 DEF JobStep

LEMMA NextLine == Line /\ cmds \subseteq Commands /\ [Next]_vars => Line'
  <1> SUFFICES ASSUME Line, cmds \subseteq Commands, [Next]_vars PROVE Line'
    OBVIOUS
  <1>0. ASSUME UNCHANGED Inline, UNCHANGED stage, request' # "none" <=> request # "none"
        PROVE  Line'
    BY <1>0 DEF Inline, Line, InLine, BatchNotStuck
  <1>1. CASE Admit \/ Refuse \/ Complete \/ Fail \/ HearCancel \/ HearCancelInVain \/ TimePasses
    BY <1>0, <1>1 DEF Admit, Refuse, Complete, Fail, HearCancel, HearCancelInVain, TimePasses,
                      Finish, queue, Inline
  <1>2. CASE ClickInMain
    <2>1. PICK c \in Offered(Snapshot) : Apply(c)
      BY <1>2 DEF ClickInMain
    <2>2. c \in Commands /\ c.op # "sync"
      BY <2>1 DEF Offered
    <2> QED BY <1>2, <2>1, <2>2, ApplyInLine DEF ClickInMain
  <1>3. ASSUME NEW c \in cmds, MainHears(c) PROVE Line'
    BY <1>3, ApplyInLine DEF MainHears
  <1>4. CASE \/ ClickElsewhere \/ Broadcast \/ \E c \in cmds : MainSyncs(c)
             \/ \E w \in Others : WindowHears(w) \/ OpenWindow(w) \/ CloseWindow(w)
             \/ UNCHANGED vars
    BY <1>0, <1>4 DEF ClickElsewhere, Broadcast, MainSyncs, WindowHears, OpenWindow,
                      CloseWindow, vars, queue, chat, Inline
  <1> QED BY <1>1, <1>2, <1>3, <1>4, JobStepInLine DEF Next

LEMMA InitLine == Init => Line
  <1> SUFFICES ASSUME Init PROVE Line
    OBVIOUS
  <1>1. ToSet(chain) = {} /\ ActiveIn(jobs) = {} /\ IsInjective(chain) /\ chain \in Seq(Keys)
    BY DEF Init, ToSet, ActiveIn, Active, IsInjective
  <1> QED BY <1>1 DEF Init, Line, InLine, BatchNotStuck

LEMMA LineHolds == Spec => []Line
  BY InitLine, NextLine, CommandsSent, PTL DEF Spec

\* Every busy card has its one place in line, the running one the first, and
\* the request that is out is the running card's.
THEOREM BusyCardsAreInLine == Spec => []InLine
  <1>1. Line => InLine
    BY DEF Line
  <1> QED BY <1>1, LineHolds, PTL

\* A batch that is shown as going on has a job in line that will settle it.
THEOREM BatchesAreSettled == Spec => []BatchNotStuck
  <1>1. Line => BatchNotStuck
    BY DEF Line
  <1> QED BY <1>1, LineHolds, PTL

=============================================================================

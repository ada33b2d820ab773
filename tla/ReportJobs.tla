----------------------------- MODULE ReportJobs -----------------------------
(***************************************************************************)
(* The queue of report summaries (stores/reportJobs.ts) on top of the one  *)
(* chat the language model takes at a time (chatWithBusyRetry and chat in  *)
(* lib/llm.ts).  The queue lives in the main window; other windows send    *)
(* it commands and draw the state it broadcasts.                           *)
(*                                                                         *)
(* A job waits in a chain of promises, is run when its turn comes, and     *)
(* leaves the chain when its run has ended, however it ended.  A cancelled *)
(* job that still waits stays in line and is dropped at its turn.          *)
(***************************************************************************)
EXTENDS Naturals, FiniteSets, Sequences, SequencesExt

CONSTANTS
    Keys,     \* the reports: scope, period and first day
    Scoped,   \* the keys "generate all" goes through, in order: one per project
    Others,   \* the windows besides the main one
    Main,     \* the main window
    Closed,   \* the view of a window that is closed
    MaxSent   \* bound: commands, or states for a window, on their way at once

ASSUME WindowsAssumption == Main \notin Others
ASSUME ScopedAssumption == Scoped \in Seq(Keys) \ {<<>>} /\ IsInjective(Scoped)
ASSUME SentAssumption == MaxSent \in Nat \ {0}

VARIABLES
    jobs,     \* key -> "none", "queued", "running", "failed"
    chain,    \* tail: the keys of the jobs that wait or run, in order
    aborted,  \* the keys whose AbortController was aborted
    batch,    \* there is a batch
    ofBatch,  \* the active keys that carry its id
    stage,    \* of the head of the chain: "idle", "loading", "asking",
              \* "sleeping", "saving"
    request,  \* llm_chat of the head: "none", "sent", "admitted", "ok", "busy", "failed"
    cancel,   \* its llm_cancel is on its way
    late,     \* the ten minutes of busy retries have passed
    due,      \* the timer of the next broadcast is set
    view,     \* window -> the state it draws, or Closed
    states,   \* window -> the broadcasts on their way to it
    cmds      \* the commands on their way to the main window

queue == <<jobs, chain, aborted, batch, ofBatch>>
chat == <<request, cancel, late>>
windows == <<view, states>>
vars == <<queue, stage, chat, due, windows, cmds>>

Active == {"queued", "running"}
ActiveIn(s) == {k \in Keys : s[k] \in Active}

\* What the windows tell apart: the busy cards and whether a batch runs.
Snapshot == [busy |-> ActiveIn(jobs), batch |-> batch]
Empty == [busy |-> {}, batch |-> FALSE]
Seen(w) == IF w = Main THEN Snapshot ELSE view[w]
Open == {w \in Others : view[w] # Closed}

-----------------------------------------------------------------------------
(* The operations on the queue, called in the main window.                 *)

\* Mutation: whether a job of the key is under way is not asked.
AddedAll(ks) == ks

\* What stands at the places I of ks, in order.
Picked(ks, I) ==
    LET place(i) == Cardinality({j \in I : j <= i})
    IN  [n \in 1 .. Cardinality(I) |-> ks[CHOOSE i \in I : place(i) = n]]

\* enqueueLocal ignores a key that waits or runs.
Added(ks) == Picked(ks, {i \in DOMAIN ks : jobs[ks[i]] \notin Active})

\* enqueueLocal for each of ks, in order: a job, a fresh controller, a place in line.
Enqueue(ks) ==
    LET new == ToSet(Added(ks))
    IN /\ jobs' = [k \in Keys |-> IF k \in new THEN "queued" ELSE jobs[k]]
       /\ chain' = chain \o Added(ks)
       /\ aborted' = aborted \ new

EnqueueReport(k) ==
    /\ Enqueue(<<k>>)
    /\ due' = (due \/ Added(<<k>>) # <<>>)
    /\ UNCHANGED <<batch, ofBatch, cancel>>

\* startReportBatch: the new id takes the place of the old one, whose jobs go on.
StartReportBatch ==
    /\ Enqueue(Scoped)
    /\ batch' = TRUE /\ ofBatch' = ToSet(Added(Scoped))
    /\ due' = TRUE
    /\ UNCHANGED cancel

\* Aborts the controllers of ks that there are.  The listener of a request that
\* is out sends llm_cancel, once.
Abort(ks) ==
    LET new == (ks \cap ToSet(chain)) \ aborted
    IN /\ aborted' = aborted \cup new
       /\ cancel' = (cancel \/ (stage = "asking" /\ Head(chain) \in new))
       /\ UNCHANGED <<jobs, chain>>

CancelReport(k) ==
    /\ Abort({k})
    /\ UNCHANGED <<batch, ofBatch, due>>

\* Mutation: the other windows are told of changed jobs only.
CancelReportBatchQuietly ==
    /\ Abort(ofBatch)
    /\ batch' = FALSE /\ ofBatch' = {}
    /\ UNCHANGED due

CancelReportBatch ==
    /\ Abort(ofBatch)
    /\ batch' = FALSE /\ ofBatch' = {}
    /\ due' = (due \/ batch)

\* clearReportResidue leaves a job that waits or runs alone.
ClearReportResidue(k) ==
    /\ jobs' = IF jobs[k] \in Active THEN jobs ELSE [jobs EXCEPT ![k] = "none"]
    /\ due' = (due \/ jobs[k] \notin Active)
    /\ UNCHANGED <<chain, aborted, batch, ofBatch, cancel>>

Commands ==
    [op : {"enqueue", "cancel", "clear"}, key : Keys]
    \cup [op : {"batch"}]
    \cup [op : {"cancelBatch"}]
    \cup [op : {"sync"}, by : Others]

\* The effect of a command on the queue (sync has none).
Apply(c) ==
    CASE c.op = "enqueue" -> EnqueueReport(c.key)
      [] c.op = "cancel" -> CancelReport(c.key)
      [] c.op = "clear" -> ClearReportResidue(c.key)
      [] c.op = "batch" -> StartReportBatch
      [] c.op = "cancelBatch" -> CancelReportBatch

-----------------------------------------------------------------------------
(* The run of the job whose turn it is.                                    *)

\* Mutation: the batch is settled by the jobs that succeed only.
SettledBySuccess(how) == batch /\ (how = "failed" \/ ofBatch \ {Head(chain)} # {})

\* settleBatch, after a run that left the job as how: is there still a batch?
Settled(how) == batch /\ ofBatch \ {Head(chain)} # {}

\* Mutation: a job that could not be read stays as it was.
EndedRunning(how) == IF stage = "loading" /\ how = "failed" THEN jobs
                     ELSE [jobs EXCEPT ![Head(chain)] = how]

Ended(how) == [jobs EXCEPT ![Head(chain)] = how]

\* run ends and leaves the job as how; its controller goes, the next is up.
End(how) ==
    /\ jobs' = Ended(how)
    /\ chain' = Tail(chain)
    /\ aborted' = aborted \ {Head(chain)}
    /\ batch' = Settled(how)
    /\ ofBatch' = ofBatch \ {Head(chain)}
    /\ stage' = "idle" /\ due' = TRUE
    /\ request' = "none" /\ cancel' = FALSE /\ late' = FALSE
    /\ UNCHANGED <<windows, cmds>>

DropCancelled ==
    /\ stage = "idle" /\ chain # <<>> /\ Head(chain) \in aborted
    /\ End("none")

Start ==
    /\ stage = "idle" /\ chain # <<>> /\ Head(chain) \notin aborted
    /\ jobs' = [jobs EXCEPT ![Head(chain)] = "running"]
    /\ stage' = "loading" /\ due' = TRUE
    /\ UNCHANGED <<chain, aborted, batch, ofBatch, chat, windows, cmds>>

\* loadSources fails, or finds no activity.
LoadFails == stage = "loading" /\ End("failed")
NothingToReport == stage = "loading" /\ End("none")

\* chat: a request with an id of its own; the listener hears later aborts only.
Send ==
    /\ request' = "sent" /\ cancel' = FALSE
    /\ stage' = "asking"

Loaded ==
    /\ stage = "loading" /\ Send
    /\ UNCHANGED <<queue, late, due, windows, cmds>>

\* Three seconds, or an abort, end the wait.
WakeUp ==
    /\ stage = "sleeping" /\ Head(chain) \notin aborted
    /\ Send
    /\ UNCHANGED <<queue, late, due, windows, cmds>>

WakeUpCancelled == stage = "sleeping" /\ Head(chain) \in aborted /\ End("failed")

\* BUSY is retried until the limit, unless the job was cancelled.
MayRetry == Head(chain) \notin aborted /\ ~late

Retry ==
    /\ stage = "asking" /\ request = "busy" /\ MayRetry
    /\ stage' = "sleeping" /\ request' = "none"
    /\ cancel' = FALSE /\ due' = TRUE
    /\ UNCHANGED <<queue, late, windows, cmds>>

AskingFails ==
    /\ stage = "asking"
    /\ \/ request = "failed"
       \/ request = "busy" /\ ~MayRetry
    /\ End("failed")

Answered ==
    /\ stage = "asking" /\ request = "ok"
    /\ stage' = "saving" /\ request' = "none"
    /\ cancel' = FALSE /\ late' = FALSE  \* of no effect from here on
    /\ UNCHANGED <<queue, due, windows, cmds>>

\* inputHash and reportSet: saved, or not.
Saved == stage = "saving" /\ End("none")
SaveFails == stage = "saving" /\ End("failed")

JobStep ==
    \/ Start \/ DropCancelled
    \/ LoadFails \/ NothingToReport \/ Loaded
    \/ WakeUp \/ WakeUpCancelled \/ Retry \/ AskingFails \/ Answered
    \/ Saved \/ SaveFails

-----------------------------------------------------------------------------
(* The back end: llm_chat and llm_cancel, as seen by the queue.            *)

\* Another request may be in the slot, or not.
Admit ==
    /\ request = "sent" /\ request' = "admitted"
    /\ UNCHANGED <<queue, stage, cancel, late, due, windows, cmds>>

Refuse ==
    /\ request = "sent" /\ request' = "busy"
    /\ UNCHANGED <<queue, stage, cancel, late, due, windows, cmds>>

Finish(answer) ==
    /\ request = "admitted" /\ request' = answer
    /\ UNCHANGED <<queue, stage, late, due, windows, cmds>>

Complete == Finish("ok") /\ UNCHANGED cancel
Fail == Finish("failed") /\ UNCHANGED cancel

\* A cancel hits the request it names, if that is in the slot.
HearCancel == cancel /\ cancel' = FALSE /\ Finish("failed")
HearCancelInVain ==
    /\ cancel /\ request # "admitted" /\ cancel' = FALSE
    /\ UNCHANGED <<queue, stage, request, late, due, windows, cmds>>

TimePasses ==
    /\ stage \in {"asking", "sleeping"} /\ ~late /\ late' = TRUE
    /\ UNCHANGED <<queue, stage, request, cancel, due, windows, cmds>>

-----------------------------------------------------------------------------
(* The windows.                                                            *)

\* What the user can click in a window that draws s.
Offered(s) ==
    {c \in Commands :
        CASE c.op = "enqueue" -> c.key \notin s.busy
          [] c.op = "cancel" -> c.key \in s.busy
          [] c.op = "clear" -> TRUE  \* the card's effect, when a summary was saved
          [] c.op = "batch" -> ~s.batch
          [] c.op = "cancelBatch" -> s.batch
          [] c.op = "sync" -> FALSE}

ClickInMain ==
    /\ \E c \in Offered(Snapshot) : Apply(c)
    /\ UNCHANGED <<stage, request, late, windows, cmds>>

ClickElsewhere ==
    /\ Cardinality(cmds) < MaxSent
    /\ \E w \in Open : \E c \in Offered(view[w]) : cmds' = cmds \cup {c}
    /\ UNCHANGED <<queue, stage, chat, due, windows>>

MainHears(c) ==
    /\ c \in cmds /\ c.op # "sync" /\ cmds' = cmds \ {c}
    /\ Apply(c)
    /\ UNCHANGED <<stage, request, late, windows>>

\* The state goes to every window there is.
Told == [w \in Others |-> IF w \in Open THEN Append(states[w], Snapshot) ELSE <<>>]
MayTell == \A w \in Others : Len(states[w]) < MaxSent

Broadcast ==
    /\ due /\ MayTell
    /\ due' = FALSE /\ states' = Told
    /\ UNCHANGED <<queue, stage, chat, view, cmds>>

\* A sync is answered at once; the timer, if set, goes on.
MainSyncs(c) ==
    /\ c \in cmds /\ c.op = "sync" /\ MayTell
    /\ cmds' = cmds \ {c} /\ states' = Told
    /\ UNCHANGED <<queue, stage, chat, due, view>>

WindowHears(w) ==
    /\ w \in Open /\ states[w] # <<>>
    /\ view' = [view EXCEPT ![w] = Head(states[w])]
    /\ states' = [states EXCEPT ![w] = Tail(states[w])]
    /\ UNCHANGED <<queue, stage, chat, due, cmds>>

\* A window listens and asks for the state.
OpenWindow(w) ==
    /\ view[w] = Closed /\ view' = [view EXCEPT ![w] = Empty]
    /\ Cardinality(cmds) < MaxSent
    /\ cmds' = cmds \cup {[op |-> "sync", by |-> w]}
    /\ UNCHANGED <<queue, stage, chat, due, states>>

CloseWindow(w) ==
    /\ w \in Open /\ view' = [view EXCEPT ![w] = Closed]
    /\ states' = [states EXCEPT ![w] = <<>>]
    /\ UNCHANGED <<queue, stage, chat, due, cmds>>

-----------------------------------------------------------------------------
Init ==
    /\ jobs = [k \in Keys |-> "none"] /\ chain = <<>> /\ aborted = {}
    /\ batch = FALSE /\ ofBatch = {}
    /\ stage = "idle" /\ request = "none" /\ cancel = FALSE /\ late = FALSE
    /\ due = FALSE
    /\ view = [w \in Others |-> Closed] /\ states = [w \in Others |-> <<>>]
    /\ cmds = {}

Next ==
    \/ JobStep
    \/ Admit \/ Refuse \/ Complete \/ Fail \/ HearCancel \/ HearCancelInVain
    \/ TimePasses
    \/ ClickInMain \/ ClickElsewhere \/ Broadcast
    \/ \E c \in cmds : MainHears(c) \/ MainSyncs(c)
    \/ \E w \in Others : WindowHears(w) \/ OpenWindow(w) \/ CloseWindow(w)

\* Promises are settled, the back end answers (its time-out at the latest), and
\* the clock goes on.  Nothing is assumed of the user or of the other requests.
Fairness ==
    /\ WF_vars(JobStep \/ Admit \/ Refuse \/ Complete \/ Fail)
    /\ WF_vars(TimePasses)

Spec == Init /\ [][Next]_vars
FairSpec == Spec /\ Fairness

-----------------------------------------------------------------------------
\* reportJobs.ts:3-6: a card never shows "not generated" while its request
\* holds the model.  Every busy card has one place in line, the running one is
\* the first, and a request that is out is the running card's.
InLine ==
    /\ ToSet(chain) = ActiveIn(jobs) /\ IsInjective(chain)
    /\ \A k \in Keys : jobs[k] = "running" <=> stage # "idle" /\ k = Head(chain)
    /\ request # "none" <=> stage = "asking"

\* A batch that is shown as going on always has a job in line whose end will
\* look at it: also if each of its keys was ignored, or its jobs were cancelled,
\* failed or had nothing to report.
BatchNotStuck ==
    /\ batch => chain # <<>>
    /\ ofBatch # {} => batch
    /\ ofBatch \subseteq ActiveIn(jobs)

\* A window that draws an old state is about to hear of the new one, whatever
\* it missed before it was opened.
WindowsCatchUp ==
    \A w \in Open :
        \/ (IF states[w] = <<>> THEN view[w] ELSE Last(states[w])) = Snapshot
        \/ due
        \/ [op |-> "sync", by |-> w] \in cmds

\* Every job that was put in line ends, if only by giving up the slot it cannot
\* get: no job blocks those behind it.
EveryJobEnds ==
    \A k \in Keys : jobs[k] \in Active ~> jobs[k] \notin Active
=============================================================================

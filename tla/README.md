# A verification project for Gitpervisor

Gitpervisor is a desktop application (Tauri: a Rust back end, a TypeScript front end) that watches many
git repositories at once: it shows their status, refreshes their remotes in the background, runs git
commands on them, and hosts terminals, language servers, a local language model, media tools and more.
This directory holds TLA+ models of the parts of it that are concurrent, the TLC configurations that
check them on small instances, and proofs about them that TLAPS checks for every size.

Contents: [inventory](#inventory) · [modules](#modules) · [runs](#runs) · [findings](#findings) ·
[proofs](#proofs) · [abstractions](#abstractions) · [what is not modelled](#what-is-not-modelled) ·
[plan](#plan) · [how to run](#how-to-run). Paths are relative to `src/`; `rs/` abbreviates
`src-tauri/src/` and `fe/` abbreviates `src/`.

## Inventory

The back end is one process with a multi-threaded tokio runtime, plus std threads; commands declared
synchronous run on the main thread, one after the other. All shared state is in `AppState`
(`rs/state.rs`) or in module statics, behind std mutexes that are never held across an await. So nearly
every operation is a sequence of short critical sections with arbitrary interleavings between them:
that is where this code is hard, and what the models keep.

| component | state | operations | interacts with | what is hard | what makes it correct |
|---|---|---|---|---|---|
| background fetch scheduler `rs/fetch_scheduler.rs` | stamp of the last cycle, freshness and attempt records per project, semaphore, flag for old gits | loop tick, focus refresh, manual refresh, plan, fetch task, prune | operation lock, project list, settings, the front end's `repo://changed` refetch | overlapping cycles, early returns, decisions used long after they were made | one git operation per project, a global limit, throttle and backoff kept, badge in step, remote-less projects asked again |
| git operation lock `rs/state.rs`, `rs/commands/actions.rs`, `sync.rs` | set of locked keys | every git command: resolve, lock, run, release | project list, scheduler | refusal and error paths, folder resolved before the lock | a lock is held exactly while its command runs |
| project list `rs/commands/projects.rs` | list of projects (folder, name, logo) | add, move, remove, reorder | everything that resolves a project id | duplicates over a sequence of calls | no two projects on one folder |
| local AI server `rs/llm/{server,chat,relay}.rs`, `fe/lib/llm.ts` | registered server, chat slot with its abort handle, connection count | ensure, chat, cancel, relay connection, stop, reap, shut down | settings, shutdown | minutes pass between look-up and registration; futures dropped anywhere; a cancel that overtakes its request | no server lost, slot always freed, only the request meant is cancelled, one server |
| language servers `rs/commands/lsp.rs`, `fe/lib/lsp/client.ts` | session registry, one client object per language and project, sinks | start, send, stop, exit event, idle disposal, reap, evict, remove project, shut down | project list, shutdown, page reload | reader threads outlive their sessions; starts race removals | no server lost, nothing registered for what is gone, cap kept |
| terminals `rs/commands/terminal.rs`, `fe/stores/terminals.ts` | PTY registry; reader and pump threads with a bounded queue | open, write, attach, close, close all of a project | project removal, floating windows, shutdown | exit before registration, replacement under one id, back-pressure | no shell outlives its project or the application; the exit of one session never hits another |
| windows and shutdown `rs/lib.rs` | pool of hidden windows, redocking set, close and shutdown flags | warm, ready, claim, drain, redock, shut down | terminals, health levels | hand-shakes between windows, several exits | shutdown once and in order; a window is claimed once; a redocked terminal survives |
| Claude session resume `rs/claude_resume.rs`, `fe/lib/terminal-engine.ts` | pending, in-flight and written records, frozen flag, one file | periodic snapshot, take, forget, last snapshot, start | terminals, shutdown, restart | readings merged late, failed writes, crash between start and re-opening, two terminals with one session | no session lost from the file, none resumed twice |
| user data store `rs/state.rs`, `notes.rs`, `settings.rs`, `report.rs` | a copy in memory and a file per kind | load, quarantine, migrate, change, save | every command that persists | crash between steps, save failures, order of saves | the file is always some complete state and in the end the newest |
| file watcher, ignore cache `rs/watcher.rs`, `rs/commands/tree.rs` | watcher per project; cache with fresh and building flags | register, unregister, add directories, invalidate, rebuild | project list, git | background registration against removal | nothing watched that is gone; a change is never hidden for good |
| HLS segments `rs/commands/hls.rs` | sessions, slot per segment, files, counters | segment request, prefetch, evict, prune | preview server, ffmpeg | waiters, eviction under readers | each segment baked once, an answer names a file that exists |
| captions of a video `fe/stores/captionDoc.ts`, `rs/stt/store.rs` | an entry per window: document, revision, undo stack, flags; one file with a revision | edit, undo, timed save, reload, overwrite, flush, transcribe, import, translate | other windows and tools through the file and its event | answers and events in any order, edits made while a call is out | no blind overwrite, no edit forgotten, undo stays within a transcription, a job's lock ends |
| image editor document `fe/lib/annotate/{history,persist}.ts`, `rs/commands/image_doc.rs` | two history stacks, save state, stamp; a sidecar file | draw, undo, redo, jump, timed save, close, flatten, load | other windows through the sidecar | one save at a time with an again-flag, state read from the last render, late loads | every change gets a save, history is one line, later writes of others stay, as far as the stamp can tell |
| report jobs `fe/stores/reportJobs.ts`, `fe/lib/llm.ts` | jobs, chain of promises, abort handles, batch; a copy per window | enqueue, cancel, clear, batch, run, broadcast | the chat slot, other windows by commands and broadcasts | cancel at any moment, a slot held by others, windows that open while things change | one place in line per busy card, every job ends, no window left behind |
| media queue `fe/stores/mediaQueue.ts`, `videoJobs.ts` | queue in the front end | enqueue, cancel, settle | video jobs | event and answer of one job race | one at a time, every job settles once |

The other components (git runner and parsers, health, speech to text, HTTP, MCP, database, browser,
capture, images, files, tools, downloads, PC care, usage, localisation, views) are listed with the
reason they are left out under `components` in `PROJECT.json`.

`PROJECT.json` lists the hazards of this code, each at its line with the properties that watch it.
Further ones, smaller or accepted by a comment in the code: the settings in memory replaced before a
save that may fail (`rs/commands/settings.rs:29`); the migration of the old refresh interval
(`rs/state.rs:285`); a change during the rebuild of the ignore cache (`rs/commands/tree.rs:984`); the
prefetch limit tested before it is counted (`rs/commands/hls.rs:299`); an upload aborted while one of
its chunks is written (`rs/commands/tree_import.rs:105`); the CPU fallback saved while a settings form
is open (`rs/llm/server.rs:529`); a failed language-server start that stays failed until a reload
(`fe/lib/lsp/client.ts:109`); the reaper of language servers that collects keys under one lock and
removes them under another (`rs/commands/lsp.rs:388`).

## Modules

| module | models | proofs |
|---|---|---|
| `KeyedMutex` | abstract: a lock per key with at most one owner | – |
| `FetchScheduler` | the scheduler with the operation lock and the front end's badge | `FetchSchedulerProofs` |
| `OpLock` | project list and operation lock, keyed by project and nested repository | `OpLockProofs` |
| `LlmServer` | server, chat and relay, front end's chat requests, shutdown | `LlmServerProofs` |
| `LspSessions` | back end's sessions and the front end's client objects, composed | `LspSessionsProofs` |
| `ClaudeResume` | records of Claude sessions over terminals, snapshots, quits, crashes and restarts | `ClaudeResumeProofs` |
| `CaptionDoc` | a video's captions in several windows, composed with the back end's file and tools | `CaptionDocProofs` |
| `ImageDoc` | an image editor's history, its saving and closing, composed with the sidecar | `ImageDocProofs` |
| `ReportJobs` | the report queue composed with the chat slot and with other windows | `ReportJobsProofs` |

Each module `M` but the abstract one has an instance `MCM` for TLC. An operator whose comment begins with
"Mutation" is a variant of its neighbour with one plausible bug (a dropped guard, a forgotten release, a
swapped order). No run uses it as it stands: putting it in the place of its neighbour must make the named
property fail (`mutants` in `PROJECT.json`), which is how we know the property would notice the bug.

### FetchScheduler

*State.* `sinceCycle` is the age of `LAST_CYCLE`; `freshness` and `sched` are the two maps; `permits`
and `flagless` the semaphore and the flag; `ops` the locked ids of `AppState`; `cycle` the running calls
of `run_cycle` (the loop's and spawned ones) with their program counter; `task` the stage of each
`fetch_one`; `shown` and `pending` the front end's badges and an unserved event; `status` and `minutes`
the project list and the setting; `sinceClaim` and `dropped` (the projects whose error a full cycle has
forgotten since the front end last looked) are history variables.

*Actions.* `LoopTick`, `FocusReturn`, `ManualRefresh` are the triggers, with `Claim` for `claim_cycle`.
`CycleSnapshot`, `CycleStamp`, `CyclePlan`, `CycleDone` follow `run_cycle`: read the projects, prune and
stamp, decide and count skips, wait for the tasks. `AcquirePermit`, `BeginFetch` and the actions that follow
walk through `fetch_one` (`YieldFetch`, `RemoteMissing`, `RemoteFailed`, `FetchRetry`, `FetchSucceeded`, `FetchFailed`): yield to the user if the project is locked, ask for the remote, fetch, try try once
more without the flag on an old git (or end in another error), finish. `UserStep` adds, removes and runs a user's command;
`SetMinutes` changes the setting; `RefetchStatuses` is the front end; `Minute` lets time pass.

### OpLock

*State.* `path` gives the folder of each registered project (`used` remembers the ids given out), `ops` is
the lock set, `call` the stage, key and resolved path of each command. *Actions.* `AddProject`,
`UpdatePath`, `RemoveProject` with their duplicate checks; `ResolveCall` (`project_path`, also for an id that
names a nested repository, whose path need not exist), `BeginOp` or `RefuseOp`
(`OpGuard::try_lock`), `EndOp` (its `Drop`, on success, error and time-out alike), `Acknowledge`.

### LlmServer

*State.* `registry` is `AppState.llm`, `server` the processes, `call` the chats and connections with
what they want and hold, `inflight` and `aborted` the slot and its abort handles, `conns` the count,
`reaper`, `doomed` and `exit` the threads that take servers down. *Actions.* `Invoke`, `AdmitChat`,
`AdmitConn`; `Reuse`, `Miss`, `TakeStale`, `KillStale`, `Spawn`, `StartFails`, `BecomeReady`, `Register`,
`WaitFails`, `TryCpu`, `CpuInstalled` follow `ensure_server_ctx` and `start`; `Token`, `Answer`,
`RequestFails`, `Cancel`, `DropFuture` follow `llm_chat`; `ReaperLooks`, `ReaperTakes`, `ReaperKills` the
reaper's two critical sections and the kill; `StopServer`, `Terminate` the stop command and its thread;
`KillAllTakes`, `KillAllKills`, `Gone` the end. A chat may be dropped at each await, a connection cannot.

### LspSessions

*State.* `sessions` and `lru` are the registry and the order of last use (the pairs of an earlier and a later one), `server` the processes with
their reader thread and sink, `client` and `current` the front end's objects and the map from key to the
object in use, `listed` and `leaving` the projects, `stops` and `exits` the calls and events on their way.
*Actions.* `OpenDoc` to `Reload` are `client.ts`; `Reattach`, `LookUp`, `Spawn`, `StartFails`, `Register`,
`RefuseRegister` follow `start_blocking`; `LspStop`, the reaper, `RemoveProject`, `ShutDown` and `Drain`
take sessions out, `TerminateChild` kills what was taken out, `ReaderEnds` is the end of `reader_loop`.

### ClaudeResume

*State.* `tabs`, `opening`, `open` are the panes, the `term_open` calls under way and the registered shells;
`asks` and `forgets` the calls of `claude_resume_take` and `claude_resume_forget`; `running` and `resumed` the
Claude in each terminal and the one that was resumed there; `pending`, `inflight`, `written`, `frozen` are the
fields of `Resume`; `aged` and `late` stand for the two ages the code compares; `snap` what the thread's and
the last snapshot have read, `file` the file, `ran` (history) what the last snapshot saw. *Actions.* The
terminals (`OpenTerminal` to `ClaudeEnds`); `Take`, `Forget`; `PeriodReads` and `Quit` read shells and registry,
`Snapshot` merges and writes under the lock later; `KillAll`, `Ends` (in order or by a crash at any moment, which loses everything but
the file and the panes) and `Start`.

### CaptionDoc

*State.* `entry` is the `CaptionEntry` of each window, `timer` its debounce timer, `flight` its save, `loads`,
`calls` and `tool` the other calls it waits for, `events` the announcements on their way to it, `disk` the file. The code knows a
version by its revision, `rev`, which a transcription over a missing or damaged file starts at 1 again; `life` (history) tells equal revisions of different files apart, and no guard
of the code looks at it.
*Actions.* One per handler and per await: the user's (`UserEdit`, `Undo`, `Redo`, `ClickReload`,
`ClickOverwrite`, `FlushCalled`, `StartAi`), the answers' (`SaveReturns`, `ReloadReturns`, `OverwriteReturns`,
`FlushReturns`, `SettleByAnswer`), the event's (`Changed`, `SettleByEvent`), and the back end's critical sections
(`SaveAt`, `SaveRefused`, `ToolWrites`, `LoadAt` and their failures, `OthersWrite`); `FileLost` is the environment's.

### ImageDoc

*State.* `hist` is the `DocHistory`, `st` the `PersistState` and `shown` the one last rendered; `timer`,
`flight`, `again`, `stamp` are persist.ts's references; `opening` and `win` the editor's load and life; `file`
the sidecar; `edited`, `owed` and `overlap` (another window's write has fallen between the steps of a call) history. *Actions.* `Commit`, `Undo`, `Redo`, `JumpTo`; `TimerFires` (also for a
window that goes before its timer has); the back end's three steps of a write, `WriteTested`, `WriteAt` and `WriteStamped`, `WriteFails`, and the answer `WriteReturns`; the two steps of a load,
`LoadAt` and `LoadStamped`, and its four outcomes; `Close`, `CloseClean`, `AnswerAsk`; `Flatten` and the
deletion of the sidecar after it; `Render`; `OthersWrite`.

### ReportJobs

*State.* `jobs`, `chain`, `aborted`, `batch`, `ofBatch` are the store; `stage` where the job at the head of the
chain stands, `request`, `cancel`, `late` its chat call; `due`, `states`, `cmds`, `view` the broadcast's timer, the
messages between the windows and what each draws. *Actions.* Clicks in either kind of window, the commands
and states as they arrive, the run of a job await by await, `Admit` to `HearCancelInVain` for the back end.

## Runs

| run | shows | instance | states |
|---|---|---|---|
| `fetch_one_project` | one operation per project, badge coherent, throttle, refinement of `KeyedMutex`; tasks end, remote-less projects are asked again, switching off drains | 1 project that is added, 2 cycles, 1 permit, new git, refresh on or off | 174 thousand |
| `fetch_loop_only` | backoff respected, records of removed projects pruned | 2 removable projects, one added later, the loop alone, old git | 297 thousand |
| `op_lock` | folders distinct, locks exactly while running, refinement of `KeyedMutex` | 2 projects, a repository nested in another, a path without a folder, 2 commands | 687 |
| `llm_chats` | one chat in the slot, cancels hit only their request, only a stale server is taken down, slot freed, idle server reaped | 2 chats, 2 servers, shutdown | 249 thousand |
| `llm_relay` | no stray server, connections counted, server fits the request | 3 connections (limit 2), 2 servers, settings that change, CPU fallback | 1.0 million |
| `lsp_sessions` | no stray server, starts serial, nothing for what is gone, cap, late readers harmless | 2 projects, 1 language, 2 clients, 2 servers, cap 1, 1 reload | 1.5 million |
| `claude_resume` | what the last snapshot saw stays in the file, no record of an unopened terminal is dropped, nothing resumed twice | 2 terminals, 1 session, 2 starts | 2.3 million |
| `caption_doc` | no blind overwrite, clean means saved, no stranded edit, undo within a transcription, a job's lock ends | 1 window and writers elsewhere, 1 edit, 3 writes, the file lost after the first of them or never, 1 load, undo limit 1 | 2.0 million |
| `image_doc` | every change gets a save, history is a line, later writes of others stay unless they fall between the steps of a call | 1 editor and another window, 1 layer, limit 2; no sidecar, another's layer or its own in it | 2.1 million |
| `report_jobs` | one place in line per busy card, batches end, windows catch up, every job ends | 2 reports, 1 other window, 1 message each way | 0.7 million |
| `image_close`, `llm_exit` | the findings below | | |

**Why these bounds are enough.** *Ages* saturate at the largest value a comparison in the code can tell
apart, so a bounded age loses nothing. `MaxStreak` is chosen so that the backoff has reached its cap
(`StreakAssumption`); larger streaks behave alike. Locks, permits and maps are per project and treat all
projects the same, so one project gives every interleaving about a single one; the limit on permits, which
projects share, is proved for every number. Two overlapping cycles (plus a user) are the smallest number
that can disagree; the model has no step that involves three. For the
server: two callers suffice for every race about one registry, three connections exceed a limit of two,
and a server id is used again once nobody refers to it, so two ids stand for any number over time. For the
language servers: two keys exceed the cap of one; two client objects are an old and a new one; one reload
makes an old start overlap a new object. `ClaudeResume`: two terminals share one session, in every state of
both; the file may hold the record of any one terminal (or none) at the first start, and the second start follows a quit or crash of a
run that went through everything. `CaptionDoc`: what other windows do to a window is to write the file,
which `OthersWrite` does; three writes are one's own, somebody else's and a tool's, one loss lets a revision be met again, and the proofs cover any number of windows, edits, writes and losses (`MaxRev` and `MaxLost` are bounds on guards
only). The same instance without a limit on losses (7.2 million states) passes too.
`ImageDoc`: a limit of two makes the history forget; a layer can be drawn and deleted again, so documents repeat.
`ReportJobs`: two reports are one running and one behind it. `MaxStarts`, `MaxRev`, `MaxLost`, `MaxLoads`, `MaxSent`, `MaxReloads`, the choice of calls
in `CaptionDoc` and `ShutsDown` are the only bounds that cut behaviour; everything else is finite by itself or by reuse.

**Deadlock** is checked in the scheduler's runs and `report_jobs`. In the others all commands may be done, the bounds reached,
the editor closed or the application ended, and nothing is left to do.

**Fairness.** `FetchScheduler`: spawned futures are polled, git answers or its time-out fires
(`rs/git/runner.rs` has one for every command), tokio's semaphore is first come first served (strong
fairness of `AcquirePermit`: other cycles take the permit in between, but a waiter is served), time passes
and the loop's interval fires, the front end serves an event. The user only promises that a started
command ends, which its time-out ensures. `LlmServer`: what a caller can do without hearing from
somebody else it does in the end, the chat's time-out fires, the reaper polls. Nothing is assumed of the
user, of the model's answers or of a server that loads. `OpLock`: a call goes on. `ReportJobs`: promises settle, the back end
answers (its time-out at the latest), the clock goes on; nothing of the user, nor that whoever has the slot gives it up. The others state no fairness and no liveness.

**Refinement.** `KeyedMutex`, a lock per key that is acquired when free and given back by its owner, is what four
components promise of four different locks. `FetchScheduler` and `OpLock` implement it with `AppState.ops` (a key per id; the
owner is whoever's guard is alive: a user's command, the cycle of a task, a call), which the runs check and the proofs establish
for every size. `LlmServer` implements it with the chat slot and `LspSessions` with `START_LOCK` (one key each; the owner is the
chat that is worked on, the object whose start is between look-up and registration); these two are proved. Every step is one
acquisition, one release by the owner, or a stutter, which rules out a step that passes a lock from one holder to another or
drops somebody else's: a state invariant cannot see that.

## Findings

Two are runs that TLC ends with a counterexample of the code as it is.

* **`image_close`** – closing an image editor always flushes, and flush saves what the history holds. Before
  the sidecar is loaded that is the empty document, sent without a stamp and so untested: opening an image and closing
  it at once loses the stored layers (`fe/components/image/ImageEditor.tsx:1971`, against `:1950` and `fe/lib/annotate/persist.ts:184`).
  `UneditedIsKept` proves what suffices for a repair: no document is sent or stored before the load is done, without a stamp, or after the deletion, and no other window's
  write falls between the steps of a call; TLC refutes it without any one of the four.
* **`llm_exit`** – the kill at shutdown sees registered servers only; one that is still loading, or taken by
  `llm_stop`'s thread and not yet killed, survives, against `rs/llm/server.rs:635`. `QuietExit` proves that nothing else does.

The models led to others, which are in the models as behaviour but have no run of their own:

* *Fetch scheduler.* A full cycle keeps the records of the projects it read at its start (`rs/fetch_scheduler.rs:159`). A project
  added after that, and fetched with an error by another cycle before the pruning (`:182-190`), loses its record without an event: its badge stays until
  something else refetches, since a later success finds no error to clear, against `fe/lib/events.ts:298`, which counts on an event
  whenever an error sets in or clears. `BadgeCoherent` excepts these projects, `AllBadges` proves when there are none.
* *Operation lock.* The key is the id a command receives; one repository reached under two ids (a project of its own and
  a folder nested in another, or a project moved while a command that resolved the old folder runs)
  has two git operations at once (`rs/state.rs:106`), against the promise of `rs/state.rs:32`. `OnePerFolder` proves that there is no third way.
* *AI server.* `ensure_server_ctx` tests for a server long before it registers one: a chat and a connection
  that overlap start two (`rs/llm/server.rs:471`), against `rs/state.rs:68`. That a chat takes down only a stale
  server (`TakesOnlyStale`) holds for chats alone (`ChatsTakeStale`), or while one caller is at work (`TakesStale`).
* *Language servers.* A session ended by the reaper, by eviction or by stop is taken out of the registry before its reader
  sees the end, and the reader then announces nothing (`rs/commands/lsp.rs:523`): the front end keeps
  believing in a server that is gone, against `rs/commands/lsp.rs:393` and `DOCS/task/17-lsp-integration.md:197`. And `lsp://exit` carries the key only, so
  a late one disposes a newer object (`fe/lib/lsp/client.ts:330`).
* *Report jobs.* A cancel that arrives while the sources are fetched is lost: the signal is aborted before
  `chat` adds its listener, which then never fires (`fe/lib/llm.ts:66`, `fe/stores/reportJobs.ts:117`), against `fe/lib/llm.ts:20` and
  `DOCS/task/60-work-report-heatmap.md:18`; the summary is made and stored. Cancelled queued jobs vanish at
  their turn (`reportJobs.ts:111`), where the same document (line 144) keeps them shown.
* *Image editor.* `write_doc_at` tests the stamp, stores the file and reads the new stamp without a lock around the three (`rs/commands/image_doc.rs:131`, `:143`,
  `:145`), and `read_doc_at` reads a document and its stamp one after the other (`:103`, `:111`); the commands are asynchronous. So two windows can both pass the test, or one takes
  the other's stamp for that of its own file or of what it has read, and the second write silently replaces the first, against `image_doc.rs:117` ("다르면 다른 창이 그 사이에 저장한 것이므로
  `Conflict` 로 거절한다 — 조용히 덮으면 저쪽 창의 편집이 통째로 날아간다"). `LaterWritesKept` excepts exactly this (`overlap`); TLC refutes it if any one of the three places is not excepted.
* *Image editor.* With two or more steps undone the panel lists them in the wrong order, because `entries` reverses a stack (`fe/lib/annotate/history.ts:73`,
  `:129`, `:137`), so a click on one of them lands on another. Undo and redo do not mark the document dirty although a jump does and its comment says why
  (`ImageEditor.tsx:1037` against `:1056`).
* *Captions.* A transcription over a missing or damaged file starts at revision 1 again (`rs/stt/store.rs:190-203`, tested at `:436-440`), so a
  revision can be met again with other lines. A clean window at revision 1 then ignores the event (`fe/stores/captionDoc.ts:237`) and goes on showing the old
  ones, and its next save passes the test and replaces the new transcription, against `rs/stt/store.rs:171` (the unsaved edit of another window that saves under an
  old revision meets a Conflict: "다른 창의 미저장 편집이 옛 rev로 저장하려 하면 Conflict가 난다"). `NoBlindOverwrite` and `CleanMeansSaved` are stated for a file
  not lost since the window learned its revision; without that condition TLC refutes the first in 8 states and the second in 5.
* *Captions.* An edit typed while an automatic reload is on its way is dropped by it (`fe/stores/captionDoc.ts:230`); a transcription starts
  although a translation has begun during its `await flush` (`:334`, `:338`).
* *Claude resume.* A snapshot between the registration of a terminal's shell and its take sees a shell without
  Claude and a record that does not count any more, and writes a file without the session; if it is the last one the session is lost (`rs/claude_resume.rs:317`). So it is for a session
  whose registry file is being rewritten at the last reading (`:105`). A pane closed while `term_open` is on its way leaves a shell without a pane (`fe/lib/terminal.ts:620`).

## Proofs

All are for every value of the constants that satisfies the assumptions named in the modules. A condition in brackets is a
hypothesis of the theorem: the property is false of the code without it (TLC finds the counterexample), so the theorem says
what it is that the code relies on. A passing run that checks such a property has an instance which satisfies the condition.

| module | theorem | property |
|---|---|---|
| `FetchSchedulerProofs` | `TypeCorrect` | `TypeOK` |
| | `OneOperation` | `OneOperationPerProject` |
| | `LocksHeld` | `LockHeldByGuards` |
| | `Permits`, `FetchLimit` | `PermitsConserved`, `FetchCap` |
| | `Throttled` | the action property `ThrottledApart` |
| | `Skips` | `SkipsBounded` |
| | `Refinement` | `LocksImplementMutex`, that is `KeyedMutex` under the mapping of the run |
| | `BackoffKept` (while no two cycles have a task on one project), `LoopKeepsBackoff` (the loop alone) | the action property `BackoffRespected` |
| | `Badges` | `BadgeCoherent`, which excepts the projects in `dropped` |
| | `AllBadges` (one cycle, or every project there from the start, or one project) | the same without the exception |
| `OpLockProofs` | `TypeCorrect`, `LocksExact`, `OnePerKey` | `TypeOK`, `LockedWhileRunning`, `OneOperationPerKey` |
| | `Refusals`, `Folders` | the action property `RefusedForCause`; `FoldersDistinct` |
| | `Refinement` | `LocksImplementMutex`, likewise |
| | `OnePerFolder` (nested folders reached under one id, nothing moved or removed under a command) | `OneOperationPerFolder` |
| `LlmServerProofs` | `TypeCorrect`, `OneChatAtATime`, `ConnectionsCounted` | `TypeOK`, `OneChat`, `ConnsCounted` |
| | `CancelsHitTheirOwn`, `EndpointsFit`, `NoServerStrays` | `CancelledOnlyIfAsked`, `EndpointFits`, `NoStrayServer` |
| | `TakesStale` (while one caller is at work), `ChatsTakeStale` (without the relay) | the action property `TakesOnlyStale` |
| | `QuietExit` (nothing under way at the exit) | `NothingOutlivesApp` |
| | `ChatsHoldTheSlot` | `ChatSlot!Spec`: the slot implements `KeyedMutex` |
| `LspSessionsProofs` | `NoServerLost`, `StartsAreSerial`, `GoneHasNoSession` | `NoStrayServer`, `StartsSerial`, `GoneStaysGone` |
| | `CapIsHeld` | `CapHeld` |
| | `LateReadersAreHarmless` | the action property `LateReaderHarmless` |
| | `StartsHoldALock` | `StartLock!Spec`: `START_LOCK` implements `KeyedMutex` |
| `ClaudeResumeProofs` | `QuitKeeps`, `UnopenedStay`, `ResumesAreSingle` (and `TypeCorrect`) | `QuitIsKept`, `UnopenedIsKept`, `ResumedOnce` |
| `CaptionDocProofs` | `CleanIsSaved`, `EditsAreNotStranded`, `UndoStaysWithin`, `JobsEnd` | `CleanMeansSaved`, `NoStrandedEdit`, `UndoWithinTranscription`, `JobHasAnEnd` |
| | `OverwritesAreAsked` | the action property `NoBlindOverwrite` |
| `ImageDocProofs` | `ChangesAreSaved` | `MarkedIsSaved` |
| | `WalksStayOnTheLine`, `LaterWritesAreKept` | the action properties `HistoryIsALine`, `LaterWritesKept` |
| | `UneditedIsKept` (while saves are informed and no foreign write falls between the steps of a call) | the action property `ClosingKeepsDocument` |
| `ReportJobsProofs` | `WindowsAreTold`, `BusyCardsAreInLine`, `BatchesAreSettled` | `WindowsCatchUp`, `InLine`, `BatchNotStuck` |

*FetchScheduler.* None of these is inductive alone. A permit can only be given back below the limit if the
permits are conserved, so types need `PermitsConserved`; `PermitsConserved` needs that a new cycle does not
overwrite a task that holds a permit, which is `TasksAwaited` (a cycle's slot is free only when its tasks
are done); and mutual exclusion needs that the lock set equals the live guards, which a task preserves only
if no other guard on the project is alive. `IndInv` is the conjunction of the four with
`OneOperationPerProject`; `Invariance` proves it in three steps: lemmas for types per kind of step, lemmas
that say how a permit and a lock are taken, kept and given back and that all other steps disturb nobody,
and `IndInvStep`, which combines them. `FetchLimit` then follows by counting: whoever fetches holds a permit.
`Throttled` uses a second invariant, `ClaimStamped` (the stamp is never older than the last claim:
a claim stamps in the same step, everything else makes the stamp younger), and `Skips` its own induction over the steps that write `sched`.
The refinement rests on `HolderOwns`: the mapped owner of a project is the only one whose guard is alive, so taking and dropping a guard
are `Acquire` and `Release`. `BackoffKept` carries the decision from the plan to the attempt (`Due`: a task that waits for its turn is
still due): ages only grow until the task begins, and the streak changes only when another task on the project ends, which
`OneTaskPerProject` excludes; that, and nothing else, is what overlapping cycles break. `Badges` needs to know of a project
that has not been added that nobody has heard of it (`Unborn`). `AllBadges` shows when its exception is empty (`NoneDropped`): where all projects
are there from the start none will be added (`Born`), and of a cycle between its reading of the projects and its stamp what it prunes
carries no error (`StampSees`). A project added after that reading and fetched by another cycle before the stamp loses its error silently, hence `NoLateProject`; see the findings.

*OpLock.* `LockInv` joins types, "the lock set is exactly the ids of the running commands" and "one
running command per id". The last two need each other: taking a free id is exclusive only if the lock set
misses no running command, and giving an id back leaves the set exact only if no second command runs with
it. `StageFacts` and `OtherSteps` say who starts and who stops; everything else, adding, moving and removing
projects included, disturbs neither. For the refinement, `HolderOwns` shows that the mapped owner of an id is
the one command running with it, so `BeginOp` maps to `Acquire`, `EndOp` to `Release` by the owner, and every
other step to a stutter. `Folders` needs types only.
Uniqueness per folder, what the lock is meant for, is not provable as it stands; that is the finding above. `OnePerFolder` proves
it on the finding's two conditions: `InPlace`, "a command works in the folder its id stands for", is kept if no project is moved
or removed under a command (`StaysPut`), and equal folders then mean equal ids by `FoldersDistinct` and `NestedApart`.

*LlmServer.* `Slot` says that a chat is at work exactly when the slot names it, which gives `OneChat`; `Counted`
that the count is the cardinality of the connections at work, kept through each change by one.
`CancelInv` says that whoever was aborted had asked for it; `FitInv` that a caller has a server which fits what it
wants from the moment it is started until it answers. `StrayInv` gives every
running server a holder, the registry, a starter or a thread that is to kill it, and the threads that kill take one at a time.
`TakesStale` shows that what a caller has found unusable stays unusable until it takes it: nobody else registers a server or lets one
become ready while it is alone, and everything the user and the threads do only makes a server less usable (`Tame`). With chats
alone, `Slot` makes them alone. For `QuietExit`, `ShutInv` says that nothing is registered once the exit has begun and nothing lives once
the kill is done, which only a registration or a start under way could undo. `ChatsHoldTheSlot` maps the owner to the one chat at work.

*LspSessions.* `IInv` joins types, `CallsOk` (a start under way has a key, and its server is its own only between spawn and
registration) and the invariants themselves: a server has one holder at a time, so what a start registers nobody else can have
taken out, and a reader whose server is not the registered one finds nothing to remove. `CapIsHeld` needs the order: `lru` is a strict
total order of the registered keys (`Ordered`), the victims are those that have at least `MAX_SESSIONS` keys after them, and the
number of keys after it tells the keys that stay apart, so these are mapped one to one into `0 .. MAX_SESSIONS - 1`. `StartsHoldALock` shows that at most one object moves through a start at a time and no other step touches it.

*ClaudeResume.* `IInv` adds what the three properties rest on: while the application is down everything volatile
is empty (`Down`); a Claude runs in an open shell, now and in what a snapshot read (`Shelled`); a record that nobody is about to take
or forget belongs to a terminal not opened, nor read as open by a snapshot (`Asked`); a record is waiting or taken, not both (`Single`);
file, pending and resumed name each session once, and what was resumed is not pending (`Once`); once frozen, the file holds what
the last snapshot wrote, and before, `written` is the file (`Kept`). `MergedFacts` states once what `merge_snapshot` returns:
it keeps what runs, keeps a session for one terminal only, and loses no candidate's session.

*CaptionDoc.* The file may be lost at any time, and versions are ordered by `After`: the file stays, is written or is lost (`NewDisk`), and a
new version was never there before (`BeforeStays`), which its revision alone would not give. The invariant is local to a window. `Win` is the conjunction of what relates its entry, its calls and the file
(`Shown`, `Revisions`, `Based`, `Clean`, `NotStranded`, `Undoable`, `JobEnds`), and a frame lemma (`WinFrame`) says that a
window whose own part does not change keeps `Win` when another one writes the file. So each action is proved for its own window only.

*ImageDoc.* `MarkedIsSaved` is inductive but for one thing, `FlightIsCall`: the record of the write under way has its three fields, so that
its stage can be set alone. `WalksStayOnTheLine` is about the code's loops: a jump undoes, or redoes, until the document is there.
Induction over the steps of a loop is out of reach (see below), but each history on the way is a place on one line (`At(t, p)`), one step goes to the
place next to it, and the least number of steps after which something fails would have one before it: the least-number principle,
which the library's well-founded induction gives without an operator parameter. `LaterWritesAreKept` follows another window's layer: `Informed` says
what a stamp that is still good tells of the file, `Sources` where a document with the layer can have come from, `Uniform` that all documents of a history
agree on it, since commits and walks neither add nor lose it. They hold as long as `overlap` does not: a document read, a test passed and a file stored are then still what the file
has when the next step of the call comes. `UneditedIsKept` is kept by `Untouched`: in an editor in which nothing was done the document is the one that was
read, and whoever holds the stamp of the present file has read it. It uses `~overlap` and each of the three conjuncts of `InformedSaves`, and TLC refutes it without any one of the four.

*ReportJobs.* `Noticed` says of a step that it leaves the timer set, or changes nothing that the windows draw; `TellingKeeps` that
what is told to every window is the state there is, so the timer may be cleared. `Line` is the invariant of the queue: types, that a job at work has a chain to head, `InLine` and `BatchNotStuck`. Queues and counts make its proof:
enqueuing keeps the places distinct because only cards that are not busy are added (`Picked`, `AddedIs`), and taking the head of a queue
without repetitions frees exactly its card.

*Only model-checked.* Every safety and action property of the passing runs is now a theorem, some under the conditions the table names. Liveness (`TasksEnd`,
`RemoteRechecked`, `OffDrains`, `ZombiesPruned`, `SlotFreed`, `IdleReaped`, `EveryJobEnds`) is out of the prover's reach, like everything that rests on
fairness and ENABLED, and stays with TLC. So are theorems that take an operator as a parameter, natural induction among them; where a loop had to be reasoned about
(`ImageDoc`), the least-number principle does instead. Conversely
`FetchCap`, `PermitsConserved`, `SkipsBounded`, `OneOperationPerKey`, `RefusedForCause` and the types are proved and have no run any more, and the two
refinements by `LlmServer` and `LspSessions` have none either.

## Abstractions

Faithful to the control, coarse on the data; these choices matter when reading the results.

* **Scheduler.** A project's folder does not appear (it does in `OpLock`). The setting is read in the same
  step as the claim. Trying the lock, recording the attempt and reading the cached remote are one step of
  `BeginFetch`, applying an outcome and emitting its event one of `ApplyOutcome`: the code does them back to
  back and nothing between them waits. The backoff property is checked with one cycle at a time: a cycle that
  planned a project before another cycle's failure attempts it although the backoff has grown meanwhile,
  which no line of the code forbids (a hazard with its own entry). The badge's instance starts with no
  project and adds one, so that a project appears with a cycle about; with one project no error is ever forgotten, several are the
  theorems' business. A full cycle's three lock sections after its snapshot (stamp, freshness, attempt records, `fetch_scheduler.rs:179-190`)
  are one step: a task that ends between them can write one of the two records of a removed project, which the next full cycle prunes.
* **Operation lock.** Which paths have a folder does not change. Git itself is not modelled; a command runs and ends. A command that is refused changes
  nothing but its answer, which is what `RefusedForCause` relates to the lock set at that moment.
* **AI server.** The idle timer is a Boolean (younger or older than `IDLE_TIMEOUT`). A chat in its request
  cannot leave the server idle that long, because `REQUEST_TIMEOUT` is no longer than `IDLE_TIMEOUT`; so
  `GrowIdle` excludes it. Reading the settings and testing for reuse are one step. So are raising
  the connection count, testing it and lowering it on a refusal (`relay.rs:82`): only the accepting thread reads it. Which model a chat asks
  for is free, since the report may have a model of its own.
* **Language servers.** Documents are abstracted to one fact, whether the client may dispose itself for
  idleness. The project's folder is looked up together with the registry. A second `initialize` of a server
  that already had one may succeed or fail. `lsp_send` looks up and touches in one step. Events and calls are
  delivered in any order but not lost, as Tauri's channels do; a page reload forgets the client objects. The times of last use appear as the order they give.
* **Claude resume.** Shells and sessions of a reading are one step (the code reads them one after the other). What
  the user and the front end do between the last reading and the kill is left out: the file no longer sees it. Claudes in other consoles, and
  registry files that cannot be read at the moment, are choices in each reading. Records too old, or a file that cannot be read, are a choice at each start. A resumed line may have no effect.
* **Captions.** The loss of the file comes from outside. A damaged file is a lost one for which every load and save happens to fail; a save by others over a lost file counts as a
  transcription. A document is the transcription it descends from and the set of edits in it. `saveQueued`, which the code writes and never reads, is left out, as is
  the second reading after the event of a job that fails. A window whose load answers late can be refused over its own save; the model has it.
* **Image editor.** A document is a set of layers. The other window's calls are single steps, after any of which the file has its layer and whatever of the file's it had read; that it deletes the sidecar is
  left out. A timer that a closing editor has left (`onHide`, `persist.ts:256`) fires at any later time, that of a window that goes clean at once. Edits between the click on close and the end of its save, snapshots and live replacement while a
  handle is dragged are left out. The state may say "clean" after a save although a timer is pending, a flush that joins a save returns before the "again" write
  (`persist.ts:54`), deletion does not wait for a save, and a late load replaces what was drawn: all as in the code. Of two windows without a sidecar the first
  save is not tested, which is why `LaterWritesKept` begins with the first stamp.
* **Report jobs.** The slot in others' hands is the free choice of `Refuse`. Tokens and progress are left out, and a window's listener is taken to be registered before
  the answer to its request for the state. A cancelled job in line keeps its place until its turn. A batch is of the reports in view, each once (`ScopedAssumption`).

## What is not modelled

The checked code is a small share of the repository, and must stay so: most of its lines are React components, style
and layout (`ImageEditor.tsx`, `VideoPlayer.tsx`, `PdfView.tsx` and the like hold drawing and input handling around the few functions modelled here),
typed wrappers of commands (`ipc.ts`), messages in two languages, parsers of git's output, conversion of
encodings, media containers and image codecs, and one-call wrappers of operating-system services: pure functions or I/O where
interleavings play no part, or wording, which a model would only repeat. The map names the lines a definition stands for and no more.

Parts with a protocol of their own that no module covers: floating windows and their pool, replacement and re-attachment of
terminals, the data store's quarantine and migration, the file watcher, HLS segments and the media queue. What lies outside the
repository (git, llama-server, the language servers, Claude Code, tokio, Tauri, the operating system) appears through the
outcomes the code handles: success, failure, time-out, a process that dies at any moment.

## Plan

The eight modules above are done, each with its runs and proofs. A further module would be, in this order:

1. **`HlsSegments`** – slots, waiters, prefetch limit and eviction: each segment baked once, an answer names a file that exists.
2. **`TerminalSessions`** – what `ClaudeResume` leaves out: replacement under one id, attach and back-pressure, floating windows with redocking.
3. **`Store`** – memory, file, quarantine and migration, against an abstract specification "the file is a value that memory once had".
4. **`Watcher`** – background registration against removal and move, and the ignore cache.

Theorems to come, for the findings that have none yet: on which condition the last snapshot of `ClaudeResume` loses no session,
and on which an edit survives an automatic reload in `CaptionDoc`. Few, deep runs are worth more than many: a new module takes the
place of runs whose properties a theorem has settled for every size.

## How to run

In this directory, `tlc -workers 2 -config <run>.cfg <module>` checks a run (the module and the
configuration of each are in `PROJECT.json` under `runs`; the slowest takes about three minutes) and
`tlapm <module>Proofs.tla` checks the proofs about a module.

----------------------------- MODULE CaptionDoc -----------------------------
(***************************************************************************)
(* The caption document of one video, edited in several windows            *)
(* (stores/captionDoc.ts) and kept in one file by the back end             *)
(* (stt/store.rs).                                                         *)
(*                                                                         *)
(* A window keeps the document it shows, the revision its next save builds *)
(* on, an undo stack, and at most one save on its way.  The file's         *)
(* revision grows with every write, and a save that names another one is   *)
(* refused.  When the file is missing or damaged the revision starts at 1  *)
(* again, so equal revisions need not be of the same file.                 *)
(* Every write is announced to all windows, its author included.           *)
(* Reloads, saves, transcriptions and imports are calls whose answers come *)
(* back later, in any order; every handler runs to its next await.         *)
(***************************************************************************)
EXTENDS Naturals, Sequences, FiniteSets

CONSTANTS
    Windows,
    Edits,     \* what can be typed or generated, each of them once
    UndoLimit, \* UNDO_LIMIT
    MaxRev,    \* bound: the writes of the file
    MaxLost,   \* bound: the writes until the file is lost the last time
    MaxLoads,  \* bound: loads a window's buttons have on their way
    Calls,     \* bound: of "transcribe", "import" and "export", what users do
    AiJobs,    \* bound: of "translate" and "summarize", what users start
    Nobody     \* a tool, a window not in Windows; its edits

ASSUME BoundsAssumption == /\ UndoLimit \in Nat \ {0} /\ MaxRev \in Nat /\ MaxLost \in Nat
                           /\ MaxLoads \in Nat
ASSUME NobodyAssumption == Nobody \notin Windows \cup Edits

VARIABLES
    disk,   \* the file: its version, the transcription it descends from, edits;
            \* by is a history field: who wrote it
    entry,  \* CaptionEntry of each window
    timer,  \* the debounce timer of the auto save is running
    flight, \* the captionDocSave call of each window
    loads,  \* the captionDocLoad calls of each window
    calls,  \* what waits for flush: "transcribe", "import", "export"
    tool,   \* each window's transcription and import in the back end
    events, \* caption://changed events on their way to each window
    used    \* edits made so far

vars == <<disk, entry, timer, flight, loads, calls, tool, events, used>>

\* The code knows a version by its rev alone, which is 0 without a file that
\* can be read.  life is history: the writes up to when the file was last lost.
NoVersion == [life |-> 0, rev |-> 0]

NoDoc == [gen |-> NoVersion, ed |-> {}]

\* What a reader of the file d finds: no document where there is no file.
Content(d) == IF d.at.rev = 0 THEN NoDoc ELSE [gen |-> d.gen, ed |-> d.ed]
Read(d) == [at |-> d.at, doc |-> Content(d)]

\* root is a history field: the version the shown document descends from, or
\* was chosen by the user to replace.
Blank == [doc |-> NoDoc, base |-> NoVersion, dirty |-> FALSE, saving |-> FALSE,
          saveErr |-> FALSE, loadErr |-> FALSE, conflict |-> FALSE,
          past |-> <<>>, future |-> <<>>, job |-> FALSE, ai |-> {},
          root |-> NoVersion]

NoFlight == [pc |-> "none", doc |-> NoDoc, base |-> NoVersion, root |-> NoVersion,
             same |-> FALSE]
Tools == {"transcribe", "import"}
Unread == [at |-> NoVersion, doc |-> NoDoc]
NoTool == [pc |-> "none", got |-> Unread]

Patch(w, e) == entry' = [entry EXCEPT ![w] = e]

\* Mutation: the undo stack survives the reload.
LoadedOverStack(e, r) == [e EXCEPT !.doc = r.doc, !.base = r.at, !.root = r.at,
                                   !.dirty = FALSE, !.saveErr = FALSE, !.loadErr = FALSE,
                                   !.conflict = FALSE]

\* applyLoaded: local edits and the undo stack are dropped.
Loaded(e, r) == [e EXCEPT !.doc = r.doc, !.base = r.at, !.root = r.at,
                          !.dirty = FALSE, !.saveErr = FALSE, !.loadErr = FALSE,
                          !.conflict = FALSE, !.past = <<>>, !.future = <<>>]

\* A loaded document is never the object a save on its way has sent.
Forget(w) == flight' = [flight EXCEPT ![w].same = FALSE]

\* save: its tests, and the call it makes.
Savable(e) == e.doc # NoDoc /\ e.dirty /\ ~e.conflict
SendsSave(e) == Savable(e) /\ ~e.saving
SaveOf(e) == [pc |-> "asked", doc |-> e.doc, base |-> e.base, root |-> e.root, same |-> TRUE]

\* The window's entry becomes e, and save(key) is called.
PatchAndSave(w, e) ==
    IF SendsSave(e)
    THEN Patch(w, [e EXCEPT !.saving = TRUE]) /\ flight' = [flight EXCEPT ![w] = SaveOf(e)]
    ELSE Patch(w, e) /\ UNCHANGED flight

-----------------------------------------------------------------------------
(* Editing. *)

\* The stack of undo forgets its oldest document beyond the limit.
Pushed(past, d) ==
    IF Len(past) = UndoLimit THEN Append(Tail(past), d) ELSE Append(past, d)

\* edit: refused without a document and while a transcription runs.
Editable(w) == entry[w].doc # NoDoc /\ ~entry[w].job

Edit(w, x) ==
    /\ Patch(w, [entry[w] EXCEPT !.doc.ed = @ \cup {x}, !.past = Pushed(@, entry[w].doc),
                                 !.future = <<>>, !.dirty = TRUE, !.saveErr = FALSE])
    /\ timer' = [timer EXCEPT ![w] = TRUE]
    /\ used' = used \cup {x}
    /\ UNCHANGED <<disk, flight, loads, calls, tool, events>>

UserEdit(w, x) == Editable(w) /\ x \notin used /\ Edit(w, x)

Undo(w) ==
    LET e == entry[w] IN
    /\ Editable(w) /\ e.past # <<>>
    /\ Patch(w, [e EXCEPT !.doc = e.past[Len(e.past)],
                          !.past = SubSeq(@, 1, Len(@) - 1),
                          !.future = Append(@, e.doc), !.dirty = TRUE])
    /\ timer' = [timer EXCEPT ![w] = TRUE]
    /\ UNCHANGED <<disk, flight, loads, calls, tool, events, used>>

Redo(w) ==
    LET e == entry[w] IN
    /\ Editable(w) /\ e.future # <<>>
    /\ Patch(w, [e EXCEPT !.doc = e.future[Len(e.future)],
                          !.future = SubSeq(@, 1, Len(@) - 1),
                          !.past = Append(@, e.doc), !.dirty = TRUE])
    /\ timer' = [timer EXCEPT ![w] = TRUE]
    /\ UNCHANGED <<disk, flight, loads, calls, tool, events, used>>

-----------------------------------------------------------------------------
(* Saving. *)

\* The debounce timer calls save.
TimerFires(w) ==
    /\ timer[w] /\ timer' = [timer EXCEPT ![w] = FALSE]
    /\ PatchAndSave(w, entry[w])
    /\ UNCHANGED <<disk, loads, calls, tool, events, used>>

\* The version of the next write: rev counts on from the file's, which is 0
\* when the file is missing or damaged.
NextAt == [disk.at EXCEPT !.rev = @ + 1]

Written(gen, ed, by) == [at |-> NextAt, gen |-> gen, ed |-> ed, by |-> by]

\* Every write is announced to every window.
Write(d) ==
    /\ disk.at.life + disk.at.rev < MaxRev
    /\ disk' = d
    /\ events' = [v \in Windows |-> events[v] \cup {d.at}]

\* write_transcribed: a new transcription replaces the file, whatever its
\* revision; the edits of the old one are gone (they stay in the .bak).
Transcribed == Written(NextAt, {}, Nobody)

\* Mutation: only older revisions are refused.
RevNotOlder(w) == flight[w].base.rev >= disk.at.rev \/ flight[w].base.rev + 1 = disk.at.rev

\* save_at: a save on another revision than the file's is refused.
RevMatches(w) == flight[w].base.rev = disk.at.rev

\* The answer's revision becomes the window's.
SaveAt(w) ==
    /\ flight[w].pc = "asked" /\ RevMatches(w)
    /\ Write(Written(flight[w].doc.gen, flight[w].doc.ed, w))
    /\ flight' = [flight EXCEPT ![w].pc = "saved", ![w].base = NextAt, ![w].root = NextAt]
    /\ UNCHANGED <<entry, timer, loads, calls, tool, used>>

SaveRefused(w) ==
    /\ flight[w].pc = "asked" /\ ~RevMatches(w)
    /\ flight' = [flight EXCEPT ![w] = [NoFlight EXCEPT !.pc = "conflict"]]
    /\ UNCHANGED <<disk, entry, timer, loads, calls, tool, events, used>>

SaveFails(w) ==
    /\ flight[w].pc = "asked"
    /\ flight' = [flight EXCEPT ![w] = [NoFlight EXCEPT !.pc = "failed"]]
    /\ UNCHANGED <<disk, entry, timer, loads, calls, tool, events, used>>

\* Mutation: the answer makes the window clean whatever was typed meanwhile.
StillDirtyNever(w) == FALSE

\* The answer arrives: what was not sent is still dirty.
StillDirty(w) == ~(flight[w].same /\ entry[w].doc = flight[w].doc)

Answered(w) ==
    LET e == [entry[w] EXCEPT !.saving = FALSE] IN
    CASE flight[w].pc = "saved" ->
           [e EXCEPT !.base = flight[w].base, !.saveErr = FALSE, !.dirty = StillDirty(w),
                     !.root = IF flight[w].same THEN flight[w].root ELSE @]
      [] flight[w].pc = "conflict" -> [e EXCEPT !.conflict = TRUE]
      [] OTHER -> [e EXCEPT !.saveErr = TRUE]

\* Mutation: what was typed during the save waits for the next edit.
SaveReturnsOnce(w) ==
    /\ flight[w].pc \in {"saved", "conflict", "failed"}
    /\ Patch(w, Answered(w)) /\ flight' = [flight EXCEPT ![w] = NoFlight]
    /\ UNCHANGED <<disk, timer, loads, calls, tool, events, used>>

\* save after its await; without an error what is still dirty is sent at once.
SaveReturns(w) ==
    LET e == Answered(w) IN
    /\ flight[w].pc \in {"saved", "conflict", "failed"}
    /\ IF e.saveErr \/ ~SendsSave(e)
       THEN Patch(w, e) /\ flight' = [flight EXCEPT ![w] = NoFlight]
       ELSE Patch(w, [e EXCEPT !.saving = TRUE]) /\ flight' = [flight EXCEPT ![w] = SaveOf(e)]
    /\ UNCHANGED <<disk, timer, loads, calls, tool, events, used>>

\* A window that is not in Windows saves or transcribes: windows share only
\* the file and its announcements.  What it saves over a lost file is as
\* new to this window as a transcription.
OthersWrite ==
    /\ \/ disk.at.rev > 0 /\ Write(Written(disk.gen, disk.ed \cup {Nobody}, Nobody))
       \/ Write(Transcribed)
    /\ UNCHANGED <<entry, timer, flight, loads, calls, tool, used>>

\* The file is deleted or damaged from outside; nobody is told.
FileLost ==
    /\ disk.at.rev > 0 /\ disk.at.life + disk.at.rev <= MaxLost
    /\ disk' = [at |-> [life |-> disk.at.life + disk.at.rev, rev |-> 0],
                gen |-> NoVersion, ed |-> {}, by |-> Nobody]
    /\ UNCHANGED <<entry, timer, flight, loads, calls, tool, events, used>>

-----------------------------------------------------------------------------
(* Loading, and what other windows did. *)

\* reload: the pending auto save is cancelled and the file is asked for.
StartLoad(w, why) ==
    /\ loads' = [loads EXCEPT ![w] = @ \cup {[why |-> why, pc |-> "asked", got |-> Unread]}]
    /\ timer' = [timer EXCEPT ![w] = (why = "overwrite") /\ @]

\* load_at: a missing file is no document, a damaged one an error.  The damaged
\* file is a lost one here, whose loads and saves all happen to fail.
LoadAt(w, l) ==
    /\ l.pc = "asked"
    /\ loads' = [loads EXCEPT ![w] = (@ \ {l}) \cup {[l EXCEPT !.pc = "read", !.got = Read(disk)]}]
    /\ UNCHANGED <<disk, entry, timer, flight, calls, tool, events, used>>

LoadFails(w, l) ==
    /\ l.pc = "asked"
    /\ loads' = [loads EXCEPT ![w] = (@ \ {l}) \cup {[l EXCEPT !.pc = "failed"]}]
    /\ UNCHANGED <<disk, entry, timer, flight, calls, tool, events, used>>

\* Mutation: the transcription does not end when the file cannot be read.
ReloadReturnsOnSuccess(w, l) ==
    LET e == [entry[w] EXCEPT !.job = (l.why # "settle" \/ l.pc = "failed") /\ @] IN
    /\ l.pc # "asked" /\ l.why # "overwrite"
    /\ loads' = [loads EXCEPT ![w] = @ \ {l}]
    /\ IF l.pc = "read" THEN Patch(w, Loaded(e, l.got)) /\ Forget(w)
                        ELSE Patch(w, [e EXCEPT !.loadErr = TRUE]) /\ UNCHANGED flight
    /\ UNCHANGED <<disk, timer, calls, tool, events, used>>

\* reload after its await; a transcription that waited for it ends.
ReloadReturns(w, l) ==
    LET e == [entry[w] EXCEPT !.job = (l.why # "settle") /\ @] IN
    /\ l.pc # "asked" /\ l.why # "overwrite"
    /\ loads' = [loads EXCEPT ![w] = @ \ {l}]
    /\ IF l.pc = "read" THEN Patch(w, Loaded(e, l.got)) /\ Forget(w)
                        ELSE Patch(w, [e EXCEPT !.loadErr = TRUE]) /\ UNCHANGED flight
    /\ UNCHANGED <<disk, timer, calls, tool, events, used>>

\* overwriteConflict after its await: the file's revision becomes the base.
OverwriteReturns(w, l) ==
    /\ l.pc # "asked" /\ l.why = "overwrite"
    /\ loads' = [loads EXCEPT ![w] = @ \ {l}]
    /\ IF l.pc = "read"
       THEN PatchAndSave(w, [entry[w] EXCEPT !.base = l.got.at, !.root = l.got.at, !.dirty = TRUE,
                                             !.conflict = FALSE, !.saveErr = FALSE])
       ELSE Patch(w, [entry[w] EXCEPT !.saveErr = TRUE]) /\ UNCHANGED flight
    /\ UNCHANGED <<disk, timer, calls, tool, events, used>>

\* The buttons of the banners.
ClickReload(w) ==
    /\ entry[w].conflict \/ entry[w].loadErr
    /\ Cardinality(loads[w]) < MaxLoads
    /\ StartLoad(w, "reload")
    /\ UNCHANGED <<disk, entry, flight, calls, tool, events, used>>

ClickOverwrite(w) ==
    /\ entry[w].conflict /\ entry[w].doc # NoDoc
    /\ Cardinality(loads[w]) < MaxLoads
    /\ StartLoad(w, "overwrite")
    /\ UNCHANGED <<disk, entry, flight, calls, tool, events, used>>

\* attachChanged: an event that is ours, or expected, is ignored.
OwnEvent(w, v) ==
    LET e == entry[w] IN
    v.rev = e.base.rev \/ (e.saving /\ v.rev = e.base.rev + 1) \/ e.job

Changed(w, v) ==
    /\ v \in events[w]
    /\ events' = [events EXCEPT ![w] = @ \ {v}]
    /\ \/ OwnEvent(w, v) /\ UNCHANGED <<entry, timer, loads>>
       \/ /\ ~OwnEvent(w, v) /\ entry[w].dirty
          /\ Patch(w, [entry[w] EXCEPT !.conflict = TRUE]) /\ UNCHANGED <<timer, loads>>
       \/ /\ ~OwnEvent(w, v) /\ ~entry[w].dirty
          /\ StartLoad(w, "changed") /\ UNCHANGED entry
    /\ UNCHANGED <<disk, flight, calls, tool, used>>

-----------------------------------------------------------------------------
(* Calls that first flush: transcribe, importSubs and the exports. *)

MayCall(w, c) ==
    /\ c \notin calls[w]
    /\ c \in Tools => ~entry[w].job /\ "translate" \notin entry[w].ai

FlushCalled(w, c) ==
    /\ MayCall(w, c)
    /\ calls' = [calls EXCEPT ![w] = @ \cup {c}]
    /\ timer' = [timer EXCEPT ![w] = FALSE]
    /\ Patch(w, [entry[w] EXCEPT !.saveErr = FALSE])
    /\ UNCHANGED <<disk, flight, loads, tool, events, used>>

\* The loop of flush: it saves, or waits for the save on its way.
FlushSaves(w) ==
    /\ calls[w] # {} /\ SendsSave(entry[w]) /\ ~entry[w].saveErr
    /\ PatchAndSave(w, entry[w])
    /\ UNCHANGED <<disk, timer, loads, calls, tool, events, used>>

FlushOk(e) == e.doc # NoDoc /\ ~e.dirty /\ ~e.saving

FlushGivesUp(e) == e.doc = NoDoc \/ ((e.dirty \/ e.saving) /\ (e.conflict \/ e.saveErr))

\* What the caller does next.  A transcription starts whatever flush said.
FlushReturns(w, c) ==
    /\ c \in calls[w] /\ (c \in Tools => tool[w][c].pc = "none")
    /\ (FlushOk(entry[w]) \/ FlushGivesUp(entry[w]))
    /\ calls' = [calls EXCEPT ![w] = @ \ {c}]
    /\ IF c \in Tools /\ ~(c = "transcribe" /\ entry[w].job)
       THEN /\ Patch(w, [entry[w] EXCEPT !.job = @ \/ c = "transcribe"])
            /\ tool' = [tool EXCEPT ![w][c].pc = "running"]
       ELSE UNCHANGED <<entry, tool>>
    /\ UNCHANGED <<disk, timer, flight, loads, events, used>>

\* The transcription or the import is written (write_transcribed).
ToolWrites(w, c) ==
    /\ tool[w][c].pc = "running"
    /\ Write(Transcribed)
    /\ tool' = [tool EXCEPT ![w][c] = [pc |-> "wrote", got |-> Read(Transcribed)]]
    /\ UNCHANGED <<entry, timer, flight, loads, calls, used>>

ToolFails(w, c) ==
    /\ tool[w][c].pc = "running"
    /\ tool' = [tool EXCEPT ![w][c].pc = "failed"]
    /\ UNCHANGED <<disk, entry, timer, flight, loads, calls, events, used>>

\* settle by the answer of the call, or the end of importSubs.
SettleByAnswer(w, c) ==
    LET e == [entry[w] EXCEPT !.job = c # "transcribe" /\ @] IN
    /\ tool[w][c].pc \in {"wrote", "failed"}
    /\ tool' = [tool EXCEPT ![w][c] = NoTool]
    /\ IF tool[w][c].pc = "wrote" THEN Patch(w, Loaded(e, tool[w][c].got)) /\ Forget(w)
                                  ELSE Patch(w, e) /\ UNCHANGED flight
    /\ UNCHANGED <<disk, timer, loads, calls, events, used>>

\* settle by stt://finished, the answer being late or lost: the file is read.
SettleByEvent(w) ==
    /\ tool[w]["transcribe"].pc = "wrote"
    /\ tool' = [tool EXCEPT ![w]["transcribe"] = NoTool]
    /\ StartLoad(w, "settle")
    /\ UNCHANGED <<disk, entry, flight, calls, events, used>>

-----------------------------------------------------------------------------
(* translate and summarize: both write through edit. *)

StartAi(w, k) ==
    /\ Editable(w) /\ k \notin entry[w].ai
    /\ Patch(w, [entry[w] EXCEPT !.ai = @ \cup {k}])
    /\ UNCHANGED <<disk, timer, flight, loads, calls, tool, events, used>>

\* A batch of translations, or the summary, becomes an edit.
AiWrites(w, x) == entry[w].ai # {} /\ Editable(w) /\ x \notin used /\ Edit(w, x)

\* Finished, cancelled, or refused because edit is.
EndAi(w, k) ==
    /\ k \in entry[w].ai
    /\ Patch(w, [entry[w] EXCEPT !.ai = @ \ {k}])
    /\ UNCHANGED <<disk, timer, flight, loads, calls, tool, events, used>>

-----------------------------------------------------------------------------
Init ==
    /\ LET first == [life |-> 0, rev |-> 1] IN
       disk = [at |-> first, gen |-> first, ed |-> {}, by |-> Nobody]
    /\ entry = [w \in Windows |-> Blank]
    /\ timer = [w \in Windows |-> FALSE]
    /\ flight = [w \in Windows |-> NoFlight]
    /\ loads = [w \in Windows |-> {[why |-> "reload", pc |-> "asked", got |-> Unread]}]
    /\ calls = [w \in Windows |-> {}]
    /\ tool = [w \in Windows |-> [c \in Tools |-> NoTool]]
    /\ events = [w \in Windows |-> {}]
    /\ used = {}

UserStep(w) ==
    \/ \E x \in Edits : UserEdit(w, x) \/ AiWrites(w, x)
    \/ Undo(w) \/ Redo(w) \/ ClickReload(w) \/ ClickOverwrite(w)
    \/ \E c \in Calls : FlushCalled(w, c)
    \/ \E k \in AiJobs : StartAi(w, k) \/ EndAi(w, k)

WindowStep(w) ==
    \/ TimerFires(w) \/ SaveReturns(w) \/ FlushSaves(w)
    \/ \E l \in loads[w] : ReloadReturns(w, l) \/ OverwriteReturns(w, l)
    \/ \E v \in events[w] : Changed(w, v)
    \/ \E c \in calls[w] : FlushReturns(w, c)
    \/ SettleByEvent(w)
    \/ \E c \in Tools : SettleByAnswer(w, c)

BackendStep(w) ==
    \/ SaveAt(w) \/ SaveRefused(w) \/ SaveFails(w)
    \/ \E l \in loads[w] : LoadAt(w, l) \/ LoadFails(w, l)
    \/ \E c \in Tools : ToolWrites(w, c) \/ ToolFails(w, c)

Next ==
    \/ \E w \in Windows : UserStep(w) \/ WindowStep(w) \/ BackendStep(w)
    \/ OthersWrite \/ FileLost

Spec == Init /\ [][Next]_vars

-----------------------------------------------------------------------------
\* An automatic save never replaces a version that another window or a tool
\* wrote and this window has neither shown nor been told to overwrite: its
\* revision tells it from the others (save_at), as long as the file has not
\* been lost since the window learned the revision.
NoBlindOverwrite ==
    [][\A w \in Windows :
         SaveAt(w) /\ flight[w].base.life = disk.at.life
         => disk.by = w \/ flight[w].root = disk.at]_vars

\* When flush says that everything is saved, an export of the file exports
\* what the window shows, if the window's version is the file's: the same
\* revision, and the file not lost in between.
CleanMeansSaved ==
    \A w \in Windows : FlushOk(entry[w]) /\ entry[w].base = disk.at
                       => entry[w].doc = Content(disk)

\* No edit is stranded: a document that is dirty has a timer, a save, a flush or a load
\* that deals with it, or a banner that asks the user.
NoStrandedEdit ==
    \A w \in Windows :
        LET e == entry[w] IN
        e.doc # NoDoc /\ e.dirty /\ ~e.conflict /\ ~e.saveErr /\ ~e.loadErr
        => timer[w] \/ (e.saving /\ flight[w].pc # "none") \/ calls[w] # {} \/ loads[w] # {}

\* Undo never brings back a document of an earlier transcription: its lines
\* are not those of the document on the disk.
UndoWithinTranscription ==
    \A w \in Windows :
        LET e == entry[w] IN
        /\ \A i \in DOMAIN e.past : e.past[i].gen = e.doc.gen
        /\ \A i \in DOMAIN e.future : e.future[i].gen = e.doc.gen

\* A job that blocks editing is still run by the back end, or waits for the
\* file to be read again: its lock on the panel ends.
JobHasAnEnd ==
    \A w \in Windows :
        entry[w].job => \/ tool[w]["transcribe"].pc # "none"
                       \/ \E l \in loads[w] : l.why = "settle"

=============================================================================

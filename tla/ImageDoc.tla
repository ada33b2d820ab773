------------------------------ MODULE ImageDoc ------------------------------
(***************************************************************************)
(* The edit document of one image: the history of an editor                *)
(* (lib/annotate/history.ts), its automatic saving to a sidecar file       *)
(* (lib/annotate/persist.ts), the editor's ways to change, close and       *)
(* flatten it (components/image/ImageEditor.tsx), and the back end's       *)
(* writes (commands/image_doc.rs).                                         *)
(*                                                                         *)
(* Saves are single-flight: a save asked for during another one sets a     *)
(* flag, and one more follows.  A write names the stamp of the file it has *)
(* read and is refused if the file has another one; the back end tests the *)
(* stamp, stores the file and reads the new stamp without a lock around    *)
(* the three, and reads a document and its stamp one after the other.  The *)
(* editor decides on the state React has last rendered, which may lag      *)
(* behind the one set.                                                     *)
(***************************************************************************)
EXTENDS Naturals, Sequences, SequencesExt

CONSTANTS
    Layers,       \* what can be drawn and deleted again
    HistoryLimit, \* HISTORY_LIMIT
    Others        \* a layer another window has drawn

ASSUME BoundsAssumption == HistoryLimit \in Nat \ {0}
ASSUME OthersAssumption == Others \notin Layers

VARIABLES
    file,    \* the sidecar: whether it is there, and its document
    hist,    \* DocHistory: past, present, future
    edited,  \* history: something was drawn or deleted
    st,      \* PersistState
    shown,   \* the PersistState last rendered
    timer,   \* the debounce timer is running
    flight,  \* the imageDocWrite call on its way
    again,   \* againRef
    stamp,   \* stampRef: NULL, or a stamp of the file as it is (FRESH) or was (STALE)
    opening, \* the load of the editor, and what it has read
    win,     \* the editor: "open", "busy" (flattening), "joined" and "flushing"
             \* (closing, waiting for a save), "asking", "closed"
    delete,  \* the imageDocDelete call after flattening
    owed,    \* history: markDirty was called since a save took the document
    overlap  \* history: another window's write fell between the steps of a call

vars == <<file, hist, edited, st, shown, timer, flight, again, stamp,
          opening, win, delete, owed, overlap>>

store == <<file, delete, overlap>>
saving == <<st, flight, again, stamp>>

NULL == "null"
FRESH == "fresh"
STALE == "stale"

NoFlight == [pc |-> "none", doc |-> {}, want |-> NULL]
NothingRead(pc) == [pc |-> pc, doc |-> {}, stamp |-> NULL]
Live == win \in {"open", "busy", "joined", "flushing", "asking"}

-----------------------------------------------------------------------------
(* DocHistory. *)

Kept(s) == SubSeq(s, IF Len(s) > HistoryLimit THEN Len(s) - HistoryLimit + 1 ELSE 1, Len(s))

\* entries: the list of the history panel, newest first -- but what was undone
\* stands in the order of its stack.
Entries(h) == Reverse(h.past \o <<h.cur>> \o h.future)
Cursor(h) == Len(h.future)

\* The documents in the order they were made.
Timeline(h) == h.past \o <<h.cur>> \o Reverse(h.future)

Committed(h, d) == [past |-> Kept(Append(h.past, h.cur)), cur |-> d, future |-> <<>>]
Undone(h) == [past |-> Front(h.past), cur |-> Last(h.past), future |-> Append(h.future, h.cur)]

\* Mutation: the document left behind is not kept for undo.
RedoneOver(h) == [past |-> h.past, cur |-> Last(h.future), future |-> Front(h.future)]

Redone(h) == [past |-> Append(h.past, h.cur), cur |-> Last(h.future), future |-> Front(h.future)]

\* jumpTo: as many undos or redos as lie between the current entry and entry i.
Jumped(h, i) ==
    LET undone[n \in 0 .. Len(h.past)] == IF n = 0 THEN h ELSE Undone(undone[n - 1])
        redone[n \in 0 .. Len(h.future)] == IF n = 0 THEN h ELSE Redone(redone[n - 1])
    IN IF i > Cursor(h) + 1 THEN undone[i - Cursor(h) - 1] ELSE redone[Cursor(h) + 1 - i]

-----------------------------------------------------------------------------
(* Editing. *)

\* The timer is set, or set anew; a running save keeps its state.
MarkDirty ==
    /\ timer' = TRUE /\ owed' = TRUE
    /\ st' = IF st = "saving" THEN st ELSE "dirty"

\* applyDoc with mode "commit": a layer is drawn or deleted.
Commit(x) ==
    /\ win = "open" /\ edited' = TRUE
    /\ hist' = Committed(hist, IF x \in hist.cur THEN hist.cur \ {x} ELSE hist.cur \cup {x})
    /\ MarkDirty
    /\ UNCHANGED <<store, shown, flight, again, stamp, opening, win>>

JumpTo(i) ==
    /\ win = "open" /\ i \in 1 .. Len(Entries(hist))
    /\ hist' = Jumped(hist, i)
    /\ MarkDirty
    /\ UNCHANGED <<store, edited, shown, flight, again, stamp, opening, win>>

Undo ==
    /\ win = "open" /\ hist.past # <<>>
    /\ hist' = Undone(hist)
    /\ UNCHANGED <<store, edited, shown, timer, saving, opening, win, owed>>

Redo ==
    /\ win = "open" /\ hist.future # <<>>
    /\ hist' = Redone(hist)
    /\ UNCHANGED <<store, edited, shown, timer, saving, opening, win, owed>>

Render == shown # st /\ shown' = st
          /\ UNCHANGED <<store, hist, edited, timer, saving, opening, win, owed>>

-----------------------------------------------------------------------------
(* Saving. *)

\* Mutation: a save asked for during another one is forgotten.
RunSaveOnce ==
    IF flight.pc # "none" THEN UNCHANGED <<st, flight, again, owed>>
    ELSE /\ flight' = [pc |-> "asked", doc |-> hist.cur, want |-> stamp]
         /\ st' = "saving" /\ owed' = FALSE
         /\ UNCHANGED again

\* runSave: the document is taken now, or the flag asks for one more save.
RunSave ==
    IF flight.pc # "none" THEN again' = TRUE /\ UNCHANGED <<st, flight, owed>>
    ELSE /\ flight' = [pc |-> "asked", doc |-> hist.cur, want |-> stamp]
         /\ st' = "saving" /\ owed' = FALSE
         /\ UNCHANGED again

\* The timer calls save, or the editor goes before it has (onHide).
TimerFires ==
    /\ timer /\ timer' = FALSE
    /\ RunSave
    /\ UNCHANGED <<store, hist, edited, shown, stamp, opening, win>>

\* Mutation: what the file was when it was read is not tested.
StampUntested == TRUE

\* write_doc_at: no stamp, or no file, means no test.
StampFits == flight.want = NULL \/ ~file.there \/ flight.want = FRESH

\* A write or a deletion outdates every stamp that somebody holds.
Aged(s) == IF s = FRESH THEN STALE ELSE s
Outdated(d) ==
    /\ file' = [there |-> TRUE, doc |-> d]
    /\ stamp' = Aged(stamp)
    /\ opening' = [opening EXCEPT !.stamp = Aged(opening.stamp)]

\* write_doc_at tests the stamp, ...
WriteTested ==
    /\ flight.pc = "asked" /\ StampFits
    /\ flight' = [flight EXCEPT !.pc = "tested"]
    /\ UNCHANGED <<store, hist, edited, st, shown, timer, again, stamp, opening, win, owed>>

\* ... stores the file, ...
WriteAt ==
    /\ flight.pc = "tested"
    /\ Outdated(flight.doc)
    /\ flight' = [flight EXCEPT !.pc = "stored", !.want = NULL]
    /\ UNCHANGED <<hist, edited, st, shown, timer, again, win, delete, owed, overlap>>

\* ... and takes the stamp that the file has then, or none that will ever fit.
WriteStamped ==
    /\ flight.pc = "stored"
    /\ flight' = [flight EXCEPT !.pc = "written", !.want = IF file.there THEN FRESH ELSE STALE]
    /\ UNCHANGED <<store, hist, edited, st, shown, timer, again, stamp, opening, win, owed>>

\* The write is refused because of its stamp, or fails.
WriteFails ==
    /\ flight.pc \in {"asked", "tested"}
    /\ flight' = [NoFlight EXCEPT !.pc = "failed"]
    /\ UNCHANGED <<store, hist, edited, st, shown, timer, again, stamp, opening, win, owed>>

\* The answer of the write; the save that was asked for meanwhile follows.  A
\* close that joined the save goes on now, one that owns it when none follows.
WriteReturns ==
    /\ flight.pc \in {"written", "failed"}
    /\ stamp' = IF flight.pc = "written" THEN flight.want ELSE stamp
    /\ IF again
       THEN /\ flight' = [pc |-> "asked", doc |-> hist.cur, want |-> stamp']
            /\ st' = "saving" /\ owed' = FALSE /\ again' = FALSE
       ELSE /\ flight' = NoFlight
            /\ st' = IF flight.pc = "written" THEN "clean" ELSE "error"
            /\ UNCHANGED <<owed, again>>
    /\ win' = IF win = "joined" \/ (win = "flushing" /\ ~again)
              THEN IF shown = "error" THEN "asking" ELSE "closed"
              ELSE win
    /\ UNCHANGED <<store, hist, edited, shown, timer, opening, delete>>

\* Another window writes the sidecar.  It has read the file it replaces, or
\* an earlier one if its own test was overtaken.
OthersWrite ==
    /\ \E d \in SUBSET file.doc : Outdated(d \cup {Others})
    /\ flight' = [flight EXCEPT !.want = Aged(flight.want)]
    /\ overlap' = (overlap \/ flight.pc \in {"tested", "stored"} \/ opening.pc = "content")
    /\ UNCHANGED <<hist, edited, st, shown, timer, again, win, delete, owed>>

-----------------------------------------------------------------------------
(* Opening, closing, flattening. *)

\* read_doc_at reads the document, ...
LoadAt ==
    /\ opening.pc = "asked"
    /\ opening' = [opening EXCEPT !.pc = IF file.there THEN "content" ELSE "read", !.doc = file.doc]
    /\ UNCHANGED <<store, hist, edited, shown, timer, saving, win, owed>>

\* ... and the stamp that the file has then.
LoadStamped ==
    /\ opening.pc = "content"
    /\ opening' = [opening EXCEPT !.pc = "read", !.stamp = IF file.there THEN FRESH ELSE NULL]
    /\ UNCHANGED <<store, hist, edited, shown, timer, saving, win, owed>>

\* The image, or the sidecar, cannot be read.
LoadFails ==
    /\ opening.pc = "asked"
    /\ opening' = NothingRead("failed")
    /\ UNCHANGED <<store, hist, edited, shown, timer, saving, win, owed>>

\* A sidecar of a later version, or a damaged one.
LoadUnreadable ==
    /\ opening.pc = "read" /\ opening.stamp # NULL /\ Live
    /\ opening' = NothingRead("failed")
    /\ stamp' = opening.stamp /\ st' = "error"
    /\ UNCHANGED <<store, hist, edited, shown, timer, flight, again, win, owed>>

\* The document read takes the place of what was drawn meanwhile; a changed
\* image drops the crop, which has to be saved.
LoadReturns ==
    /\ opening.pc = "read" /\ Live
    /\ opening' = NothingRead("done")
    /\ stamp' = opening.stamp
    /\ IF opening.stamp = NULL THEN UNCHANGED <<hist, st, timer, owed>>
       ELSE /\ hist' = [past |-> <<>>, cur |-> opening.doc, future |-> <<>>]
            /\ MarkDirty \/ UNCHANGED <<st, timer, owed>>
    /\ UNCHANGED <<store, edited, shown, flight, again, win>>

\* The answer finds the editor gone: only its stamp is taken.
LoadDropped ==
    /\ opening.pc = "read" /\ ~Live
    /\ opening' = NothingRead("failed")
    /\ stamp' = opening.stamp
    /\ UNCHANGED <<store, hist, edited, st, shown, timer, flight, again, win, owed>>

\* requestClose, and onCloseRequested of a document window that is not clean:
\* flush, then ask if the save has failed.
Close ==
    /\ win = "open"
    /\ timer' = FALSE
    /\ win' = IF flight.pc = "none" THEN "flushing" ELSE "joined"
    /\ RunSave
    /\ UNCHANGED <<store, hist, edited, shown, stamp, opening>>

\* A document window that is clean goes; what the timer waits for is sent at
\* pagehide.
CloseClean ==
    /\ win = "open" /\ shown = "clean"
    /\ win' = "closed" /\ timer' = FALSE
    /\ IF timer THEN RunSave ELSE UNCHANGED <<st, flight, again, owed>>
    /\ UNCHANGED <<store, hist, edited, shown, stamp, opening>>

AnswerAsk ==
    /\ win = "asking" /\ win' \in {"open", "closed"}
    /\ UNCHANGED <<store, hist, edited, shown, timer, saving, opening, owed>>

\* writeTo on the image itself: rendering, encoding and writing it take time.
Flatten ==
    /\ win = "open" /\ win' = "busy"
    /\ UNCHANGED <<store, hist, edited, shown, timer, saving, opening, owed>>

FlattenFails ==
    /\ win = "busy" /\ win' = "open"
    /\ UNCHANGED <<store, hist, edited, shown, timer, saving, opening, owed>>

\* onSuccess: deleteDoc, whose end is not waited for, and close.
Flattened ==
    /\ win = "busy" /\ win' = "closed"
    /\ timer' = FALSE /\ delete' = "asked" /\ owed' = FALSE
    /\ UNCHANGED <<file, overlap, hist, edited, shown, saving, opening>>

DeleteAt ==
    /\ delete = "asked" /\ delete' = "done"
    /\ file' = [there |-> FALSE, doc |-> {}]
    /\ stamp' = NULL /\ st' = "clean"
    /\ UNCHANGED <<overlap, hist, edited, shown, timer, flight, again, opening, win, owed>>

-----------------------------------------------------------------------------
Init ==
    /\ file \in {[there |-> FALSE, doc |-> {}], [there |-> TRUE, doc |-> {Others}],
                [there |-> TRUE, doc |-> Layers]}
    /\ hist = [past |-> <<>>, cur |-> {}, future |-> <<>>]
    /\ edited = FALSE
    /\ st = "clean" /\ shown = "clean"
    /\ timer = FALSE /\ again = FALSE /\ owed = FALSE /\ overlap = FALSE
    /\ flight = NoFlight /\ stamp = NULL
    /\ opening = NothingRead("asked")
    /\ win = "open" /\ delete = "none"

Next ==
    \/ \E x \in Layers : Commit(x)
    \/ \E i \in 1 .. Len(Entries(hist)) : JumpTo(i)
    \/ Undo \/ Redo \/ Render
    \/ TimerFires \/ WriteTested \/ WriteAt \/ WriteStamped \/ WriteFails \/ WriteReturns
    \/ OthersWrite
    \/ LoadAt \/ LoadStamped \/ LoadFails \/ LoadUnreadable \/ LoadReturns \/ LoadDropped
    \/ Close \/ CloseClean \/ AnswerAsk
    \/ Flatten \/ FlattenFails \/ Flattened \/ DeleteAt

Spec == Init /\ [][Next]_vars

-----------------------------------------------------------------------------
\* A commit or a jump is never forgotten: until a save has taken the document
\* a timer promises it, or the flag for one more save while a write is out
\* whose answer will look at that flag.
MarkedIsSaved == Live /\ owed => timer \/ (again /\ flight.pc # "none")

\* Undo, redo and jumps walk along the line of documents and change nothing on
\* it; a jump back, with nothing undone, lands on the entry that was clicked.
HistoryIsALine ==
    [][/\ Undo \/ Redo => Timeline(hist') = Timeline(hist)
       /\ \A i \in 1 .. Len(Entries(hist)) : JumpTo(i) =>
            /\ Timeline(hist') = Timeline(hist)
            /\ hist.future = <<>> => hist'.cur = Entries(hist)[i]]_vars

\* Once a window has read or written the sidecar, what another window draws
\* into it is never lost by this window's automatic saves -- as long as none
\* of the other's writes has fallen between a test and its store, a store and
\* its stamp, or a document read and its stamp.
LaterWritesKept ==
    [][WriteAt /\ ~overlap /\ opening.pc # "failed" /\ flight.want # NULL /\ Others \in file.doc
        => Others \in file'.doc]_vars

\* The comments above requestClose and in load: the document stays in the
\* sidecar and comes back, one that cannot be read is not overwritten before
\* the user edits.  An editor in which nothing was done replaces no document.
ClosingKeepsDocument ==
    [][WriteAt /\ ~edited => file'.doc = file.doc]_vars

=============================================================================

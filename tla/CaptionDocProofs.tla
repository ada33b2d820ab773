-------------------------- MODULE CaptionDocProofs --------------------------
(***************************************************************************)
(* Proofs about CaptionDoc for every number of windows, edits, calls,      *)
(* writes and losses of the file: no blind overwrite, nothing called saved *)
(* that is not, no stranded edit, undo within a transcription, jobs that   *)
(* end.                                                                    *)
(***************************************************************************)
EXTENDS CaptionDoc, TLAPS

Texts == SUBSET (Edits \cup {Nobody})
Versions == [life : Nat, rev : Nat]
RealDocs == [gen : Versions \ {NoVersion}, ed : Texts]
Docs == RealDocs \cup {NoDoc}
Reads == [at : Versions, doc : Docs]
Files == {d \in [at : Versions, gen : Versions, ed : Texts, by : Windows \cup {Nobody}] :
            d.at.rev # 0 => d.gen # NoVersion}
EntryType == [doc : Docs, base : Versions, dirty : BOOLEAN, saving : BOOLEAN,
              saveErr : BOOLEAN, loadErr : BOOLEAN, conflict : BOOLEAN,
              past : Seq(RealDocs), future : Seq(RealDocs), job : BOOLEAN,
              ai : SUBSET AiJobs, root : Versions]
FlightType == [pc : {"none", "asked", "saved", "conflict", "failed"}, doc : Docs,
               base : Versions, root : Versions, same : BOOLEAN]
LoadType == [why : {"reload", "changed", "overwrite", "settle"},
             pc : {"asked", "read", "failed"}, got : Reads]
ToolType == [pc : {"none", "running", "wrote", "failed"}, got : Reads]

Types ==
    /\ disk \in Files
    /\ entry \in [Windows -> EntryType]
    /\ timer \in [Windows -> BOOLEAN]
    /\ flight \in [Windows -> FlightType]
    /\ loads \in [Windows -> SUBSET LoadType]
    /\ calls \in [Windows -> SUBSET Calls]
    /\ tool \in [Windows -> [Tools -> ToolType]]
    /\ events \in [Windows -> SUBSET Versions]
    /\ used \subseteq Edits

-----------------------------------------------------------------------------
(* What the operators build. *)

LEMMA NoneIsSeq == <<>> \in Seq(RealDocs)
  OBVIOUS

LEMMA NothingTyped == NoVersion \in Versions /\ NoDoc \in Docs /\ Unread \in Reads
  BY DEF NoVersion, Versions, Docs, Unread, Reads

\* What is read of a file is a document, or none.
LEMMA ReadIs ==
    ASSUME NEW d \in Files
    PROVE  Read(d) \in Reads /\ Read(d).at = d.at /\ Read(d).doc = Content(d)
  <1>1. CASE d.at.rev = 0
    BY <1>1, NothingTyped DEF Files, Read, Reads, Content
  <1>2. CASE d.at.rev # 0
    <2>1. [gen |-> d.gen, ed |-> d.ed] \in RealDocs
      BY <1>2 DEF Files, RealDocs
    <2> QED BY <1>2, <2>1 DEF Files, Read, Reads, Content, Docs
  <1> QED BY <1>1, <1>2

LEMMA LoadedIs ==
    ASSUME NEW e \in EntryType, NEW g \in Reads
    PROVE  /\ Loaded(e, g) \in EntryType
           /\ Loaded(e, g).doc = g.doc
           /\ Loaded(e, g).base = g.at /\ Loaded(e, g).root = g.at
           /\ ~Loaded(e, g).dirty /\ ~Loaded(e, g).conflict
           /\ Loaded(e, g).saving = e.saving /\ Loaded(e, g).job = e.job
           /\ Loaded(e, g).past = <<>> /\ Loaded(e, g).future = <<>>
  <1>1. g.doc \in Docs /\ g.at \in Versions
    BY DEF Reads
  <1>2. Loaded(e, g) \in EntryType
    BY <1>1, NoneIsSeq DEF Loaded, EntryType
  <1> QED BY <1>2 DEF Loaded, EntryType

LEMMA SaveOfTyped ==
    ASSUME NEW e \in EntryType PROVE SaveOf(e) \in FlightType
  BY DEF SaveOf, EntryType, FlightType

LEMMA RealIsShown == \A d \in RealDocs : d # NoDoc /\ d \in Docs
  BY DEF RealDocs, NoDoc, Docs

\* One more document on the undo stack.
LEMMA PushedIs ==
    ASSUME NEW s \in Seq(RealDocs), NEW d \in RealDocs
    PROVE  /\ Pushed(s, d) \in Seq(RealDocs)
           /\ \A i \in DOMAIN Pushed(s, d) :
                Pushed(s, d)[i] = d \/ \E j \in DOMAIN s : Pushed(s, d)[i] = s[j]
  <1>1. CASE Len(s) = UndoLimit
    <2>1. s # <<>> /\ Tail(s) \in Seq(RealDocs)
      BY <1>1, BoundsAssumption
    <2>2. \A i \in 1 .. Len(Tail(s)) : Tail(s)[i] = s[i + 1] /\ i + 1 \in DOMAIN s
      BY <2>1
    <2>3. Pushed(s, d) = Append(Tail(s), d)
      BY <1>1 DEF Pushed
    <2> QED BY <2>1, <2>2, <2>3
  <1>2. CASE Len(s) # UndoLimit
    BY <1>2 DEF Pushed
  <1> QED BY <1>1, <1>2

-----------------------------------------------------------------------------
(* Versions.  Two of them may share a revision; a write or a loss of the   *)
(* file makes one that was never there before.                             *)

Before(v, u) == v.life < u.life \/ (v.life = u.life /\ v.rev <= u.rev)
After(u, v) == v.life < u.life \/ (v.life = u.life /\ v.rev < u.rev)

LEMMA BeforeItself == \A v \in Versions : Before(v, v) /\ Before(NoVersion, v)
  BY DEF Versions, Before, NoVersion

LEMMA AfterIsNew ==
    ASSUME NEW v \in Versions, NEW u \in Versions, NEW z \in Versions, Before(v, u), After(z, u)
    PROVE  Before(v, z) /\ v # z
  BY DEF Versions, Before, After

\* A write counts on.
LEMMA NextIs ==
    ASSUME disk \in Files
    PROVE  /\ NextAt \in Versions \ {NoVersion} /\ NextAt.rev # 0
           /\ After(NextAt, disk.at) /\ disk.at \in Versions
  <1>1. disk.at \in Versions
    BY DEF Files
  <1>2. NextAt = [life |-> disk.at.life, rev |-> disk.at.rev + 1]
    BY <1>1 DEF NextAt, Versions
  <1> QED BY <1>1, <1>2 DEF Versions, After, NoVersion

\* What a write makes.
LEMMA WrittenIs ==
    ASSUME disk \in Files, NEW g \in Versions \ {NoVersion}, NEW t \in Texts,
           NEW b \in Windows \cup {Nobody}
    PROVE  /\ Written(g, t, b) \in Files /\ Written(g, t, b).at = NextAt
           /\ Written(g, t, b).by = b /\ Content(Written(g, t, b)) = [gen |-> g, ed |-> t]
  BY NextIs DEF Written, Files, Content

LEMMA TranscribedIs ==
    ASSUME disk \in Files PROVE Transcribed \in Files /\ Transcribed.at = NextAt
  BY NextIs, WrittenIs DEF Transcribed, Texts

-----------------------------------------------------------------------------
(* The invariant of one window. *)

\* A save on its way is shown as one, and has a document.
Shown(w) ==
    /\ entry[w].saving <=> flight[w].pc # "none"
    /\ flight[w].pc = "asked" => flight[w].doc # NoDoc

\* What was read is what the file holds, or held before.
Older(g) == g \in Reads /\ Before(g.at, disk.at) /\ (g.at = disk.at => g = Read(disk))
Revisions(w) ==
    /\ Before(entry[w].base, disk.at) /\ Before(flight[w].base, disk.at)
    /\ \A l \in loads[w] : l.pc = "read" => Older(l.got)
    /\ \A c \in Tools : tool[w][c].pc = "wrote" => Older(tool[w][c].got)

\* A window whose base is the file's version shows a descendant of it, has
\* been told to overwrite it, or has written it.
Based(w) ==
    /\ entry[w].base = disk.at => entry[w].root = disk.at \/ disk.by = w
    /\ flight[w].base = disk.at => flight[w].root = disk.at \/ disk.by = w
    /\ flight[w].pc = "saved" /\ flight[w].base = disk.at
       => disk.by = w /\ flight[w].doc = Content(disk)

Clean(w) == ~entry[w].dirty /\ entry[w].doc # NoDoc /\ entry[w].base = disk.at
            => entry[w].doc = Content(disk)

\* The parts of the run's invariants, for one window.
NotStranded(w) ==
    entry[w].doc # NoDoc /\ entry[w].dirty /\ ~entry[w].conflict /\ ~entry[w].saveErr
    /\ ~entry[w].loadErr
    => timer[w] \/ (entry[w].saving /\ flight[w].pc # "none") \/ calls[w] # {} \/ loads[w] # {}

Undoable(w) ==
    /\ \A i \in DOMAIN entry[w].past : entry[w].past[i].gen = entry[w].doc.gen
    /\ \A i \in DOMAIN entry[w].future : entry[w].future[i].gen = entry[w].doc.gen

JobEnds(w) ==
    entry[w].job => \/ tool[w]["transcribe"].pc # "none"
                   \/ \E l \in loads[w] : l.why = "settle"

Win(w) == Shown(w) /\ Revisions(w) /\ Based(w) /\ Clean(w) /\ NotStranded(w)
          /\ Undoable(w) /\ JobEnds(w)

\* A step of window w leaves the others alone.
Others(w) ==
    \A v \in Windows \ {w} :
        /\ entry'[v] = entry[v] /\ timer'[v] = timer[v] /\ flight'[v] = flight[v]
        /\ loads'[v] = loads[v] /\ calls'[v] = calls[v] /\ tool'[v] = tool[v]

\* The file stays, or is written or lost.
NewDisk == /\ disk' \in Files
           /\ disk' = disk \/ After(disk'.at, disk.at)

\* What was before the file stays before it, and is not the new file.
LEMMA BeforeStays ==
    ASSUME Types, disk' \in Files, After(disk'.at, disk.at), NEW v \in Versions,
           Before(v, disk.at)
    PROVE  Before(v, disk'.at) /\ v # disk'.at
  BY AfterIsNew DEF Types, Files

LEMMA OlderStays ==
    ASSUME Types, NewDisk, NEW g, Older(g) PROVE Older(g)'
  <1>1. CASE disk' = disk
    BY <1>1 DEF Older, Read, Content
  <1>2. CASE After(disk'.at, disk.at)
    BY <1>2, BeforeStays DEF NewDisk, Older, Reads
  <1> QED BY <1>1, <1>2 DEF NewDisk

LEMMA WinFrame ==
    ASSUME Types, NEW w \in Windows, Win(w), NewDisk, entry'[w] = entry[w],
           timer'[w] = timer[w], flight'[w] = flight[w], loads'[w] = loads[w],
           calls'[w] = calls[w], tool'[w] = tool[w]
    PROVE  Win(w)'
  <1>1. entry[w].base \in Versions /\ flight[w].base \in Versions
    BY DEF Types, EntryType, FlightType
  <1>2. Shown(w)' /\ NotStranded(w)' /\ Undoable(w)' /\ JobEnds(w)'
    BY DEF Win, Shown, NotStranded, Undoable, JobEnds
  <1>3. \A g : Older(g) => Older(g)'
    BY OlderStays
  <1>4. CASE disk' = disk
    <2>1. Revisions(w)'
      BY <1>3, <1>4 DEF Win, Revisions
    <2>2. Based(w)' /\ Clean(w)'
      BY <1>4 DEF Win, Based, Clean, Content
    <2> QED BY <1>2, <2>1, <2>2 DEF Win
  <1>5. CASE After(disk'.at, disk.at)
    <2>1. Before(entry[w].base, disk'.at) /\ entry[w].base # disk'.at
          /\ Before(flight[w].base, disk'.at) /\ flight[w].base # disk'.at
      BY <1>1, <1>5, BeforeStays DEF NewDisk, Win, Revisions
    <2>2. Revisions(w)'
      BY <1>3, <2>1 DEF Win, Revisions
    <2>3. Based(w)' /\ Clean(w)'
      BY <2>1 DEF Based, Clean
    <2> QED BY <1>2, <2>2, <2>3 DEF Win
  <1> QED BY <1>4, <1>5 DEF NewDisk

-----------------------------------------------------------------------------
(* The steps of a window, one by one. *)

Good(w) == Types' /\ Others(w) /\ NewDisk /\ Win(w)'

LEMMA WindowTyped ==
    ASSUME Types, NEW w \in Windows
    PROVE  /\ entry[w] \in EntryType /\ flight[w] \in FlightType
           /\ loads[w] \subseteq LoadType /\ calls[w] \subseteq Calls
           /\ tool[w] \in [Tools -> ToolType] /\ timer[w] \in BOOLEAN
           /\ disk \in Files /\ disk.at \in Versions
  BY DEF Types, Files

\* A step that changes the window's entry, and perhaps its timer.
LEMMA PatchGood ==
    ASSUME Types, NEW w \in Windows, Win(w), NEW e \in EntryType, NEW b \in BOOLEAN,
           Patch(w, e), timer' = [timer EXCEPT ![w] = b],
           used' \subseteq Edits, UNCHANGED <<disk, flight, loads, calls, tool, events>>,
           e.saving = entry[w].saving, e.base = entry[w].base, e.root = entry[w].root,
           e.dirty \/ (e.doc = entry[w].doc /\ e.dirty = entry[w].dirty),
           NotStranded(w)', Undoable(w)', e.job = entry[w].job
    PROVE  Good(w)
  <1>1. entry'[w] = e /\ Others(w) /\ NewDisk /\ Types'
    BY DEF Patch, Types, Others, NewDisk
  <1>2. Shown(w)' /\ JobEnds(w)'
    BY <1>1 DEF Win, Shown, JobEnds
  <1>3. Revisions(w)'
    BY <1>1 DEF Win, Revisions, Older
  <1>4. Based(w)'
    BY <1>1 DEF Win, Based
  <1>5. Clean(w)'
    BY <1>1 DEF Win, Clean
  <1> QED BY <1>1, <1>2, <1>3, <1>4, <1>5 DEF Good, Win

\* What a stack holds after one document more or less.
LEMMA StackPops ==
    ASSUME NEW s \in Seq(RealDocs), s # <<>>, NEW g, \A i \in DOMAIN s : s[i].gen = g
    PROVE  /\ SubSeq(s, 1, Len(s) - 1) \in Seq(RealDocs)
           /\ \A i \in DOMAIN SubSeq(s, 1, Len(s) - 1) :
                SubSeq(s, 1, Len(s) - 1)[i].gen = g
  OBVIOUS

LEMMA StackPushes ==
    ASSUME NEW s \in Seq(RealDocs), NEW d \in RealDocs,
           \A i \in DOMAIN s : s[i].gen = d.gen
    PROVE  /\ Append(s, d) \in Seq(RealDocs)
           /\ \A i \in DOMAIN Append(s, d) : Append(s, d)[i].gen = d.gen
  OBVIOUS

LEMMA EditGood ==
    ASSUME Types, NEW w \in Windows, Win(w), NEW x \in Edits, Editable(w), Edit(w, x)
    PROVE  Good(w)
  <1> DEFINE e == [entry[w] EXCEPT !.doc.ed = @ \cup {x}, !.past = Pushed(@, entry[w].doc),
                                   !.future = <<>>, !.dirty = TRUE, !.saveErr = FALSE]
             d == [entry[w].doc EXCEPT !.ed = @ \cup {x}]
             p == Pushed(entry[w].past, entry[w].doc)
  <1>1. entry[w].doc \in RealDocs /\ entry[w] \in EntryType
    BY WindowTyped DEF Editable, EntryType, Docs
  <1>2. d \in RealDocs /\ d \in Docs /\ d # NoDoc /\ d.gen = entry[w].doc.gen
    <2>1. d \in RealDocs /\ d.gen = entry[w].doc.gen
      BY <1>1 DEF RealDocs, Texts
    <2> QED BY <2>1, RealIsShown
  <1>3. p \in Seq(RealDocs) /\ \A i \in DOMAIN p : p[i].gen = entry[w].doc.gen
    <2>1. entry[w].past \in Seq(RealDocs)
          /\ \A i \in DOMAIN entry[w].past : entry[w].past[i].gen = entry[w].doc.gen
      BY <1>1 DEF EntryType, Win, Undoable
    <2>2. p \in Seq(RealDocs)
      BY <1>1, <2>1, PushedIs
    <2>3. ASSUME NEW i \in DOMAIN p PROVE p[i].gen = entry[w].doc.gen
      <3>1. p[i] = entry[w].doc \/ \E j \in DOMAIN entry[w].past : p[i] = entry[w].past[j]
        BY <1>1, <2>1, PushedIs
      <3> QED BY <2>1, <3>1
    <2> QED BY <2>2, <2>3
  <1> HIDE DEF d, p
  <1>4. e = [entry[w] EXCEPT !.doc = d, !.past = p, !.future = <<>>, !.dirty = TRUE,
                             !.saveErr = FALSE]
    BY <1>1 DEF EntryType, d, p
  <1>5. e \in EntryType
    BY <1>1, <1>2, <1>3, <1>4, NoneIsSeq DEF EntryType
  <1>6. /\ e.doc = d /\ e.past = p /\ e.future = <<>> /\ e.dirty
        /\ e.saving = entry[w].saving /\ e.base = entry[w].base
        /\ e.root = entry[w].root /\ e.job = entry[w].job
    BY <1>1, <1>4 DEF EntryType
  <1>7. Patch(w, e) /\ timer' = [timer EXCEPT ![w] = TRUE] /\ used' \subseteq Edits
        /\ UNCHANGED <<disk, flight, loads, calls, tool, events>>
    BY DEF Edit, Types
  <1>8. entry'[w] = e /\ timer'[w]
    BY <1>7 DEF Patch, Types
  <1> HIDE DEF e
  <1>9. NotStranded(w)' /\ Undoable(w)'
    BY <1>2, <1>3, <1>6, <1>8 DEF NotStranded, Undoable
  <1> QED BY <1>2, <1>5, <1>6, <1>7, <1>9, PatchGood

LEMMA UndoGood ==
    ASSUME Types, NEW w \in Windows, Win(w), Undo(w) PROVE Good(w)
  <1> DEFINE d == entry[w].past[Len(entry[w].past)]
             s == SubSeq(entry[w].past, 1, Len(entry[w].past) - 1)
             q == Append(entry[w].future, entry[w].doc)
             e == [entry[w] EXCEPT !.doc = d, !.past = s, !.future = q, !.dirty = TRUE]
  <1>1. entry[w].doc \in RealDocs /\ entry[w] \in EntryType /\ entry[w].past # <<>>
        /\ entry[w].past \in Seq(RealDocs) /\ entry[w].future \in Seq(RealDocs)
    BY WindowTyped DEF Undo, Editable, EntryType, Docs
  <1>2. d \in RealDocs /\ d.gen = entry[w].doc.gen
    BY <1>1 DEF Win, Undoable
  <1>3. s \in Seq(RealDocs) /\ \A i \in DOMAIN s : s[i].gen = entry[w].doc.gen
    BY <1>1, StackPops DEF Win, Undoable
  <1>4. q \in Seq(RealDocs) /\ \A i \in DOMAIN q : q[i].gen = entry[w].doc.gen
    BY <1>1, StackPushes DEF Win, Undoable
  <1>5. d \in Docs /\ d # NoDoc
    BY <1>2, RealIsShown
  <1>6. Patch(w, e) /\ timer' = [timer EXCEPT ![w] = TRUE] /\ used' \subseteq Edits
        /\ UNCHANGED <<disk, flight, loads, calls, tool, events>>
    BY DEF Undo, Types
  <1> HIDE DEF d, s, q
  <1>7. e \in EntryType
    BY <1>1, <1>3, <1>4, <1>5 DEF EntryType
  <1>8. /\ e.doc = d /\ e.past = s /\ e.future = q /\ e.dirty
        /\ e.saving = entry[w].saving /\ e.base = entry[w].base
        /\ e.root = entry[w].root /\ e.job = entry[w].job
    BY <1>1 DEF EntryType
  <1>9. entry'[w] = e /\ timer'[w]
    BY <1>6 DEF Patch, Types
  <1> HIDE DEF e
  <1>10. NotStranded(w)' /\ Undoable(w)'
    BY <1>2, <1>3, <1>4, <1>8, <1>9 DEF NotStranded, Undoable
  <1> QED BY <1>5, <1>6, <1>7, <1>8, <1>10, PatchGood

LEMMA RedoGood ==
    ASSUME Types, NEW w \in Windows, Win(w), Redo(w) PROVE Good(w)
  <1> DEFINE d == entry[w].future[Len(entry[w].future)]
             s == SubSeq(entry[w].future, 1, Len(entry[w].future) - 1)
             q == Append(entry[w].past, entry[w].doc)
             e == [entry[w] EXCEPT !.doc = d, !.future = s, !.past = q, !.dirty = TRUE]
  <1>1. entry[w].doc \in RealDocs /\ entry[w] \in EntryType /\ entry[w].future # <<>>
        /\ entry[w].future \in Seq(RealDocs) /\ entry[w].past \in Seq(RealDocs)
    BY WindowTyped DEF Redo, Editable, EntryType, Docs
  <1>2. d \in RealDocs /\ d.gen = entry[w].doc.gen
    BY <1>1 DEF Win, Undoable
  <1>3. s \in Seq(RealDocs) /\ \A i \in DOMAIN s : s[i].gen = entry[w].doc.gen
    BY <1>1, StackPops DEF Win, Undoable
  <1>4. q \in Seq(RealDocs) /\ \A i \in DOMAIN q : q[i].gen = entry[w].doc.gen
    BY <1>1, StackPushes DEF Win, Undoable
  <1>5. d \in Docs /\ d # NoDoc
    BY <1>2, RealIsShown
  <1>6. Patch(w, e) /\ timer' = [timer EXCEPT ![w] = TRUE] /\ used' \subseteq Edits
        /\ UNCHANGED <<disk, flight, loads, calls, tool, events>>
    BY DEF Redo, Types
  <1> HIDE DEF d, s, q
  <1>7. e \in EntryType
    BY <1>1, <1>3, <1>4, <1>5 DEF EntryType
  <1>8. /\ e.doc = d /\ e.future = s /\ e.past = q /\ e.dirty
        /\ e.saving = entry[w].saving /\ e.base = entry[w].base
        /\ e.root = entry[w].root /\ e.job = entry[w].job
    BY <1>1 DEF EntryType
  <1>9. entry'[w] = e /\ timer'[w]
    BY <1>6 DEF Patch, Types
  <1> HIDE DEF e
  <1>10. NotStranded(w)' /\ Undoable(w)'
    BY <1>2, <1>3, <1>4, <1>8, <1>9 DEF NotStranded, Undoable
  <1> QED BY <1>5, <1>6, <1>7, <1>8, <1>10, PatchGood

LEMMA AiGood ==
    ASSUME Types, NEW w \in Windows, Win(w), NEW k \in AiJobs, StartAi(w, k) \/ EndAi(w, k)
    PROVE  Good(w)
  <1>1. PICK a \in SUBSET AiJobs : Patch(w, [entry[w] EXCEPT !.ai = a])
    BY WindowTyped DEF StartAi, EndAi, EntryType
  <1> DEFINE e == [entry[w] EXCEPT !.ai = a]
  <1>2. /\ e \in EntryType /\ e.doc = entry[w].doc /\ e.dirty = entry[w].dirty
        /\ e.conflict = entry[w].conflict /\ e.saveErr = entry[w].saveErr
        /\ e.loadErr = entry[w].loadErr /\ e.past = entry[w].past
        /\ e.future = entry[w].future /\ e.saving = entry[w].saving
        /\ e.base = entry[w].base /\ e.root = entry[w].root /\ e.job = entry[w].job
    BY WindowTyped DEF EntryType
  <1>3. timer' = [timer EXCEPT ![w] = timer[w]] /\ used' \subseteq Edits
        /\ UNCHANGED <<disk, flight, loads, calls, tool, events>>
    BY DEF StartAi, EndAi, Types
  <1>4. entry'[w] = e /\ timer'[w] = timer[w]
    BY <1>1, <1>3 DEF Patch, Types
  <1> HIDE DEF e
  <1>5. NotStranded(w)' /\ Undoable(w)'
    BY <1>2, <1>3, <1>4 DEF Win, NotStranded, Undoable
  <1> QED BY <1>1, <1>2, <1>3, <1>5, PatchGood, WindowTyped DEF Win, Shown, e

\* A step that calls save.
LEMMA SaveGood ==
    ASSUME Types, NEW w \in Windows, Win(w), NEW e \in EntryType, NEW b \in BOOLEAN,
           NEW L \in SUBSET LoadType, PatchAndSave(w, e), timer' = [timer EXCEPT ![w] = b],
           loads' = [loads EXCEPT ![w] = L], L \subseteq loads[w],
           \A l \in loads[w] : l.why = "settle" => l \in L,
           UNCHANGED <<disk, calls, tool, events, used>>,
           e.saving = entry[w].saving, e.doc = entry[w].doc, e.past = entry[w].past,
           e.future = entry[w].future, e.job = entry[w].job,
           \/ e.base = entry[w].base /\ e.root = entry[w].root /\ e.dirty = entry[w].dirty
           \/ e.base = e.root /\ Before(e.base, disk.at) /\ e.dirty
    PROVE  Good(w)
  <1> DEFINE n == IF SendsSave(e) THEN [e EXCEPT !.saving = TRUE] ELSE e
             f == IF SendsSave(e) THEN SaveOf(e) ELSE flight[w]
  <1>0. flight[w] \in FlightType /\ flight \in [Windows -> FlightType]
    BY WindowTyped DEF Types
  <1>1. n \in EntryType /\ f \in FlightType
    BY <1>0, SaveOfTyped DEF EntryType
  <1>2. Patch(w, n) /\ flight' = [flight EXCEPT ![w] = f]
    BY <1>0 DEF PatchAndSave
  <1>3. /\ n.doc = e.doc /\ n.past = e.past /\ n.future = e.future /\ n.job = e.job
        /\ n.base = e.base /\ n.root = e.root /\ n.dirty = e.dirty /\ n.conflict = e.conflict
        /\ SendsSave(e) => n.saving /\ f.pc = "asked" /\ f.base = e.base /\ f.root = e.root
                           /\ f.doc = e.doc
        /\ ~SendsSave(e) => n = e /\ f = flight[w]
    BY DEF EntryType, SaveOf
  <1> HIDE DEF n, f
  <1>4. entry'[w] = n /\ flight'[w] = f /\ loads'[w] = L /\ timer'[w] = b
        /\ UNCHANGED <<disk, calls, tool>>
    BY <1>2 DEF Patch, Types
  <1>5. Others(w) /\ NewDisk /\ Types'
    BY <1>1, <1>2 DEF Patch, Types, Others, NewDisk
  <1>6. Shown(w)'
    <2>1. entry'[w].saving <=> flight'[w].pc # "none"
      BY <1>3, <1>4 DEF Win, Shown
    <2>2. SendsSave(e) => e.doc # NoDoc
      BY DEF SendsSave, Savable
    <2> QED BY <1>3, <1>4, <2>1, <2>2 DEF Win, Shown
  <1>7. Revisions(w)'
    <2>1. Before(n.base, disk.at) /\ Before(f.base, disk.at)
      BY <1>3 DEF Win, Revisions
    <2> QED BY <1>4, <2>1 DEF Win, Revisions, Older
  <1>8. Based(w)' /\ Clean(w)'
    BY <1>3, <1>4 DEF Win, Based, Clean
  <1>9. NotStranded(w)'
    <2>1. e.doc # NoDoc /\ e.dirty /\ ~e.conflict /\ ~SendsSave(e) => e.saving
      BY DEF SendsSave, Savable
    <2> QED BY <1>3, <1>4, <2>1 DEF Win, Shown, NotStranded
  <1>10. Undoable(w)' /\ JobEnds(w)'
    BY <1>3, <1>4 DEF Win, Undoable, JobEnds
  <1> QED BY <1>5, <1>6, <1>7, <1>8, <1>9, <1>10 DEF Good, Win

LEMMA TimerGood ==
    ASSUME Types, NEW w \in Windows, Win(w), TimerFires(w) \/ FlushSaves(w) PROVE Good(w)
  <1>1. PICK b \in BOOLEAN : timer' = [timer EXCEPT ![w] = b]
    <2>1. CASE TimerFires(w)
      BY <2>1 DEF TimerFires
    <2>2. CASE FlushSaves(w)
      BY <2>2 DEF FlushSaves, Types
    <2> QED BY <2>1, <2>2
  <1>2. loads' = [loads EXCEPT ![w] = loads[w]] /\ loads[w] \in SUBSET LoadType
    BY DEF TimerFires, FlushSaves, Types
  <1>3. PatchAndSave(w, entry[w]) /\ UNCHANGED <<disk, calls, tool, events, used>>
    BY DEF TimerFires, FlushSaves
  <1>4. entry[w] \in EntryType
    BY WindowTyped
  <1> QED BY <1>1, <1>2, <1>3, <1>4, SaveGood

LEMMA OverwriteGood ==
    ASSUME Types, NEW w \in Windows, Win(w), NEW l \in loads[w], OverwriteReturns(w, l)
    PROVE  Good(w)
  <1>0. entry[w] \in EntryType /\ loads[w] \ {l} \in SUBSET LoadType
        /\ timer' = [timer EXCEPT ![w] = timer[w]] /\ timer[w] \in BOOLEAN
        /\ loads' = [loads EXCEPT ![w] = loads[w] \ {l}]
        /\ UNCHANGED <<disk, calls, tool, events, used>>
        /\ l.why = "overwrite"
    BY WindowTyped DEF OverwriteReturns, Types
  <1>1. CASE l.pc = "read"
    <2> DEFINE e == [entry[w] EXCEPT !.base = l.got.at, !.root = l.got.at, !.dirty = TRUE,
                                     !.conflict = FALSE, !.saveErr = FALSE]
    <2>1. l.got.at \in Versions /\ Before(l.got.at, disk.at)
      BY <1>1 DEF Win, Revisions, Older, Reads
    <2>2. e \in EntryType
      BY <1>0, <2>1 DEF EntryType
    <2>3. /\ e.doc = entry[w].doc /\ e.past = entry[w].past /\ e.future = entry[w].future
          /\ e.saving = entry[w].saving /\ e.job = entry[w].job
          /\ e.base = l.got.at /\ e.root = l.got.at /\ e.dirty
      BY <1>0 DEF EntryType
    <2>4. PatchAndSave(w, e)
      BY <1>1 DEF OverwriteReturns
    <2> HIDE DEF e
    <2> QED BY <1>0, <2>1, <2>2, <2>3, <2>4, SaveGood
  <1>2. CASE l.pc # "read"
    <2> DEFINE e == [entry[w] EXCEPT !.saveErr = TRUE]
    <2>1. /\ e \in EntryType /\ e.doc = entry[w].doc /\ e.past = entry[w].past
          /\ e.future = entry[w].future /\ e.saving = entry[w].saving /\ e.job = entry[w].job
          /\ e.base = entry[w].base /\ e.root = entry[w].root /\ e.dirty = entry[w].dirty
          /\ e.conflict = entry[w].conflict /\ e.saveErr
      BY <1>0 DEF EntryType
    <2>2. Patch(w, e) /\ UNCHANGED flight
      BY <1>2 DEF OverwriteReturns
    <2> HIDE DEF e
    <2>3. entry'[w] = e /\ loads'[w] = loads[w] \ {l} /\ Others(w) /\ NewDisk /\ Types'
      BY <1>0, <2>1, <2>2 DEF Patch, Types, Others, NewDisk
    <2>4. Shown(w)' /\ Based(w)' /\ Clean(w)' /\ NotStranded(w)' /\ Undoable(w)'
      BY <1>0, <2>1, <2>2, <2>3 DEF Win, Shown, Based, Clean, NotStranded, Undoable
    <2>5. Revisions(w)' /\ JobEnds(w)'
      BY <1>0, <2>1, <2>2, <2>3 DEF Win, Revisions, Older, JobEnds
    <2> QED BY <2>3, <2>4, <2>5 DEF Good, Win
  <1> QED BY <1>1, <1>2

\* A document read takes the place of what was shown.
LEMMA LoadedGood ==
    ASSUME Types, NEW w \in Windows, Win(w), NEW e \in EntryType, NEW g, Older(g),
           Patch(w, Loaded(e, g)), Forget(w), e.saving = entry[w].saving,
           UNCHANGED <<disk, timer, calls, events, used>>,
           loads' \in [Windows -> SUBSET LoadType], loads'[w] \subseteq loads[w],
           tool' \in [Windows -> [Tools -> ToolType]],
           \A c \in Tools : tool'[w][c] = tool[w][c] \/ tool'[w][c] = NoTool,
           \A v \in Windows \ {w} : loads'[v] = loads[v] /\ tool'[v] = tool[v],
           e.job => entry[w].job /\ tool'[w]["transcribe"] = tool[w]["transcribe"]
                    /\ \A l \in loads[w] : l.why = "settle" => l \in loads'[w]
    PROVE  Good(w)
  <1> DEFINE n == Loaded(e, g)
             f == [flight[w] EXCEPT !.same = FALSE]
  <1>0. g \in Reads /\ Before(g.at, disk.at) /\ (g.at = disk.at => g.doc = Content(disk))
    BY ReadIs, WindowTyped DEF Older
  <1>1. /\ n \in EntryType /\ n.doc = g.doc /\ n.base = g.at
        /\ n.root = g.at /\ ~n.dirty /\ ~n.conflict /\ n.saving = e.saving
        /\ n.job = e.job /\ n.past = <<>> /\ n.future = <<>>
    BY <1>0, LoadedIs
  <1>2. f \in FlightType /\ f.pc = flight[w].pc /\ f.base = flight[w].base
        /\ f.root = flight[w].root /\ f.doc = flight[w].doc
    BY WindowTyped DEF FlightType
  <1>3. Patch(w, n) /\ flight' = [flight EXCEPT ![w] = f]
    BY DEF Forget, Types
  <1> HIDE DEF n, f
  <1>4. entry'[w] = n /\ flight'[w] = f
    BY <1>3 DEF Patch, Types
  <1>5. Others(w) /\ NewDisk /\ Types'
    BY <1>1, <1>2, <1>3 DEF Patch, Types, Others, NewDisk
  <1>6. Shown(w)' /\ NotStranded(w)' /\ Undoable(w)'
    BY <1>1, <1>2, <1>4 DEF Win, Shown, NotStranded, Undoable
  <1>7. Revisions(w)'
    <2>1. \A c \in Tools : tool'[w][c].pc = "wrote" => Older(tool'[w][c].got)
      BY DEF NoTool, Win, Revisions
    <2> QED BY <1>0, <1>1, <1>2, <1>4, <2>1 DEF Win, Revisions, Older
  <1>8. Based(w)' /\ Clean(w)'
    BY <1>0, <1>1, <1>2, <1>4 DEF Win, Based, Clean
  <1>9. JobEnds(w)'
    BY <1>1, <1>4 DEF Win, JobEnds
  <1> QED BY <1>5, <1>6, <1>7, <1>8, <1>9 DEF Good, Win

LEMMA ReloadGood ==
    ASSUME Types, NEW w \in Windows, Win(w), NEW l \in loads[w], ReloadReturns(w, l)
    PROVE  Good(w)
  <1> DEFINE e == [entry[w] EXCEPT !.job = (l.why # "settle") /\ @]
  <1>1. entry[w] \in EntryType /\ loads[w] \ {l} \subseteq LoadType
    BY WindowTyped
  <1>2. /\ e \in EntryType /\ e.doc = entry[w].doc /\ e.past = entry[w].past
        /\ e.future = entry[w].future /\ e.saving = entry[w].saving
        /\ e.job = ((l.why # "settle") /\ entry[w].job)
        /\ e.base = entry[w].base /\ e.root = entry[w].root /\ e.dirty = entry[w].dirty
        /\ e.conflict = entry[w].conflict
    BY <1>1 DEF EntryType
  <1>3. /\ loads' = [loads EXCEPT ![w] = @ \ {l}]
        /\ IF l.pc = "read" THEN Patch(w, Loaded(e, l.got)) /\ Forget(w)
                            ELSE Patch(w, [e EXCEPT !.loadErr = TRUE]) /\ UNCHANGED flight
        /\ UNCHANGED <<disk, timer, calls, tool, events, used>>
    BY DEF ReloadReturns
  <1> HIDE DEF e
  <1>4. loads' \in [Windows -> SUBSET LoadType] /\ loads'[w] = loads[w] \ {l}
        /\ \A v \in Windows \ {w} : loads'[v] = loads[v]
    BY <1>1, <1>3 DEF Types
  <1>5. CASE l.pc = "read"
    <2>1. Older(l.got) /\ tool' \in [Windows -> [Tools -> ToolType]]
      BY <1>3, <1>5 DEF Win, Revisions, Types
    <2>2. e.job => entry[w].job /\ \A k \in loads[w] : k.why = "settle" => k \in loads'[w]
      BY <1>2, <1>4
    <2> QED BY <1>2, <1>3, <1>4, <1>5, <2>1, <2>2, LoadedGood
  <1>6. CASE l.pc # "read"
    <2> DEFINE n == [e EXCEPT !.loadErr = TRUE]
    <2>1. /\ n \in EntryType /\ n.doc = e.doc /\ n.past = e.past /\ n.future = e.future
          /\ n.saving = e.saving /\ n.job = e.job /\ n.base = e.base /\ n.root = e.root
          /\ n.dirty = e.dirty /\ n.conflict = e.conflict /\ n.loadErr
      BY <1>2 DEF EntryType
    <2>2. Patch(w, n) /\ UNCHANGED <<disk, flight, timer, calls, tool, events, used>>
      BY <1>3, <1>6
    <2> HIDE DEF n
    <2>3. entry'[w] = n /\ Others(w) /\ NewDisk /\ Types'
      BY <1>4, <2>1, <2>2 DEF Patch, Types, Others, NewDisk
    <2>4. Shown(w)' /\ Based(w)' /\ Clean(w)' /\ NotStranded(w)' /\ Undoable(w)'
      BY <1>2, <1>4, <2>1, <2>2, <2>3 DEF Win, Shown, Based, Clean, NotStranded, Undoable
    <2>5. Revisions(w)' /\ JobEnds(w)'
      BY <1>2, <1>4, <2>1, <2>2, <2>3 DEF Win, Revisions, Older, JobEnds
    <2> QED BY <2>3, <2>4, <2>5 DEF Good, Win
  <1> QED BY <1>5, <1>6

LEMMA SettleGood ==
    ASSUME Types, NEW w \in Windows, Win(w), NEW c \in Tools, SettleByAnswer(w, c)
    PROVE  Good(w)
  <1> DEFINE e == [entry[w] EXCEPT !.job = c # "transcribe" /\ @]
  <1>1. entry[w] \in EntryType /\ tool[w] \in [Tools -> ToolType]
    BY WindowTyped
  <1>2. /\ e \in EntryType /\ e.doc = entry[w].doc /\ e.past = entry[w].past
        /\ e.future = entry[w].future /\ e.saving = entry[w].saving
        /\ e.job = (c # "transcribe" /\ entry[w].job)
        /\ e.base = entry[w].base /\ e.root = entry[w].root /\ e.dirty = entry[w].dirty
        /\ e.conflict = entry[w].conflict /\ e.saveErr = entry[w].saveErr
        /\ e.loadErr = entry[w].loadErr
    BY <1>1 DEF EntryType
  <1>3. /\ tool' = [tool EXCEPT ![w][c] = NoTool]
        /\ tool[w][c].pc \in {"wrote", "failed"}
        /\ IF tool[w][c].pc = "wrote" THEN Patch(w, Loaded(e, tool[w][c].got)) /\ Forget(w)
                                      ELSE Patch(w, e) /\ UNCHANGED flight
        /\ UNCHANGED <<disk, timer, loads, calls, events, used>>
    BY DEF SettleByAnswer
  <1> HIDE DEF e
  <1>4. NoTool \in ToolType
    BY NothingTyped DEF NoTool, ToolType
  <1>5. tool' \in [Windows -> [Tools -> ToolType]]
        /\ tool'[w][c] = NoTool
        /\ \A d \in Tools \ {c} : tool'[w][d] = tool[w][d]
        /\ \A v \in Windows \ {w} : tool'[v] = tool[v]
    <2>1. tool' = [tool EXCEPT ![w] = [tool[w] EXCEPT ![c] = NoTool]]
      BY <1>3 DEF Types
    <2>2. [tool[w] EXCEPT ![c] = NoTool] \in [Tools -> ToolType]
      BY <1>1, <1>4
    <2>3. tool' \in [Windows -> [Tools -> ToolType]]
      BY <2>1, <2>2 DEF Types
    <2>4. tool'[w] = [tool[w] EXCEPT ![c] = NoTool]
      BY <2>1 DEF Types
    <2>5. tool'[w][c] = NoTool /\ \A d \in Tools \ {c} : tool'[w][d] = tool[w][d]
      BY <1>1, <2>4
    <2>6. \A v \in Windows \ {w} : tool'[v] = tool[v]
      BY <2>1 DEF Types
    <2> QED BY <2>3, <2>5, <2>6
  <1>6. "transcribe" \in Tools
    BY DEF Tools
  <1>7. CASE tool[w][c].pc = "wrote"
    <2>1. Older(tool[w][c].got) /\ loads' \in [Windows -> SUBSET LoadType]
      BY <1>3, <1>7 DEF Win, Revisions, Types
    <2> QED BY <1>2, <1>3, <1>5, <1>6, <1>7, <2>1, LoadedGood
  <1>8. CASE tool[w][c].pc # "wrote"
    <2>1. entry'[w] = e /\ Others(w) /\ NewDisk /\ Types'
      <3>1. entry' = [entry EXCEPT ![w] = e] /\ UNCHANGED flight
        BY <1>3, <1>8 DEF Patch
      <3>2. entry'[w] = e /\ Others(w)
        BY <1>3, <1>5, <3>1 DEF Types, Others
      <3>3. NewDisk /\ Types'
        BY <1>2, <1>3, <1>5, <3>1 DEF Types, NewDisk
      <3> QED BY <3>2, <3>3
    <2>2. Shown(w)' /\ Based(w)' /\ Clean(w)' /\ NotStranded(w)' /\ Undoable(w)'
      BY <1>2, <1>3, <1>8, <2>1 DEF Win, Shown, Based, Clean, NotStranded, Undoable
    <2>3. \A d \in Tools : tool'[w][d].pc = "wrote" => Older(tool'[w][d].got)
      <3>1. NoTool.pc # "wrote"
        BY DEF NoTool
      <3>2. \A d \in Tools : tool[w][d].pc = "wrote" => Older(tool[w][d].got)
        BY DEF Win, Revisions
      <3> QED BY <1>5, <3>1, <3>2
    <2>4. Revisions(w)'
      BY <1>2, <1>3, <1>8, <2>1, <2>3 DEF Win, Revisions, Older
    <2>5. JobEnds(w)'
      BY <1>2, <1>3, <1>5, <1>6, <2>1 DEF Win, JobEnds
    <2> QED BY <2>1, <2>2, <2>4, <2>5 DEF Good, Win
  <1> QED BY <1>7, <1>8

\* The answer of a save, and the save that may follow it.
LEMMA SaveReturnsGood ==
    ASSUME Types, NEW w \in Windows, Win(w), SaveReturns(w) PROVE Good(w)
  <1> DEFINE e == Answered(w)
  <1>0. entry[w] \in EntryType /\ flight[w] \in FlightType /\ flight[w].pc # "none"
    BY WindowTyped DEF SaveReturns
  <1>1. /\ e \in EntryType /\ e.doc = entry[w].doc /\ e.past = entry[w].past
        /\ e.future = entry[w].future /\ ~e.saving /\ e.job = entry[w].job
    <2>1. CASE flight[w].pc = "saved"
      BY <1>0, <2>1 DEF Answered, EntryType, FlightType, StillDirty
    <2>2. CASE flight[w].pc # "saved"
      BY <1>0, <2>2 DEF Answered, EntryType
    <2> QED BY <2>1, <2>2
  <1>2. /\ Before(e.base, disk.at)
        /\ e.base = disk.at => e.root = disk.at \/ disk.by = w
        /\ ~e.dirty /\ e.base = disk.at /\ e.doc # NoDoc => e.doc = Content(disk)
    <2>1. CASE flight[w].pc = "saved"
      <3>1. e.base = flight[w].base
            /\ (e.dirty \/ (flight[w].same /\ entry[w].doc = flight[w].doc))
        BY <1>0, <2>1 DEF Answered, EntryType, StillDirty
      <3> QED BY <1>1, <2>1, <3>1 DEF Win, Revisions, Based
    <2>2. CASE flight[w].pc # "saved"
      <3>1. e.base = entry[w].base /\ e.root = entry[w].root /\ e.dirty = entry[w].dirty
        BY <1>0, <2>2 DEF Answered, EntryType
      <3> QED BY <1>0, <1>1, <3>1 DEF Win, Revisions, Based, Clean
    <2> QED BY <2>1, <2>2
  <1> DEFINE again == ~e.saveErr /\ SendsSave(e)
             n == IF again THEN [e EXCEPT !.saving = TRUE] ELSE e
             f == IF again THEN SaveOf(e) ELSE NoFlight
  <1>3. entry' = [entry EXCEPT ![w] = n] /\ flight' = [flight EXCEPT ![w] = f]
        /\ UNCHANGED <<disk, timer, loads, calls, tool, events, used>>
    BY DEF SaveReturns, Patch
  <1>4. /\ NoFlight \in FlightType /\ NoFlight.pc = "none"
        /\ NoFlight.base = NoVersion /\ NoFlight.root = NoVersion /\ Before(NoVersion, disk.at)
    BY NothingTyped, BeforeItself, WindowTyped DEF NoFlight, FlightType
  <1>5. n \in EntryType /\ f \in FlightType
    BY <1>1, <1>4, SaveOfTyped DEF EntryType
  <1>6. /\ n.doc = e.doc /\ n.past = e.past /\ n.future = e.future /\ n.job = e.job
        /\ n.base = e.base /\ n.root = e.root /\ n.dirty = e.dirty /\ n.conflict = e.conflict
        /\ n.saveErr = e.saveErr
        /\ again => n.saving /\ f.pc = "asked" /\ f.base = e.base /\ f.root = e.root
                    /\ f.doc = e.doc
        /\ ~again => ~n.saving /\ f = NoFlight
        /\ again => e.doc # NoDoc
    BY <1>1 DEF EntryType, SaveOf, SendsSave, Savable
  <1>7. e.doc # NoDoc /\ e.dirty /\ ~e.conflict /\ ~e.saveErr => again
    BY <1>1 DEF SendsSave, Savable
  <1> HIDE DEF e, n, f, again
  <1>8. entry'[w] = n /\ flight'[w] = f
    BY <1>3 DEF Types
  <1>9. Others(w) /\ NewDisk /\ Types'
    BY <1>3, <1>5 DEF Types, Others, NewDisk
  <1>10. Shown(w)' /\ NotStranded(w)'
    BY <1>0, <1>1, <1>3, <1>4, <1>6, <1>7, <1>8 DEF Win, Shown, NotStranded
  <1>11. Revisions(w)'
    BY <1>2, <1>3, <1>4, <1>6, <1>8, WindowTyped DEF Win, Revisions, Older
  <1>12. Based(w)' /\ Clean(w)'
    BY <1>2, <1>3, <1>4, <1>6, <1>8 DEF Based, Clean
  <1>13. Undoable(w)' /\ JobEnds(w)'
    BY <1>1, <1>3, <1>6, <1>8 DEF Win, Undoable, JobEnds
  <1> QED BY <1>9, <1>10, <1>11, <1>12, <1>13 DEF Good, Win

\* One more load is on its way.
LEMMA StartLoadGood ==
    ASSUME Types, NEW w \in Windows, Win(w),
           NEW why \in {"reload", "changed", "overwrite", "settle"}, StartLoad(w, why),
           UNCHANGED <<disk, entry, flight, calls, used>>,
           events' \in [Windows -> SUBSET Versions],
           NEW t \in [Tools -> ToolType], tool' = [tool EXCEPT ![w] = t],
           \A c \in Tools : t[c] = tool[w][c] \/ t[c] = NoTool,
           t = tool[w] \/ why = "settle"
    PROVE  Good(w)
  <1> DEFINE l == [why |-> why, pc |-> "asked", got |-> Unread]
             b == (why = "overwrite") /\ timer[w]
  <1>1. l \in LoadType /\ l.why = why /\ l.pc = "asked"
    BY NothingTyped DEF LoadType
  <1>2. loads' = [loads EXCEPT ![w] = loads[w] \cup {l}] /\ timer' = [timer EXCEPT ![w] = b]
    BY DEF StartLoad
  <1> HIDE DEF l
  <1>3. loads'[w] = loads[w] \cup {l} /\ tool'[w] = t /\ Others(w) /\ NewDisk /\ Types'
    BY <1>1, <1>2, WindowTyped DEF Types, Others, NewDisk
  <1>4. Shown(w)' /\ NotStranded(w)'
    BY <1>1, <1>3 DEF Win, Shown, NotStranded
  <1>5. Revisions(w)'
    <2>1. \A c \in Tools : tool'[w][c].pc = "wrote" => Older(tool'[w][c].got)
      BY DEF NoTool, Win, Revisions
    <2> QED BY <1>1, <1>3, <2>1 DEF Win, Revisions, Older
  <1>6. Based(w)' /\ Clean(w)' /\ Undoable(w)'
    BY <1>1, <1>3 DEF Win, Based, Clean, Undoable
  <1>7. JobEnds(w)'
    BY <1>1, <1>3 DEF Win, JobEnds
  <1> QED BY <1>3, <1>4, <1>5, <1>6, <1>7 DEF Good, Win

LEMMA ClickGood ==
    ASSUME Types, NEW w \in Windows, Win(w), ClickReload(w) \/ ClickOverwrite(w)
    PROVE  Good(w)
  <1>1. PICK why \in {"reload", "overwrite"} : StartLoad(w, why)
    BY DEF ClickReload, ClickOverwrite
  <1>2. UNCHANGED <<disk, entry, flight, calls, tool, events, used>>
    BY DEF ClickReload, ClickOverwrite
  <1>3. events' \in [Windows -> SUBSET Versions] /\ tool' = [tool EXCEPT ![w] = tool[w]]
        /\ tool[w] \in [Tools -> ToolType]
    BY <1>2, WindowTyped DEF Types
  <1> QED BY <1>1, <1>2, <1>3, StartLoadGood

LEMMA ChangedGood ==
    ASSUME Types, NEW w \in Windows, Win(w), NEW r, Changed(w, r) PROVE Good(w)
  <1>1. /\ events' \in [Windows -> SUBSET Versions] /\ tool' = [tool EXCEPT ![w] = tool[w]]
        /\ UNCHANGED <<disk, flight, calls, tool, used>> /\ entry[w] \in EntryType
        /\ tool[w] \in [Tools -> ToolType]
    BY WindowTyped DEF Changed, Types
  <1>2. CASE OwnEvent(w, r) /\ UNCHANGED <<entry, timer, loads>>
    <2>1. Types' /\ Others(w) /\ NewDisk
      BY <1>1, <1>2 DEF Types, Others, NewDisk
    <2>2. Win(w)'
      BY <1>1, <1>2, <2>1, WinFrame
    <2> QED BY <2>1, <2>2 DEF Good
  <1>3. CASE entry[w].dirty /\ Patch(w, [entry[w] EXCEPT !.conflict = TRUE])
             /\ UNCHANGED <<timer, loads>>
    <2> DEFINE e == [entry[w] EXCEPT !.conflict = TRUE]
    <2>1. /\ e \in EntryType /\ e.doc = entry[w].doc /\ e.past = entry[w].past
          /\ e.future = entry[w].future /\ e.saving = entry[w].saving /\ e.job = entry[w].job
          /\ e.base = entry[w].base /\ e.root = entry[w].root /\ e.dirty = entry[w].dirty
          /\ e.conflict
      BY <1>1 DEF EntryType
    <2>2. Patch(w, e)
      BY <1>3
    <2> HIDE DEF e
    <2>3. entry'[w] = e /\ Others(w) /\ NewDisk /\ Types'
      BY <1>1, <1>3, <2>1, <2>2 DEF Patch, Types, Others, NewDisk
    <2>4. Shown(w)' /\ NotStranded(w)'
      BY <1>1, <1>3, <2>1, <2>3 DEF Win, Shown, NotStranded
    <2>6. Based(w)' /\ Clean(w)' /\ Undoable(w)'
      <3>1. Based(w)'
        BY <1>1, <2>1, <2>3 DEF Win, Based
      <3>2. Clean(w)'
        BY <1>3, <2>1, <2>3 DEF Clean
      <3>3. Undoable(w)'
        BY <2>1, <2>3 DEF Win, Undoable
      <3> QED BY <3>1, <3>2, <3>3
    <2>5. Revisions(w)' /\ JobEnds(w)'
      BY <1>1, <1>3, <2>1, <2>3 DEF Win, Revisions, Older, JobEnds
    <2> QED BY <2>3, <2>4, <2>5, <2>6 DEF Good, Win
  <1>4. CASE StartLoad(w, "changed") /\ UNCHANGED entry
    BY <1>1, <1>4, StartLoadGood
  <1> QED BY <1>2, <1>3, <1>4 DEF Changed

LEMMA SettleByEventGood ==
    ASSUME Types, NEW w \in Windows, Win(w), SettleByEvent(w) PROVE Good(w)
  <1> DEFINE t == [tool[w] EXCEPT !["transcribe"] = NoTool]
  <1>1. tool[w] \in [Tools -> ToolType] /\ NoTool \in ToolType /\ "transcribe" \in Tools
    BY WindowTyped, NothingTyped DEF NoTool, ToolType, Tools
  <1>2. tool' = [tool EXCEPT ![w] = t]
    BY DEF SettleByEvent, Types
  <1>3. t \in [Tools -> ToolType] /\ \A c \in Tools : t[c] = tool[w][c] \/ t[c] = NoTool
    BY <1>1
  <1>4. StartLoad(w, "settle") /\ UNCHANGED <<disk, entry, flight, calls, used>>
        /\ events' \in [Windows -> SUBSET Versions]
    BY DEF SettleByEvent, Types
  <1> HIDE DEF t
  <1> QED BY <1>2, <1>3, <1>4, StartLoadGood

LEMMA FlushCalledGood ==
    ASSUME Types, NEW w \in Windows, Win(w), NEW c \in Calls, FlushCalled(w, c)
    PROVE  Good(w)
  <1> DEFINE e == [entry[w] EXCEPT !.saveErr = FALSE]
  <1>1. entry[w] \in EntryType /\ calls[w] \cup {c} \in SUBSET Calls
    BY WindowTyped
  <1>2. /\ e \in EntryType /\ e.doc = entry[w].doc /\ e.past = entry[w].past
        /\ e.future = entry[w].future /\ e.saving = entry[w].saving /\ e.job = entry[w].job
        /\ e.base = entry[w].base /\ e.root = entry[w].root /\ e.dirty = entry[w].dirty
        /\ e.conflict = entry[w].conflict
    BY <1>1 DEF EntryType
  <1>3. /\ Patch(w, e) /\ calls' = [calls EXCEPT ![w] = calls[w] \cup {c}]
        /\ timer' = [timer EXCEPT ![w] = FALSE]
        /\ UNCHANGED <<disk, flight, loads, tool, events, used>>
    BY DEF FlushCalled
  <1> HIDE DEF e
  <1>4. entry'[w] = e /\ calls'[w] # {} /\ Others(w) /\ NewDisk /\ Types'
    BY <1>1, <1>2, <1>3 DEF Patch, Types, Others, NewDisk
  <1>5. Shown(w)' /\ Based(w)' /\ Clean(w)' /\ NotStranded(w)' /\ Undoable(w)'
    BY <1>2, <1>3, <1>4 DEF Win, Shown, Based, Clean, NotStranded, Undoable
  <1>6. Revisions(w)' /\ JobEnds(w)'
    BY <1>2, <1>3, <1>4 DEF Win, Revisions, Older, JobEnds
  <1> QED BY <1>4, <1>5, <1>6 DEF Good, Win

LEMMA FlushReturnsGood ==
    ASSUME Types, NEW w \in Windows, Win(w), NEW c \in calls[w], FlushReturns(w, c)
    PROVE  Good(w)
  <1> DEFINE go == c \in Tools /\ ~(c = "transcribe" /\ entry[w].job)
             e == IF go THEN [entry[w] EXCEPT !.job = @ \/ c = "transcribe"] ELSE entry[w]
             t == IF go THEN [tool[w] EXCEPT ![c] = [tool[w][c] EXCEPT !.pc = "running"]]
                        ELSE tool[w]
  <1>1. entry[w] \in EntryType /\ tool[w] \in [Tools -> ToolType] /\ calls[w] \ {c} \in SUBSET Calls
    BY WindowTyped
  <1>2. /\ e \in EntryType /\ e.doc = entry[w].doc /\ e.past = entry[w].past
        /\ e.future = entry[w].future /\ e.saving = entry[w].saving
        /\ e.base = entry[w].base /\ e.root = entry[w].root /\ e.dirty = entry[w].dirty
        /\ e.conflict = entry[w].conflict /\ e.saveErr = entry[w].saveErr
        /\ e.loadErr = entry[w].loadErr
        /\ e.job => entry[w].job \/ (go /\ c = "transcribe")
    BY <1>1 DEF EntryType
  <1>3. /\ t \in [Tools -> ToolType]
        /\ \A d \in Tools : t[d] = tool[w][d] \/ t[d].pc = "running"
        /\ go => t[c].pc = "running"
    <2>1. CASE go
      <3>1. [tool[w][c] EXCEPT !.pc = "running"] \in ToolType
            /\ [tool[w][c] EXCEPT !.pc = "running"].pc = "running"
        BY <1>1, <2>1 DEF ToolType
      <3> QED BY <1>1, <2>1, <3>1
    <2>2. CASE ~go
      BY <1>1, <2>2
    <2> QED BY <2>1, <2>2
  <1>4. /\ entry' = [entry EXCEPT ![w] = e] /\ tool' = [tool EXCEPT ![w] = t]
        /\ calls' = [calls EXCEPT ![w] = calls[w] \ {c}]
        /\ UNCHANGED <<disk, timer, flight, loads, events, used>>
    <2>1. CASE go
      BY <2>1 DEF FlushReturns, Patch, Types
    <2>2. CASE ~go
      BY <2>2 DEF FlushReturns, Types
    <2> QED BY <2>1, <2>2
  <1>5. FlushOk(entry[w]) \/ FlushGivesUp(entry[w])
    BY DEF FlushReturns
  <1> HIDE DEF e, t, go
  <1>6. entry'[w] = e /\ tool'[w] = t /\ Others(w) /\ NewDisk /\ Types'
    BY <1>1, <1>2, <1>3, <1>4 DEF Types, Others, NewDisk
  <1>7. Shown(w)' /\ Based(w)' /\ Clean(w)' /\ Undoable(w)'
    BY <1>2, <1>4, <1>6 DEF Win, Shown, Based, Clean, Undoable
  <1>8. NotStranded(w)'
    BY <1>2, <1>4, <1>5, <1>6 DEF Win, Shown, NotStranded, FlushOk, FlushGivesUp
  <1>9. Revisions(w)'
    BY <1>2, <1>3, <1>4, <1>6 DEF Win, Revisions, Older
  <1>10. JobEnds(w)'
    <2>1. "transcribe" \in Tools
      BY DEF Tools
    <2> QED BY <1>2, <1>3, <1>4, <1>6, <2>1 DEF Win, JobEnds
  <1> QED BY <1>6, <1>7, <1>8, <1>9, <1>10 DEF Good, Win

-----------------------------------------------------------------------------
(* The steps of the back end. *)

\* A write is announced to every window.
LEMMA WriteIs ==
    ASSUME Types, NEW d \in Files, Write(d)
    PROVE  disk' \in Files /\ disk' = d /\ events' \in [Windows -> SUBSET Versions]
  <1>1. \A v \in Windows : events[v] \cup {d.at} \in SUBSET Versions
    BY DEF Types, Files
  <1> QED BY <1>1 DEF Write

LEMMA SaveAtGood ==
    ASSUME Types, NEW w \in Windows, Win(w), SaveAt(w) PROVE Good(w)
  <1> DEFINE d == Written(flight[w].doc.gen, flight[w].doc.ed, w)
             f == [flight[w] EXCEPT !.pc = "saved", !.base = NextAt, !.root = NextAt]
  <1>0. disk \in Files /\ disk.at \in Versions /\ flight[w] \in FlightType
        /\ entry[w].base \in Versions
    BY WindowTyped DEF EntryType
  <1>1. flight[w].doc \in RealDocs
    BY <1>0 DEF SaveAt, Win, Shown, FlightType, Docs
  <1>2. d \in Files /\ d.at = NextAt /\ d.by = w /\ Content(d) = flight[w].doc
    BY <1>0, <1>1, WrittenIs DEF RealDocs
  <1>3. f \in FlightType /\ f.pc = "saved" /\ f.base = NextAt
        /\ f.doc = flight[w].doc /\ f.root = NextAt
    <2>1. NextAt \in Versions
      BY <1>0, NextIs
    <2>2. \A r \in Versions : LET g == [flight[w] EXCEPT !.pc = "saved", !.base = r, !.root = r] IN
            /\ g \in FlightType /\ g.pc = "saved" /\ g.base = r
            /\ g.doc = flight[w].doc /\ g.root = r
      BY <1>0 DEF FlightType
    <2> QED BY <2>1, <2>2
  <1>4. Write(d) /\ flight' = [flight EXCEPT ![w] = f] /\ flight[w].pc = "asked"
        /\ UNCHANGED <<entry, timer, loads, calls, tool, used>>
    BY <1>0 DEF SaveAt, Types
  <1> HIDE DEF d, f
  <1>5. disk' = d /\ disk'.at = NextAt /\ events' \in [Windows -> SUBSET Versions]
    BY <1>2, <1>4, WriteIs
  <1>6. flight'[w] = f /\ Others(w) /\ NewDisk /\ Types'
    BY <1>0, <1>2, <1>3, <1>4, <1>5, NextIs DEF Types, Others, NewDisk
  <1>7. Shown(w)' /\ NotStranded(w)' /\ Undoable(w)' /\ JobEnds(w)'
    BY <1>1, <1>3, <1>4, <1>6, RealIsShown DEF Win, Shown, NotStranded, Undoable, JobEnds
  <1>8. Before(entry[w].base, disk'.at) /\ entry[w].base # disk'.at /\ disk'.at \in Versions
    BY <1>0, <1>2, <1>5, NextIs, BeforeStays DEF Win, Revisions
  <1>9. Revisions(w)'
    <2>1. \A g : Older(g) => Older(g)'
      BY <1>6, OlderStays
    <2>2. Before(entry'[w].base, disk'.at) /\ Before(flight'[w].base, disk'.at)
      BY <1>3, <1>4, <1>5, <1>6, <1>8, BeforeItself
    <2> QED BY <1>4, <2>1, <2>2 DEF Win, Revisions
  <1>10. Based(w)' /\ Clean(w)'
    <2>1. disk'.by = w /\ flight'[w].doc = Content(disk')
      BY <1>2, <1>3, <1>5, <1>6
    <2>2. entry'[w].base # disk'.at
      BY <1>4, <1>8
    <2> QED BY <2>1, <2>2 DEF Based, Clean
  <1> QED BY <1>6, <1>7, <1>9, <1>10 DEF Good, Win

\* A save that is not made is forgotten but for how it ended.
LEMMA SaveAnsweredGood ==
    ASSUME Types, NEW w \in Windows, Win(w), SaveRefused(w) \/ SaveFails(w) PROVE Good(w)
  <1>1. PICK p \in {"conflict", "failed"} :
          flight' = [flight EXCEPT ![w] = [NoFlight EXCEPT !.pc = p]]
    BY DEF SaveRefused, SaveFails
  <1> DEFINE f == [NoFlight EXCEPT !.pc = p]
  <1>2. f \in FlightType /\ f.pc = p /\ f.base = NoVersion /\ f.root = NoVersion
        /\ Before(NoVersion, disk.at)
    BY NothingTyped, BeforeItself, WindowTyped DEF FlightType, NoFlight
  <1>3. flight' = [flight EXCEPT ![w] = f] /\ flight[w].pc = "asked"
        /\ UNCHANGED <<disk, entry, timer, loads, calls, tool, events, used>>
    BY <1>1 DEF SaveRefused, SaveFails, Types
  <1> HIDE DEF f
  <1>4. flight'[w] = f /\ Others(w) /\ NewDisk /\ Types'
    BY <1>2, <1>3 DEF Types, Others, NewDisk
  <1>5. Shown(w)' /\ NotStranded(w)' /\ Undoable(w)' /\ JobEnds(w)'
    BY <1>2, <1>3, <1>4 DEF Win, Shown, NotStranded, Undoable, JobEnds
  <1>6. Revisions(w)'
    BY <1>2, <1>3, <1>4, OlderStays DEF Win, Revisions
  <1>7. Based(w)' /\ Clean(w)'
    BY <1>2, <1>3, <1>4 DEF Win, Based, Clean, Content
  <1> QED BY <1>4, <1>5, <1>6, <1>7 DEF Good, Win

LEMMA LoadReadGood ==
    ASSUME Types, NEW w \in Windows, Win(w), NEW l \in loads[w], LoadAt(w, l) \/ LoadFails(w, l)
    PROVE  Good(w)
  <1>0. loads[w] \subseteq LoadType /\ Read(disk) \in Reads /\ Read(disk).at = disk.at
        /\ disk.at \in Versions
    BY WindowTyped, ReadIs
  <1>1. PICK k \in LoadType : /\ k.why = l.why /\ k.pc \in {"read", "failed"}
                              /\ k.pc = "read" => k.got = Read(disk)
                              /\ loads' = [loads EXCEPT ![w] = (loads[w] \ {l}) \cup {k}]
    <2>1. CASE LoadAt(w, l)
      <3>1. [l EXCEPT !.pc = "read", !.got = Read(disk)] \in LoadType
        BY <1>0 DEF LoadType
      <3> QED BY <1>0, <2>1, <3>1 DEF LoadAt, LoadType
    <2>2. CASE LoadFails(w, l)
      <3>1. [l EXCEPT !.pc = "failed"] \in LoadType
        BY <1>0 DEF LoadType
      <3> QED BY <1>0, <2>2, <3>1 DEF LoadFails, LoadType
    <2> QED BY <2>1, <2>2
  <1>2. UNCHANGED <<disk, entry, timer, flight, calls, tool, events, used>>
    BY DEF LoadAt, LoadFails
  <1>3. loads'[w] = (loads[w] \ {l}) \cup {k} /\ Others(w) /\ NewDisk /\ Types'
    BY <1>0, <1>1, <1>2 DEF Types, Others, NewDisk
  <1>4. Shown(w)' /\ NotStranded(w)'
    BY <1>1, <1>2, <1>3 DEF Win, Shown, NotStranded
  <1>5. Revisions(w)'
    <2>1. Older(Read(disk))
      BY <1>0, BeforeItself DEF Older
    <2>2. \A g : Older(g) => Older(g)'
      BY <1>3, OlderStays
    <2> QED BY <1>1, <1>2, <1>3, <2>1, <2>2 DEF Win, Revisions
  <1>6. Based(w)' /\ Clean(w)' /\ Undoable(w)' /\ JobEnds(w)'
    BY <1>1, <1>2, <1>3 DEF Win, Based, Clean, Undoable, JobEnds
  <1> QED BY <1>3, <1>4, <1>5, <1>6 DEF Good, Win

LEMMA ToolGood ==
    ASSUME Types, NEW w \in Windows, Win(w), NEW c \in Tools, ToolWrites(w, c) \/ ToolFails(w, c)
    PROVE  Good(w)
  <1>0. tool[w] \in [Tools -> ToolType] /\ disk \in Files
        /\ entry[w].base \in Versions /\ flight[w].base \in Versions
    BY WindowTyped DEF EntryType, FlightType
  <1>1. /\ Transcribed \in Files /\ Transcribed.at = NextAt
        /\ Read(Transcribed) \in Reads /\ Read(Transcribed).at = NextAt
    BY <1>0, TranscribedIs, ReadIs
  <1>2. PICK t \in ToolType : /\ tool' = [tool EXCEPT ![w] = [tool[w] EXCEPT ![c] = t]]
                              /\ t.pc \in {"wrote", "failed"}
                              /\ t.pc = "wrote" => t.got = Read(Transcribed) /\ ToolWrites(w, c)
                              /\ t.pc = "failed" => ToolFails(w, c)
    <2>1. CASE ToolWrites(w, c)
      <3>1. [pc |-> "wrote", got |-> Read(Transcribed)] \in ToolType
        BY <1>1 DEF ToolType
      <3> QED BY <2>1, <3>1 DEF ToolWrites, Types
    <2>2. CASE ToolFails(w, c)
      <3>1. [tool[w][c] EXCEPT !.pc = "failed"] \in ToolType
            /\ [tool[w][c] EXCEPT !.pc = "failed"].pc = "failed"
        BY <1>0 DEF ToolType
      <3> QED BY <2>2, <3>1 DEF ToolFails, Types
    <2> QED BY <2>1, <2>2
  <1>3. /\ UNCHANGED <<entry, timer, flight, loads, calls, used>>
        /\ disk' \in Files /\ events' \in [Windows -> SUBSET Versions]
        /\ disk' = disk \/ (disk' = Transcribed /\ t.pc = "wrote")
        /\ t.pc = "wrote" => disk' = Transcribed
    <2>1. CASE t.pc = "wrote"
      BY <1>1, <1>2, <2>1, WriteIs DEF ToolWrites
    <2>2. CASE t.pc = "failed"
      BY <1>0, <1>2, <2>2 DEF ToolFails, Types
    <2> QED BY <1>2, <2>1, <2>2
  <1>4. /\ tool' \in [Windows -> [Tools -> ToolType]]
        /\ tool'[w][c] = t /\ \A d \in Tools \ {c} : tool'[w][d] = tool[w][d]
        /\ \A v \in Windows \ {w} : tool'[v] = tool[v]
    <2> DEFINE s == [tool[w] EXCEPT ![c] = t]
    <2>1. s \in [Tools -> ToolType] /\ s[c] = t /\ \A d \in Tools \ {c} : s[d] = tool[w][d]
      BY <1>0, <1>2
    <2>2. tool' = [tool EXCEPT ![w] = s]
      BY <1>2
    <2> HIDE DEF s
    <2> QED BY <2>1, <2>2 DEF Types
  <1>5. Others(w) /\ NewDisk /\ Types'
    BY <1>0, <1>1, <1>3, <1>4, NextIs DEF Types, Others, NewDisk
  <1>6. Shown(w)' /\ NotStranded(w)' /\ Undoable(w)'
    BY <1>3 DEF Win, Shown, NotStranded, Undoable
  <1>7. JobEnds(w)'
    <2>1. t.pc # "none"
      BY <1>2
    <2>2. "transcribe" \in Tools
      BY DEF Tools
    <2> QED BY <1>3, <1>4, <2>1, <2>2 DEF Win, JobEnds
  <1>8. \A g : Older(g) => Older(g)'
    BY <1>5, OlderStays
  <1>9. Revisions(w)' /\ Based(w)' /\ Clean(w)'
    <2>0. Revisions(w) /\ Based(w) /\ Clean(w)
      BY DEF Win
    <2>1. \A l \in loads'[w] : l.pc = "read" => Older(l.got)'
      BY <1>3, <1>8, <2>0 DEF Revisions
    <2>2. t.pc = "wrote" => Older(t.got)'
      BY <1>0, <1>1, <1>2, <1>3, NextIs, BeforeItself DEF Older, Read, Content
    <2>3. \A d \in Tools : (tool[w][d].pc = "wrote" => Older(tool[w][d].got))'
      <3>1. \A d \in Tools \ {c} : (tool[w][d].pc = "wrote" => Older(tool[w][d].got))'
        BY <1>4, <1>8, <2>0 DEF Revisions
      <3>2. (tool[w][c].pc = "wrote" => Older(tool[w][c].got))'
        BY <1>4, <2>2
      <3> QED BY <3>1, <3>2
    <2>4. CASE disk' = disk
      <3>1. Based(w)' /\ Clean(w)'
        BY <1>3, <2>0, <2>4 DEF Based, Clean, Content
      <3> QED BY <1>3, <2>0, <2>1, <2>3, <2>4, <3>1 DEF Revisions
    <2>5. CASE After(disk'.at, disk.at)
      <3>1. /\ Before(entry'[w].base, disk'.at) /\ Before(flight'[w].base, disk'.at)
            /\ entry'[w].base # disk'.at /\ flight'[w].base # disk'.at
        BY <1>0, <1>3, <2>0, <2>5, BeforeStays DEF Revisions
      <3> QED BY <2>1, <2>3, <3>1 DEF Revisions, Based, Clean
    <2> QED BY <1>5, <2>4, <2>5 DEF NewDisk
  <1> QED BY <1>5, <1>6, <1>7, <1>9 DEF Good, Win

-----------------------------------------------------------------------------
(* Together. *)

AllWin == \A w \in Windows : Win(w)

Held == Types /\ AllWin

LEMMA StepKeepsOthers ==
    ASSUME Held, NEW w \in Windows, Good(w) PROVE Held'
  <1>1. ASSUME NEW v \in Windows \ {w} PROVE Win(v)'
    BY <1>1, WinFrame DEF Held, AllWin, Good, Others
  <1> QED BY <1>1 DEF Held, AllWin, Good

\* The file is written elsewhere, or lost.
LEMMA ElsewhereKeeps == ASSUME Held, OthersWrite \/ FileLost PROVE Held'
  <1>0. disk \in Files /\ disk.at \in Versions /\ Types
    BY DEF Held, Types, Files
  <1>1. UNCHANGED <<entry, timer, flight, loads, calls, tool, used>>
    BY DEF OthersWrite, FileLost
  <1>2. NewDisk /\ Types'
    <2>1. CASE OthersWrite
      <3> DEFINE d == Written(disk.gen, disk.ed \cup {Nobody}, Nobody)
      <3>1. disk.at.rev > 0 => d \in Files /\ d.at = NextAt
        <4>1. disk.at.rev > 0 => disk.gen \in Versions \ {NoVersion}
          BY <1>0 DEF Files, Versions
        <4>2. disk.ed \cup {Nobody} \in Texts
          BY <1>0 DEF Files, Texts
        <4> QED BY <1>0, <4>1, <4>2, WrittenIs
      <3>2. \/ disk.at.rev > 0 /\ Write(d)
            \/ Write(Transcribed)
        BY <2>1 DEF OthersWrite
      <3> HIDE DEF d
      <3>3. disk' \in Files /\ disk'.at = NextAt /\ events' \in [Windows -> SUBSET Versions]
        BY <1>0, <3>1, <3>2, TranscribedIs, WriteIs
      <3> QED BY <1>0, <1>1, <3>3, NextIs DEF NewDisk, Types
    <2>2. CASE FileLost
      <3> DEFINE v == [life |-> disk.at.life + disk.at.rev, rev |-> 0]
      <3>1. v \in Versions /\ v.rev = 0 /\ After(v, disk.at)
        BY <1>0, <2>2 DEF FileLost, Versions, After
      <3>2. disk' = [at |-> v, gen |-> NoVersion, ed |-> {}, by |-> Nobody] /\ UNCHANGED events
        BY <2>2 DEF FileLost
      <3> HIDE DEF v
      <3>3. disk' \in Files /\ disk'.at = v
        BY <3>1, <3>2, NothingTyped DEF Files, Texts
      <3> QED BY <1>0, <1>1, <3>1, <3>2, <3>3 DEF NewDisk, Types
    <2> QED BY <2>1, <2>2
  <1>3. ASSUME NEW w \in Windows PROVE Win(w)'
    BY <1>1, <1>2, WinFrame DEF Held, AllWin
  <1> QED BY <1>2, <1>3 DEF Held, AllWin

LEMMA StepGood ==
    ASSUME Types, NEW w \in Windows, Win(w), UserStep(w) \/ WindowStep(w) \/ BackendStep(w)
    PROVE  Good(w)
  <1>1. CASE UserStep(w)
    <2>1. ASSUME NEW x \in Edits, UserEdit(w, x) \/ AiWrites(w, x) PROVE Good(w)
      BY <2>1, EditGood DEF UserEdit, AiWrites
    <2>2. ASSUME NEW k \in AiJobs, StartAi(w, k) \/ EndAi(w, k) PROVE Good(w)
      BY <2>2, AiGood
    <2>3. ASSUME NEW c \in Calls, FlushCalled(w, c) PROVE Good(w)
      BY <2>3, FlushCalledGood
    <2>4. CASE Undo(w) \/ Redo(w)
      BY <2>4, UndoGood, RedoGood
    <2>5. CASE ClickReload(w) \/ ClickOverwrite(w)
      BY <2>5, ClickGood
    <2> QED BY <1>1, <2>1, <2>2, <2>3, <2>4, <2>5 DEF UserStep
  <1>2. CASE WindowStep(w)
    <2>1. CASE TimerFires(w) \/ FlushSaves(w)
      BY <2>1, TimerGood
    <2>2. CASE SaveReturns(w)
      BY <2>2, SaveReturnsGood
    <2>3. ASSUME NEW l \in loads[w], ReloadReturns(w, l) \/ OverwriteReturns(w, l)
          PROVE  Good(w)
      BY <2>3, ReloadGood, OverwriteGood
    <2>4. ASSUME NEW r \in events[w], Changed(w, r) PROVE Good(w)
      BY <2>4, ChangedGood
    <2>5. ASSUME NEW c \in calls[w], FlushReturns(w, c) PROVE Good(w)
      BY <2>5, FlushReturnsGood
    <2>6. CASE SettleByEvent(w)
      BY <2>6, SettleByEventGood
    <2>7. ASSUME NEW c \in Tools, SettleByAnswer(w, c) PROVE Good(w)
      BY <2>7, SettleGood
    <2> QED BY <1>2, <2>1, <2>2, <2>3, <2>4, <2>5, <2>6, <2>7 DEF WindowStep
  <1>3. CASE BackendStep(w)
    <2>1. CASE SaveAt(w)
      BY <2>1, SaveAtGood
    <2>2. CASE SaveRefused(w) \/ SaveFails(w)
      BY <2>2, SaveAnsweredGood
    <2>3. ASSUME NEW l \in loads[w], LoadAt(w, l) \/ LoadFails(w, l) PROVE Good(w)
      BY <2>3, LoadReadGood
    <2>4. ASSUME NEW c \in Tools, ToolWrites(w, c) \/ ToolFails(w, c) PROVE Good(w)
      BY <2>4, ToolGood
    <2> QED BY <1>3, <2>1, <2>2, <2>3, <2>4 DEF BackendStep
  <1> QED BY <1>1, <1>2, <1>3

LEMMA InitHeld == Init => Held
  <1> SUFFICES ASSUME Init PROVE Held
    OBVIOUS
  <1>1. Blank \in EntryType /\ NoFlight \in FlightType /\ NoTool \in ToolType
        /\ Blank.past = <<>> /\ Blank.future = <<>> /\ ~Blank.dirty /\ ~Blank.conflict
        /\ ~Blank.saving /\ ~Blank.job /\ Blank.base = NoVersion /\ Blank.doc = NoDoc
        /\ Blank.root = NoVersion /\ NoFlight.pc = "none" /\ NoFlight.base = NoVersion
        /\ NoFlight.root = NoVersion /\ NoTool.pc = "none"
    BY NoneIsSeq, NothingTyped DEF Blank, EntryType, NoFlight, FlightType, NoTool, ToolType
  <1>2. /\ disk \in Files /\ Before(NoVersion, disk.at)
        /\ [why |-> "reload", pc |-> "asked", got |-> Unread] \in LoadType
    <2> DEFINE first == [life |-> 0, rev |-> 1]
    <2>1. first \in Versions /\ first # NoVersion /\ first.rev = 1
      BY DEF Versions, NoVersion
    <2>2. disk = [at |-> first, gen |-> first, ed |-> {}, by |-> Nobody]
      BY DEF Init
    <2> HIDE DEF first
    <2>3. disk \in Files /\ disk.at = first
      BY <2>1, <2>2 DEF Files, Texts
    <2> QED BY <2>1, <2>3, NothingTyped, BeforeItself DEF LoadType
  <1>3. [c \in Tools |-> NoTool] \in [Tools -> ToolType]
    BY <1>1
  <1>4. Types
    BY <1>1, <1>2, <1>3 DEF Init, Types
  <1>5. ASSUME NEW w \in Windows PROVE Win(w)
    <2>1. /\ entry[w] = Blank /\ flight[w] = NoFlight /\ \A c \in Tools : tool[w][c] = NoTool
          /\ loads[w] = {[why |-> "reload", pc |-> "asked", got |-> Unread]}
      BY DEF Init
    <2>2. Shown(w) /\ NotStranded(w) /\ Undoable(w) /\ JobEnds(w) /\ Clean(w)
      BY <1>1, <2>1 DEF Shown, NotStranded, Undoable, JobEnds, Clean
    <2>3. Revisions(w) /\ Based(w)
      BY <1>1, <1>2, <2>1 DEF Revisions, Based
    <2> QED BY <2>2, <2>3 DEF Win
  <1> QED BY <1>4, <1>5 DEF Held, AllWin

LEMMA NextHeld == Held /\ [Next]_vars => Held'
  <1> SUFFICES ASSUME Held, [Next]_vars PROVE Held'
    OBVIOUS
  <1>1. ASSUME NEW w \in Windows, UserStep(w) \/ WindowStep(w) \/ BackendStep(w) PROVE Held'
    <2>1. Good(w)
      BY <1>1, StepGood DEF Held, AllWin
    <2> QED BY <2>1, StepKeepsOthers
  <1>2. CASE OthersWrite \/ FileLost
    BY <1>2, ElsewhereKeeps
  <1>3. CASE UNCHANGED vars
    <2>1. Types' /\ NewDisk
      BY <1>3 DEF vars, Held, Types, NewDisk
    <2>2. ASSUME NEW w \in Windows PROVE Win(w)'
      BY <1>3, <2>1, WinFrame DEF vars, Held, AllWin
    <2> QED BY <2>1, <2>2 DEF Held, AllWin
  <1> QED BY <1>1, <1>2, <1>3 DEF Next

\* Types and the invariant of every window hold in every reachable state.
THEOREM WindowsHold == Spec => []Held
  BY InitHeld, NextHeld, PTL DEF Spec

\* What flush calls saved is in the file, for the window on its version.
THEOREM CleanIsSaved == Spec => []CleanMeansSaved
  <1>1. Held => CleanMeansSaved
    BY DEF Held, AllWin, Win, Clean, CleanMeansSaved, FlushOk
  <1> QED BY <1>1, WindowsHold, PTL

\* Every unsaved edit is dealt with by a step to come, or shown in a banner.
THEOREM EditsAreNotStranded == Spec => []NoStrandedEdit
  <1>1. Held => NoStrandedEdit
    BY DEF Held, AllWin, Win, NotStranded, NoStrandedEdit
  <1> QED BY <1>1, WindowsHold, PTL

\* Undo and redo stay within the transcription that is shown.
THEOREM UndoStaysWithin == Spec => []UndoWithinTranscription
  <1>1. Held => UndoWithinTranscription
    BY DEF Held, AllWin, Win, Undoable, UndoWithinTranscription
  <1> QED BY <1>1, WindowsHold, PTL

\* The lock a transcription puts on the panel is still owned by somebody.
THEOREM JobsEnd == Spec => []JobHasAnEnd
  <1>1. Held => JobHasAnEnd
    BY DEF Held, AllWin, Win, JobEnds, JobHasAnEnd
  <1> QED BY <1>1, WindowsHold, PTL

\* No automatic save replaces what its window has not shown, unless the file
\* was lost since the window learned its revision.
THEOREM OverwritesAreAsked == Spec => NoBlindOverwrite
  <1>1. ASSUME Held, NEW w \in Windows, SaveAt(w), flight[w].base.life = disk.at.life
        PROVE  disk.by = w \/ flight[w].root = disk.at
    <2>1. flight[w].base \in Versions /\ disk.at \in Versions
      BY <1>1 DEF Held, Types, FlightType, Files
    <2>2. flight[w].base = disk.at
      BY <1>1, <2>1 DEF SaveAt, RevMatches, Versions
    <2> QED BY <1>1, <2>2 DEF Held, AllWin, Win, Based
  <1>2. Held /\ [Next]_vars
        => [\A w \in Windows :
              SaveAt(w) /\ flight[w].base.life = disk.at.life
              => disk.by = w \/ flight[w].root = disk.at]_vars
    BY <1>1
  <1> QED BY <1>2, WindowsHold, PTL DEF Spec, NoBlindOverwrite
=============================================================================

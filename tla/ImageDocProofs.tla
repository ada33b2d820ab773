--------------------------- MODULE ImageDocProofs ---------------------------
(***************************************************************************)
(* Proofs about ImageDoc for every set of layers and every limit of the    *)
(* history: no change of the editor is forgotten, undo, redo and jumps     *)
(* walk along the line of documents, no automatic save whose steps no      *)
(* other window came between loses what another window has drawn, and what *)
(* it takes for an editor in which nothing was done to replace no document.*)
(***************************************************************************)
EXTENDS ImageDoc, SequenceTheorems, WellFoundedInduction, TLAPS

-----------------------------------------------------------------------------
(* Changes are saved. *)

\* What is on its way is a call, whatever it carries.
FlightIsCall == DOMAIN flight = {"pc", "doc", "want"}
Marked == FlightIsCall /\ MarkedIsSaved

LEMMA FlightNext == FlightIsCall /\ [Next]_vars => FlightIsCall'
  BY DEF FlightIsCall, Next, vars, Commit, JumpTo, Undo, Redo, Render, TimerFires, RunSave,
         WriteTested, WriteAt, WriteStamped, WriteFails, WriteReturns, OthersWrite,
         LoadAt, LoadStamped, LoadFails, LoadUnreadable, LoadReturns, LoadDropped, Close, CloseClean, AnswerAsk, Flatten,
         FlattenFails, Flattened, DeleteAt, NoFlight, saving

LEMMA MarkedNext == Marked /\ [Next]_vars => MarkedIsSaved'
  <1> SUFFICES ASSUME Marked, [Next]_vars PROVE MarkedIsSaved'
    OBVIOUS
  <1> USE DEF Marked, MarkedIsSaved, Live
  <1>1. ASSUME NEW x \in Layers, Commit(x) PROVE MarkedIsSaved'
    BY <1>1 DEF Commit, MarkDirty
  <1>2. ASSUME NEW i \in 1 .. Len(Entries(hist)), JumpTo(i) PROVE MarkedIsSaved'
    BY <1>2 DEF JumpTo, MarkDirty
  <1>3. CASE Undo \/ Redo \/ Render
    BY <1>3 DEF Undo, Redo, Render, store, saving
  <1>4. CASE TimerFires \/ Close \/ CloseClean
    BY <1>4 DEF TimerFires, Close, CloseClean, RunSave
  <1>5. CASE WriteTested \/ WriteAt \/ WriteStamped \/ WriteFails \/ OthersWrite
    <2>1. /\ flight'.pc = "none" <=> flight.pc = "none"
          /\ UNCHANGED <<win, owed, timer, again>>
      BY <1>5 DEF WriteTested, WriteAt, WriteStamped, WriteFails, NoFlight, OthersWrite, FlightIsCall
    <2> QED BY <2>1
  <1>6. CASE WriteReturns
    BY <1>6 DEF WriteReturns
  <1>7. CASE LoadAt \/ LoadStamped \/ LoadFails \/ LoadUnreadable \/ LoadReturns \/ LoadDropped
    BY <1>7 DEF LoadAt, LoadStamped, LoadFails, LoadUnreadable, LoadReturns, LoadDropped,
                MarkDirty, saving
  <1>8. CASE AnswerAsk \/ Flatten \/ FlattenFails \/ Flattened \/ DeleteAt
    BY <1>8 DEF AnswerAsk, Flatten, FlattenFails, Flattened, DeleteAt, saving
  <1>9. CASE UNCHANGED vars
    BY <1>9 DEF vars
  <1> QED BY <1>1, <1>2, <1>3, <1>4, <1>5, <1>6, <1>7, <1>8, <1>9 DEF Next

\* What applyDoc and jumpTo have changed is taken by a save, or a timer or
\* the flag for one more save will see to it: nothing marked is forgotten.
THEOREM ChangesAreSaved == Spec => []MarkedIsSaved
  <1>1. Init => Marked
    BY DEF Init, Marked, FlightIsCall, NoFlight, MarkedIsSaved
  <1>2. Marked /\ [Next]_vars => Marked'
    BY MarkedNext, FlightNext DEF Marked
  <1>3. Marked => MarkedIsSaved
    BY DEF Marked
  <1> QED BY <1>1, <1>2, <1>3, PTL DEF Spec

-----------------------------------------------------------------------------
(* The line of documents.  A history is its timeline and a place on it; an *)
(* undo goes one place back, a redo one place on.                          *)

Documents == SUBSET (Layers \cup {Others})
Histories == [past : Seq(Documents), cur : Documents, future : Seq(Documents)]

\* The history with the timeline t of which p documents are past.
At(t, p) == [past |-> [i \in 1 .. p |-> t[i]], cur |-> t[p + 1],
             future |-> [i \in 1 .. Len(t) - p - 1 |-> t[Len(t) + 1 - i]]]

LEMMA SameSequence ==
    ASSUME NEW S, NEW s \in Seq(S), NEW t \in Seq(S), Len(s) = Len(t),
           \A i \in 1 .. Len(s) : s[i] = t[i]
    PROVE  s = t
  <1>1. s = [i \in 1 .. Len(s) |-> s[i]] /\ t = [i \in 1 .. Len(t) |-> t[i]]
    OBVIOUS
  <1> QED BY <1>1

LEMMA ConcatIs ==
    ASSUME NEW S, NEW s \in Seq(S), NEW t \in Seq(S)
    PROVE  /\ s \o t \in Seq(S) /\ Len(s \o t) = Len(s) + Len(t)
           /\ \A i \in 1 .. Len(s) : (s \o t)[i] = s[i]
           /\ \A i \in 1 .. Len(t) : (s \o t)[Len(s) + i] = t[i]
  <1> DEFINE M == Len(s)
             N == Len(t)
  <1>1. /\ s \o t \in Seq(S) /\ Len(s \o t) = M + N
        /\ \A i \in 1 .. M + N : (s \o t)[i] = IF i <= M THEN s[i] ELSE t[i - M]
    OBVIOUS
  <1>2. \A i \in 1 .. N : M + i \in 1 .. M + N /\ ~(M + i <= M) /\ M + i - M = i
    OBVIOUS
  <1>3. \A i \in 1 .. M : (s \o t)[i] = s[i]
    BY <1>1
  <1>4. \A i \in 1 .. N : (s \o t)[M + i] = t[i]
    BY <1>1, <1>2
  <1> QED BY <1>1, <1>3, <1>4

LEMMA ReverseIs ==
    ASSUME NEW S, NEW s \in Seq(S), NEW N \in Nat, Len(s) = N
    PROVE  /\ Reverse(s) \in Seq(S) /\ Len(Reverse(s)) = N
           /\ \A i \in 1 .. N : Reverse(s)[N + 1 - i] = s[i]
  <1>1. /\ Reverse(s) \in Seq(S) /\ Len(Reverse(s)) = N
        /\ \A i \in 1 .. N : Reverse(s)[i] = s[N - i + 1]
    BY DEF Reverse
  <1>2. \A i \in 1 .. N : N + 1 - i \in 1 .. N /\ N - (N + 1 - i) + 1 = i
    OBVIOUS
  <1> QED BY <1>1, <1>2

LEMMA PushIs ==
    ASSUME NEW S, NEW s \in Seq(S), NEW c \in S, NEW M \in Nat, Len(s) = M
    PROVE  /\ s \o <<c>> \in Seq(S) /\ Len(s \o <<c>>) = M + 1
           /\ \A i \in 1 .. M : (s \o <<c>>)[i] = s[i]
           /\ (s \o <<c>>)[M + 1] = c
  OBVIOUS

LEMMA HistoryIs ==
    ASSUME NEW h \in Histories
    PROVE  /\ h.past \in Seq(Documents) /\ h.cur \in Documents /\ h.future \in Seq(Documents)
           /\ Len(h.past) \in Nat /\ Len(h.future) \in Nat
           /\ h = [past |-> h.past, cur |-> h.cur, future |-> h.future]
  <1>1. /\ h.past \in Seq(Documents) /\ h.cur \in Documents /\ h.future \in Seq(Documents)
        /\ h = [past |-> h.past, cur |-> h.cur, future |-> h.future]
    BY DEF Histories
  <1> QED BY <1>1

LEMMA TimelineIs ==
    ASSUME NEW h \in Histories, NEW L \in Nat, NEW F \in Nat, Len(h.past) = L, Len(h.future) = F
    PROVE  /\ Timeline(h) \in Seq(Documents) /\ Len(Timeline(h)) = L + 1 + F
           /\ \A i \in 1 .. L : Timeline(h)[i] = h.past[i]
           /\ Timeline(h)[L + 1] = h.cur
           /\ \A i \in 1 .. F : Timeline(h)[L + F + 2 - i] = h.future[i]
  <1> DEFINE q == h.past \o <<h.cur>>
             r == Reverse(h.future)
             line == Timeline(h)
  <1>1. /\ q \in Seq(Documents) /\ Len(q) = L + 1
        /\ \A i \in 1 .. L : q[i] = h.past[i]
        /\ q[L + 1] = h.cur
    BY HistoryIs, PushIs
  <1>2. /\ r \in Seq(Documents) /\ Len(r) = F
        /\ \A i \in 1 .. F : r[F + 1 - i] = h.future[i]
    BY HistoryIs, ReverseIs
  <1>3. line = q \o r
    BY DEF Timeline
  <1> HIDE DEF q, r, line
  <1>4. /\ line \in Seq(Documents) /\ Len(line) = L + 1 + F
        /\ \A i \in 1 .. L + 1 : line[i] = q[i]
        /\ \A i \in 1 .. F : line[L + 1 + i] = r[i]
    <2>1. q \in Seq(Documents) /\ r \in Seq(Documents)
      BY <1>1, <1>2
    <2>2. q \o r \in Seq(Documents) /\ Len(q \o r) = Len(q) + Len(r)
      BY <2>1, ConcatIs
    <2>3. \A i \in 1 .. Len(q) : (q \o r)[i] = q[i]
      BY <2>1, ConcatIs
    <2>4. \A i \in 1 .. Len(r) : (q \o r)[Len(q) + i] = r[i]
      BY <2>1, ConcatIs
    <2> QED BY <1>1, <1>2, <1>3, <2>2, <2>3, <2>4
  <1>5. (\A i \in 1 .. L : i \in 1 .. L + 1) /\ L + 1 \in 1 .. L + 1
    OBVIOUS
  <1>6. \A i \in 1 .. F : F + 1 - i \in 1 .. F /\ L + 1 + (F + 1 - i) = L + F + 2 - i
    OBVIOUS
  <1>7. \A i \in 1 .. L : line[i] = h.past[i]
    BY <1>1, <1>4, <1>5
  <1>8. line[L + 1] = h.cur
    BY <1>1, <1>4, <1>5
  <1>9. \A i \in 1 .. F : line[L + F + 2 - i] = h.future[i]
    BY <1>2, <1>4, <1>6
  <1> QED BY <1>4, <1>7, <1>8, <1>9 DEF line

\* A timeline and a place on it make a history, and every history is one.
LEMMA AtIs ==
    ASSUME NEW t \in Seq(Documents), NEW p \in 0 .. Len(t) - 1
    PROVE  /\ At(t, p) \in Histories /\ Timeline(At(t, p)) = t
           /\ Len(At(t, p).past) = p /\ Len(At(t, p).future) = Len(t) - p - 1
  <1> SUFFICES ASSUME NEW N \in Nat, Len(t) = N
               PROVE  /\ At(t, p) \in Histories /\ Timeline(At(t, p)) = t
                      /\ Len(At(t, p).past) = p /\ Len(At(t, p).future) = N - p - 1
    OBVIOUS
  <1> DEFINE a == [i \in 1 .. p |-> t[i]]
             f == [i \in 1 .. N - p - 1 |-> t[N + 1 - i]]
             h == At(t, p)
  <1>1. a \in Seq(Documents) /\ Len(a) = p /\ t[p + 1] \in Documents
    OBVIOUS
  <1>2. f \in Seq(Documents) /\ Len(f) = N - p - 1
    <2>1. N - p - 1 \in Nat /\ \A i \in 1 .. N - p - 1 : N + 1 - i \in 1 .. N
      OBVIOUS
    <2>2. \A i \in 1 .. N - p - 1 : t[N + 1 - i] \in Documents
      BY <2>1
    <2> QED BY <2>1, <2>2
  <1>3. \A i \in 1 .. p : a[i] = t[i]
    OBVIOUS
  <1>4. \A i \in 1 .. N - p - 1 : f[i] = t[N + 1 - i]
    OBVIOUS
  <1>5. h = [past |-> a, cur |-> t[p + 1], future |-> f]
    BY DEF At
  <1> HIDE DEF a, f, h
  <1>6. h.past = a /\ h.cur = t[p + 1] /\ h.future = f
    BY <1>5
  <1>7. h \in Histories
    BY <1>1, <1>2, <1>5 DEF Histories
  <1>8. Timeline(h) = t
    <2>1. /\ Timeline(h) \in Seq(Documents) /\ Len(Timeline(h)) = p + 1 + (N - p - 1)
          /\ \A i \in 1 .. p : Timeline(h)[i] = h.past[i]
          /\ Timeline(h)[p + 1] = h.cur
          /\ \A i \in 1 .. N - p - 1 : Timeline(h)[p + (N - p - 1) + 2 - i] = h.future[i]
      <3>1. p \in Nat /\ N - p - 1 \in Nat /\ Len(h.past) = p /\ Len(h.future) = N - p - 1
        BY <1>1, <1>2, <1>6
      <3> QED BY ONLY <1>7, <3>1, TimelineIs
    <2>2. \A i \in 1 .. N : Timeline(h)[i] = t[i]
      <3> TAKE i \in 1 .. N
      <3>1. CASE i \in 1 .. p
        BY <1>3, <1>6, <2>1, <3>1
      <3>2. CASE i = p + 1
        BY <1>6, <2>1, <3>2
      <3>3. CASE i > p + 1
        <4>1. /\ N + 1 - i \in 1 .. N - p - 1 /\ N + 1 - (N + 1 - i) = i
              /\ p + (N - p - 1) + 2 - (N + 1 - i) = i
          BY <3>3
        <4>2. f[N + 1 - i] = t[N + 1 - (N + 1 - i)]
          BY <1>4, <4>1
        <4>3. Timeline(h)[p + (N - p - 1) + 2 - (N + 1 - i)] = h.future[N + 1 - i]
          BY <2>1, <4>1
        <4> QED BY <1>6, <4>1, <4>2, <4>3
      <3> QED BY <3>1, <3>2, <3>3
    <2>3. Len(Timeline(h)) = N
      BY <2>1
    <2> QED BY <2>1, <2>2, <2>3, SameSequence
  <1> QED BY <1>1, <1>2, <1>6, <1>7, <1>8 DEF a, f, h

LEMMA IsAt ==
    ASSUME NEW h \in Histories, NEW L \in Nat, NEW F \in Nat, Len(h.past) = L, Len(h.future) = F
    PROVE  /\ h = At(Timeline(h), L) /\ L \in Nat /\ F \in Nat
           /\ Timeline(h) \in Seq(Documents) /\ Len(Timeline(h)) = L + 1 + F
  <1> DEFINE t == Timeline(h)
  <1>1. /\ h.past \in Seq(Documents) /\ h.future \in Seq(Documents)
        /\ L \in Nat /\ F \in Nat
        /\ h = [past |-> h.past, cur |-> h.cur, future |-> h.future]
    BY HistoryIs
  <1>2. /\ t \in Seq(Documents) /\ Len(t) = L + 1 + F
        /\ \A i \in 1 .. L : t[i] = h.past[i]
        /\ t[L + 1] = h.cur
        /\ \A i \in 1 .. F : t[L + F + 2 - i] = h.future[i]
    BY TimelineIs
  <1> HIDE DEF t
  <1>3. h.past = [i \in 1 .. L |-> t[i]]
    <2>1. h.past = [i \in 1 .. L |-> h.past[i]]
      BY <1>1
    <2> QED BY <1>2, <2>1
  <1>4. h.future = [i \in 1 .. Len(t) - L - 1 |-> t[Len(t) + 1 - i]]
    <2>1. Len(t) - L - 1 = F
      BY <1>1, <1>2
    <2>2. \A i \in 1 .. F : Len(t) + 1 - i = L + F + 2 - i
      BY <1>1, <1>2
    <2>3. h.future = [i \in 1 .. F |-> h.future[i]]
      BY <1>1
    <2>4. \A i \in 1 .. F : h.future[i] = t[Len(t) + 1 - i]
      BY <1>2, <2>2
    <2> QED BY <2>1, <2>3, <2>4
  <1>5. h = At(t, L)
    BY <1>1, <1>2, <1>3, <1>4 DEF At
  <1> QED BY <1>1, <1>2, <1>5 DEF t

LEMMA UndoneIs ==
    ASSUME NEW t \in Seq(Documents), NEW N \in Nat, Len(t) = N, NEW p \in 1 .. N - 1
    PROVE  Undone(At(t, p)) = At(t, p - 1)
  <1> DEFINE h == At(t, p)
             a == h.past
             f == h.future
  <1>1. p \in 0 .. N - 1
    OBVIOUS
  <1>2. /\ a = [i \in 1 .. p |-> t[i]] /\ Len(a) = p /\ h.cur = t[p + 1]
        /\ f = [i \in 1 .. N - p - 1 |-> t[N + 1 - i]] /\ Len(f) = N - p - 1
        /\ a \in Seq(Documents) /\ f \in Seq(Documents) /\ h.cur \in Documents
    <2>1. h \in Histories
      BY <1>1, AtIs
    <2>2. a \in Seq(Documents) /\ f \in Seq(Documents) /\ h.cur \in Documents
      <3> HIDE DEF h
      <3> QED BY <2>1, HistoryIs
    <2>3. /\ a = [i \in 1 .. p |-> t[i]] /\ h.cur = t[p + 1]
          /\ f = [i \in 1 .. N - p - 1 |-> t[N + 1 - i]]
      BY DEF At
    <2>4. Len(a) = p /\ Len(f) = N - p - 1
      BY <1>1, AtIs
    <2> QED BY <2>2, <2>3, <2>4
  <1>3. Undone(h) = [past |-> Front(a), cur |-> Last(a), future |-> Append(f, h.cur)]
    BY DEF Undone
  <1>4. At(t, p - 1) = [past |-> [i \in 1 .. p - 1 |-> t[i]], cur |-> t[p],
                        future |-> [i \in 1 .. N - p |-> t[N + 1 - i]]]
    <2>1. p - 1 + 1 = p /\ Len(t) - (p - 1) - 1 = N - p
      OBVIOUS
    <2> QED BY <2>1 DEF At
  <1> HIDE DEF a, f, h
  <1>5. Front(a) = [i \in 1 .. p - 1 |-> t[i]]
    BY <1>2 DEF Front
  <1>6. Last(a) = t[p]
    BY <1>2 DEF Last
  <1>7. Append(f, h.cur) = [i \in 1 .. N - p |-> t[N + 1 - i]]
    <2>1. N + 1 - (N - p) = p + 1 /\ N - p = N - p - 1 + 1
      OBVIOUS
    <2>2. /\ Append(f, h.cur) \in Seq(Documents) /\ Len(Append(f, h.cur)) = N - p
          /\ \A i \in 1 .. N - p - 1 : Append(f, h.cur)[i] = f[i]
          /\ Append(f, h.cur)[N - p] = h.cur
      BY <1>2
    <2>3. \A i \in 1 .. N - p : Append(f, h.cur)[i] = t[N + 1 - i]
      <3> TAKE i \in 1 .. N - p
      <3>1. CASE i \in 1 .. N - p - 1
        BY <1>2, <2>2, <3>1
      <3>2. CASE i = N - p
        BY <1>2, <2>1, <2>2, <3>2
      <3>3. i \in 1 .. N - p - 1 \/ i = N - p
        OBVIOUS
      <3> QED BY <3>1, <3>2, <3>3
    <2>4. Append(f, h.cur) = [i \in 1 .. N - p |-> Append(f, h.cur)[i]]
      BY <2>2
    <2> QED BY <2>3, <2>4
  <1> QED BY <1>3, <1>4, <1>5, <1>6, <1>7 DEF h

LEMMA RedoneIs ==
    ASSUME NEW t \in Seq(Documents), NEW N \in Nat, Len(t) = N, NEW p \in 0 .. N - 2
    PROVE  Redone(At(t, p)) = At(t, p + 1)
  <1> DEFINE h == At(t, p)
             a == h.past
             f == h.future
  <1>1. p \in 0 .. N - 1
    OBVIOUS
  <1>2. /\ a = [i \in 1 .. p |-> t[i]] /\ Len(a) = p /\ h.cur = t[p + 1]
        /\ f = [i \in 1 .. N - p - 1 |-> t[N + 1 - i]] /\ Len(f) = N - p - 1
        /\ a \in Seq(Documents) /\ f \in Seq(Documents) /\ h.cur \in Documents
    <2>1. h \in Histories
      BY <1>1, AtIs
    <2>2. a \in Seq(Documents) /\ f \in Seq(Documents) /\ h.cur \in Documents
      <3> HIDE DEF h
      <3> QED BY <2>1, HistoryIs
    <2>3. /\ a = [i \in 1 .. p |-> t[i]] /\ h.cur = t[p + 1]
          /\ f = [i \in 1 .. N - p - 1 |-> t[N + 1 - i]]
      BY DEF At
    <2>4. Len(a) = p /\ Len(f) = N - p - 1
      BY <1>1, AtIs
    <2> QED BY <2>2, <2>3, <2>4
  <1>3. Redone(h) = [past |-> Append(a, h.cur), cur |-> Last(f), future |-> Front(f)]
    BY DEF Redone
  <1>4. At(t, p + 1) = [past |-> [i \in 1 .. p + 1 |-> t[i]], cur |-> t[p + 2],
                        future |-> [i \in 1 .. N - p - 2 |-> t[N + 1 - i]]]
    <2>1. p + 1 + 1 = p + 2 /\ Len(t) - (p + 1) - 1 = N - p - 2
      OBVIOUS
    <2> QED BY <2>1 DEF At
  <1> HIDE DEF a, f, h
  <1>5. Front(f) = [i \in 1 .. N - p - 2 |-> t[N + 1 - i]]
    BY <1>2 DEF Front
  <1>6. Last(f) = t[p + 2]
    BY <1>2 DEF Last
  <1>7. Append(a, h.cur) = [i \in 1 .. p + 1 |-> t[i]]
    <2>1. /\ Append(a, h.cur) \in Seq(Documents) /\ Len(Append(a, h.cur)) = p + 1
          /\ \A i \in 1 .. p : Append(a, h.cur)[i] = a[i]
          /\ Append(a, h.cur)[p + 1] = h.cur
      BY <1>2
    <2>2. \A i \in 1 .. p + 1 : Append(a, h.cur)[i] = t[i]
      BY <1>2, <2>1
    <2>3. Append(a, h.cur) = [i \in 1 .. p + 1 |-> Append(a, h.cur)[i]]
      BY <2>1
    <2> QED BY <2>2, <2>3
  <1> QED BY <1>3, <1>4, <1>5, <1>6, <1>7 DEF h

\* Every set of numbers has a least one: induction, said of a set.
LEMMA Least == ASSUME NEW T \in SUBSET Nat, T # {} PROVE \E m \in T : \A k \in T : m <= k
  <1>1. IsWellFoundedOn(OpToRel(<, Nat), Nat)
    BY NatLessThanWellFounded
  <1>2. \E m \in T : \A y \in T : ~ (<<y, m>> \in OpToRel(<, Nat))
    BY <1>1, WFMin
  <1>3. \A y, m \in Nat : <<y, m>> \in OpToRel(<, Nat) <=> y < m
    BY DEF OpToRel
  <1>4. \E m \in T : \A y \in T : ~ (y < m)
    BY <1>2, <1>3
  <1> QED BY <1>4

\* A jump back is that many undos, a jump forward that many redos.
LEMMA JumpedIs ==
    ASSUME NEW h \in Histories, NEW L \in Nat, NEW F \in Nat, Len(h.past) = L, Len(h.future) = F,
           NEW i \in 1 .. L + 1 + F
    PROVE  Jumped(h, i) = At(Timeline(h), L + F + 1 - i)
  <1> DEFINE t == Timeline(h)
             Us(f) == [n \in 0 .. L |-> IF n = 0 THEN h ELSE Undone(f[n - 1])]
             Rs(f) == [n \in 0 .. F |-> IF n = 0 THEN h ELSE Redone(f[n - 1])]
             us == CHOOSE f : f = Us(f)
             rs == CHOOSE f : f = Rs(f)
  <1>1. h = At(t, L) /\ t \in Seq(Documents)
    BY IsAt
  <1>2. L \in Nat /\ F \in Nat /\ Len(t) = L + 1 + F /\ L + 1 + F \in Nat
    BY IsAt
  <1>3. Jumped(h, i) = IF i > F + 1 THEN us[i - F - 1] ELSE rs[F + 1 - i]
    BY DEF Jumped, Cursor
  <1> HIDE DEF t
  \* One step of either walk.
  <1>4. \A n \in 1 .. L : Undone(At(t, L - (n - 1))) = At(t, L - n)
    <2> TAKE n \in 1 .. L
    <2>1. L - (n - 1) \in 1 .. L + 1 + F - 1 /\ L - (n - 1) - 1 = L - n
      BY <1>2
    <2> QED BY <1>1, <1>2, <2>1, UndoneIs
  <1>5. \A n \in 1 .. F : Redone(At(t, L + (n - 1))) = At(t, L + n)
    <2> TAKE n \in 1 .. F
    <2>1. L + (n - 1) \in 0 .. L + 1 + F - 2 /\ L + (n - 1) + 1 = L + n
      BY <1>2
    <2> QED BY <1>1, <1>2, <2>1, RedoneIs
  \* The walks are well defined.
  <1>6. us = Us(us)
    <2> DEFINE g == [n \in 0 .. L |-> At(t, L - n)]
    <2>1. \A n \in 0 .. L : g[n] = IF n = 0 THEN h ELSE Undone(g[n - 1])
      <3> TAKE n \in 0 .. L
      <3>1. CASE n = 0
        BY <1>1, <1>2, <3>1
      <3>2. CASE n # 0
        <4>1. n \in 1 .. L /\ n - 1 \in 0 .. L
          BY <1>2, <3>2
        <4>2. g[n - 1] = At(t, L - (n - 1)) /\ g[n] = At(t, L - n)
          BY <4>1
        <4> HIDE DEF g
        <4> QED BY <1>4, <3>2, <4>1, <4>2
      <3> QED BY <3>1, <3>2
    <2>2. g = Us(g)
      <3>1. g = [n \in 0 .. L |-> g[n]]
        OBVIOUS
      <3> HIDE DEF g
      <3> QED BY <2>1, <3>1
    <2> HIDE DEF g
    <2> QED BY <2>2
  <1>7. rs = Rs(rs)
    <2> DEFINE g == [n \in 0 .. F |-> At(t, L + n)]
    <2>1. \A n \in 0 .. F : g[n] = IF n = 0 THEN h ELSE Redone(g[n - 1])
      <3> TAKE n \in 0 .. F
      <3>1. CASE n = 0
        BY <1>1, <1>2, <3>1
      <3>2. CASE n # 0
        <4>1. n \in 1 .. F /\ n - 1 \in 0 .. F
          BY <1>2, <3>2
        <4>2. g[n - 1] = At(t, L + (n - 1)) /\ g[n] = At(t, L + n)
          BY <4>1
        <4> HIDE DEF g
        <4> QED BY <1>5, <3>2, <4>1, <4>2
      <3> QED BY <3>1, <3>2
    <2>2. g = Rs(g)
      <3>1. g = [n \in 0 .. F |-> g[n]]
        OBVIOUS
      <3> HIDE DEF g
      <3> QED BY <2>1, <3>1
    <2> HIDE DEF g
    <2> QED BY <2>2
  <1> HIDE DEF us, rs
  \* Each place of a walk follows from the one before.
  <1>8. \A n \in 0 .. L : us[n] = At(t, L - n)
    <2> DEFINE T == {n \in 0 .. L : us[n] # At(t, L - n)}
    <2> SUFFICES ASSUME T # {} PROVE FALSE
      OBVIOUS
    <2>1. T \in SUBSET Nat
      BY <1>2
    <2>2. PICK m \in T : \A k \in T : m <= k
      <3> HIDE DEF T
      <3> QED BY <2>1, Least
    <2>3. us[0] = h
      BY <1>2, <1>6
    <2>4. m # 0
      BY <1>1, <1>2, <2>3
    <2>5. m \in 1 .. L /\ m - 1 \in 0 .. L /\ m - 1 \notin T
      BY <1>2, <2>2, <2>4
    <2>6. us[m - 1] = At(t, L - (m - 1)) /\ us[m] = Undone(us[m - 1])
      BY <1>6, <2>4, <2>5
    <2> QED BY <1>4, <2>5, <2>6
  <1>9. \A n \in 0 .. F : rs[n] = At(t, L + n)
    <2> DEFINE T == {n \in 0 .. F : rs[n] # At(t, L + n)}
    <2> SUFFICES ASSUME T # {} PROVE FALSE
      OBVIOUS
    <2>1. T \in SUBSET Nat
      BY <1>2
    <2>2. PICK m \in T : \A k \in T : m <= k
      <3> HIDE DEF T
      <3> QED BY <2>1, Least
    <2>3. rs[0] = h
      BY <1>2, <1>7
    <2>4. m # 0
      BY <1>1, <1>2, <2>3
    <2>5. m \in 1 .. F /\ m - 1 \in 0 .. F /\ m - 1 \notin T
      BY <1>2, <2>2, <2>4
    <2>6. rs[m - 1] = At(t, L + (m - 1)) /\ rs[m] = Redone(rs[m - 1])
      BY <1>7, <2>4, <2>5
    <2> QED BY <1>5, <2>5, <2>6
  <1>10. CASE i > F + 1
    <2>1. i - F - 1 \in 0 .. L /\ L - (i - F - 1) = L + F + 1 - i
      BY <1>2, <1>10
    <2> QED BY <1>3, <1>8, <1>10, <2>1 DEF t
  <1>11. CASE ~(i > F + 1)
    <2>1. F + 1 - i \in 0 .. F /\ L + (F + 1 - i) = L + F + 1 - i
      BY <1>2, <1>11
    <2> QED BY <1>3, <1>9, <1>11, <2>1 DEF t
  <1> QED BY <1>10, <1>11

\* Undo, redo and jumps stay on the timeline.
LEMMA WalkIs ==
    ASSUME NEW h \in Histories
    PROVE  /\ h.past # <<>> => Undone(h) \in Histories /\ Timeline(Undone(h)) = Timeline(h)
           /\ h.future # <<>> => Redone(h) \in Histories /\ Timeline(Redone(h)) = Timeline(h)
           /\ \A i \in 1 .. Len(Entries(h)) :
                /\ Jumped(h, i) \in Histories /\ Timeline(Jumped(h, i)) = Timeline(h)
                /\ h.future = <<>> => Jumped(h, i).cur = Entries(h)[i]
  <1> DEFINE t == Timeline(h)
             e == Entries(h)
  <1> SUFFICES ASSUME NEW L \in Nat, NEW F \in Nat, Len(h.past) = L, Len(h.future) = F
               PROVE  /\ h.past # <<>> => Undone(h) \in Histories /\ Timeline(Undone(h)) = t
                      /\ h.future # <<>> => Redone(h) \in Histories /\ Timeline(Redone(h)) = t
                      /\ \A i \in 1 .. Len(e) :
                           /\ Jumped(h, i) \in Histories /\ Timeline(Jumped(h, i)) = t
                           /\ h.future = <<>> => Jumped(h, i).cur = e[i]
    BY HistoryIs
  <1>1. h = At(t, L) /\ t \in Seq(Documents) /\ Len(t) = L + 1 + F
    BY IsAt
  <1>2. h.past # <<>> => L # 0
    BY HistoryIs, EmptySeq
  <1>3. h.future # <<>> => F # 0
    BY HistoryIs, EmptySeq
  <1>4. /\ e = Reverse(h.past \o <<h.cur>> \o h.future)
        /\ Len(e) = L + 1 + F
        /\ h.future = <<>> => \A i \in 1 .. L + 1 : e[i] = t[L + 2 - i]
    <2> DEFINE q == h.past \o <<h.cur>>
               line == q \o h.future
    <2>1. q \in Seq(Documents) /\ Len(q) = L + 1
      BY HistoryIs, PushIs
    <2>2. h.future \in Seq(Documents)
      BY HistoryIs
    <2> HIDE DEF q
    <2>3. line \in Seq(Documents) /\ Len(line) = Len(q) + Len(h.future)
      BY <2>1, <2>2, ConcatIs
    <2>4. Len(line) = L + 1 + F
      BY <2>1, <2>3
    <2>5. e = Reverse(line)
      BY DEF Entries, q
    <2>6. h.future = <<>> => line = q /\ t = q
      <3>1. ASSUME h.future = <<>> PROVE q \o h.future = q /\ q \o Reverse(h.future) = q
        BY <2>1, <3>1 DEF Reverse
      <3> QED BY <3>1 DEF Timeline, q
    <2> HIDE DEF line, t, e
    <2>7. Len(e) = L + 1 + F /\ \A i \in 1 .. L + 1 + F : e[i] = line[L + 1 + F - i + 1]
      BY <2>3, <2>4, <2>5 DEF Reverse
    <2>8. h.future = <<>> => F = 0
      OBVIOUS
    <2>9. ASSUME h.future = <<>>, NEW i \in 1 .. L + 1 PROVE e[i] = t[L + 2 - i]
      <3>1. F = 0 /\ i \in 1 .. L + 1 + F /\ L + 1 + F - i + 1 = L + 2 - i /\ line = t
        BY <2>6, <2>8, <2>9
      <3> QED BY <2>7, <3>1
    <2> QED BY <2>5, <2>7, <2>9 DEF line, q
  <1> HIDE DEF t, e
  <1>5. ASSUME h.past # <<>> PROVE Undone(h) \in Histories /\ Timeline(Undone(h)) = t
    <2>1. L \in 1 .. L + 1 + F - 1 /\ L - 1 \in 0 .. L + 1 + F - 1
      BY <1>2, <1>5
    <2>2. Undone(h) = At(t, L - 1)
      BY <1>1, <2>1, UndoneIs
    <2> QED BY <1>1, <2>1, <2>2, AtIs
  <1>6. ASSUME h.future # <<>> PROVE Redone(h) \in Histories /\ Timeline(Redone(h)) = t
    <2>1. L \in 0 .. L + 1 + F - 2 /\ L + 1 \in 0 .. L + 1 + F - 1
      BY <1>3, <1>6
    <2>2. Redone(h) = At(t, L + 1)
      BY <1>1, <2>1, RedoneIs
    <2> QED BY <1>1, <2>1, <2>2, AtIs
  <1>7. ASSUME NEW i \in 1 .. Len(e)
        PROVE  /\ Jumped(h, i) \in Histories /\ Timeline(Jumped(h, i)) = t
               /\ h.future = <<>> => Jumped(h, i).cur = e[i]
    <2>1. i \in 1 .. L + 1 + F
      BY <1>4
    <2>2. Jumped(h, i) = At(t, L + F + 1 - i)
      BY <2>1, JumpedIs DEF t
    <2>3. L + F + 1 - i \in 0 .. L + 1 + F - 1
      BY <2>1
    <2>4. Jumped(h, i) \in Histories /\ Timeline(Jumped(h, i)) = t
      BY <1>1, <2>2, <2>3, AtIs
    <2>5. Jumped(h, i).cur = t[L + F + 1 - i + 1]
      BY <2>2 DEF At
    <2>6. ASSUME h.future = <<>> PROVE Jumped(h, i).cur = e[i]
      <3>1. F = 0
        BY <2>6
      <3>2. i \in 1 .. L + 1 /\ L + F + 1 - i + 1 = L + 2 - i
        BY <2>1, <3>1
      <3> QED BY <1>4, <2>5, <2>6, <3>2
    <2> QED BY <2>4, <2>6
  <1> QED BY <1>5, <1>6, <1>7

LEMMA CurIsOnLine ==
    ASSUME NEW h \in Histories
    PROVE  \E k \in 1 .. Len(Timeline(h)) : Timeline(h)[k] = h.cur
  <1> SUFFICES ASSUME NEW L \in Nat, NEW F \in Nat, Len(h.past) = L, Len(h.future) = F
               PROVE  \E k \in 1 .. Len(Timeline(h)) : Timeline(h)[k] = h.cur
    BY HistoryIs
  <1>1. Len(Timeline(h)) = L + 1 + F
    BY TimelineIs
  <1>2. Timeline(h)[L + 1] = h.cur
    BY TimelineIs
  <1>3. L + 1 \in 1 .. Len(Timeline(h))
    BY <1>1
  <1> QED BY <1>2, <1>3

-----------------------------------------------------------------------------
(* What the steps change, and the types.                                   *)

Stamps == {NULL, FRESH, STALE}

Flights == [pc : {"none", "asked", "tested", "stored", "written", "failed"},
            doc : Documents, want : Stamps]
Openings == [pc : {"asked", "content", "read", "done", "failed"},
             stamp : Stamps, doc : Documents]

HistTyped == hist \in Histories

Types ==
    /\ HistTyped
    /\ file \in [there : BOOLEAN, doc : Documents]
    /\ flight \in Flights
    /\ opening \in Openings
    /\ stamp \in Stamps
    /\ overlap \in BOOLEAN

\* The documents of a history after a commit are those before and the new one.
LEMMA CommittedIs ==
    ASSUME NEW h \in Histories, NEW d \in Documents
    PROVE  /\ Committed(h, d) \in Histories
           /\ \A i \in 1 .. Len(Timeline(Committed(h, d))) :
                \/ Timeline(Committed(h, d))[i] = d
                \/ \E j \in 1 .. Len(Timeline(h)) :
                       Timeline(Committed(h, d))[i] = Timeline(h)[j]
  <1> DEFINE n == Committed(h, d)
             q == Append(h.past, h.cur)
  <1> SUFFICES ASSUME NEW L \in Nat, NEW F \in Nat, Len(h.past) = L, Len(h.future) = F
               PROVE  /\ n \in Histories
                      /\ \A i \in 1 .. Len(Timeline(n)) :
                           \/ Timeline(n)[i] = d
                           \/ \E j \in 1 .. Len(Timeline(h)) : Timeline(n)[i] = Timeline(h)[j]
    BY HistoryIs
  <1>1. /\ q \in Seq(Documents) /\ Len(q) = L + 1
        /\ \A i \in 1 .. L : q[i] = h.past[i]
        /\ q[L + 1] = h.cur
    BY HistoryIs
  <1>2. \A i \in 1 .. L + 1 : q[i] = Timeline(h)[i]
    <2>1. \A i \in 1 .. L + 1 : i \in 1 .. L \/ i = L + 1
      OBVIOUS
    <2>2. \A i \in 1 .. L : Timeline(h)[i] = h.past[i]
      BY TimelineIs
    <2>3. Timeline(h)[L + 1] = h.cur
      BY TimelineIs
    <2> QED BY <1>1, <2>1, <2>2, <2>3
  <1>3. n = [past |-> Kept(q), cur |-> d, future |-> <<>>]
    BY DEF Committed
  <1> HIDE DEF n, q
  <1>4. PICK m \in 1 .. L + 1 : Kept(q) = SubSeq(q, m, L + 1)
    <2>1. HistoryLimit \in Nat \ {0}
      BY BoundsAssumption
    <2>2. CASE L + 1 > HistoryLimit
      <3>1. L + 1 - HistoryLimit + 1 \in 1 .. L + 1
        BY <2>1, <2>2
      <3>2. Len(q) = L + 1 /\ Len(q) > HistoryLimit
        BY <1>1, <2>2
      <3>3. Kept(q) = SubSeq(q, Len(q) - HistoryLimit + 1, Len(q))
        BY <3>2 DEF Kept
      <3>4. Kept(q) = SubSeq(q, L + 1 - HistoryLimit + 1, L + 1)
        BY <2>1, <3>2, <3>3
      <3> QED BY <3>1, <3>4
    <2>3. CASE ~(L + 1 > HistoryLimit)
      <3>1. Len(q) = L + 1 /\ ~(Len(q) > HistoryLimit)
        BY <1>1, <2>3
      <3>2. Kept(q) = SubSeq(q, 1, Len(q))
        BY <3>1 DEF Kept
      <3>3. Kept(q) = SubSeq(q, 1, L + 1) /\ 1 \in 1 .. L + 1
        BY <3>1, <3>2
      <3> QED BY <3>3
    <2> QED BY <2>2, <2>3
  <1>5. /\ Kept(q) \in Seq(Documents) /\ Len(Kept(q)) = L + 2 - m
        /\ \A i \in 1 .. L + 2 - m : Kept(q)[i] = q[m + i - 1]
    BY <1>1, <1>4
  <1>6. n.past = Kept(q) /\ n.cur = d /\ n.future = <<>> /\ <<>> \in Seq(Documents)
    BY <1>3
  <1>7. n \in Histories
    BY <1>3, <1>5, <1>6 DEF Histories
  <1>8. ASSUME NEW i \in 1 .. Len(Timeline(n))
        PROVE  Timeline(n)[i] = d \/ \E j \in 1 .. Len(Timeline(h)) : Timeline(n)[i] = Timeline(h)[j]
    <2> SUFFICES ASSUME NEW M \in Nat, M = L + 2 - m
                 PROVE  \/ Timeline(n)[i] = d
                        \/ \E j \in 1 .. Len(Timeline(h)) : Timeline(n)[i] = Timeline(h)[j]
      OBVIOUS
    <2>1. Len(n.past) = M /\ Len(n.future) = 0 /\ 0 \in Nat
      BY <1>5, <1>6
    <2>2. Len(Timeline(n)) = M + 1 + 0
      BY <1>7, <2>1, TimelineIs
    <2>3. Timeline(n)[M + 1] = n.cur /\ \A k \in 1 .. M : Timeline(n)[k] = n.past[k]
      BY <1>7, <2>1, TimelineIs
    <2>4. CASE i = M + 1
      BY <1>6, <2>3, <2>4
    <2>5. CASE i \in 1 .. M
      <3>1. Timeline(n)[i] = Kept(q)[i]
        BY <1>6, <2>3, <2>5
      <3>2. m + i - 1 \in 1 .. L + 1 /\ i \in 1 .. L + 2 - m
        BY <2>5
      <3>3. Timeline(n)[i] = Timeline(h)[m + i - 1]
        BY <1>2, <1>5, <3>1, <3>2
      <3>4. Len(Timeline(h)) = L + 1 + F
        BY TimelineIs
      <3>5. m + i - 1 \in 1 .. Len(Timeline(h))
        BY <3>2, <3>4
      <3> QED BY <3>3, <3>5
    <2>6. i \in 1 .. M + 1 + 0
      BY <2>2
    <2>7. i = M + 1 \/ i \in 1 .. M
      BY <2>6
    <2> QED BY <2>4, <2>5, <2>7
  <1> QED BY <1>7, <1>8 DEF n

\* What the steps do to the history.
HistStep ==
    \/ hist' = hist
    \/ \E x \in Layers : Commit(x)
    \/ hist.past # <<>> /\ hist' = Undone(hist)
    \/ hist.future # <<>> /\ hist' = Redone(hist)
    \/ \E i \in 1 .. Len(Entries(hist)) : hist' = Jumped(hist, i)
    \/ LoadReturns /\ hist' = [past |-> <<>>, cur |-> opening.doc, future |-> <<>>]

LEMMA HistSteps == ASSUME [Next]_vars PROVE HistStep
  BY DEF HistStep, Next, vars, JumpTo, Undo, Redo, Render, TimerFires, RunSave,
         WriteTested, WriteAt, WriteStamped, WriteFails, WriteReturns, OthersWrite,
         LoadAt, LoadStamped, LoadFails, LoadUnreadable, LoadReturns, LoadDropped, Close, CloseClean, AnswerAsk, Flatten,
         FlattenFails, Flattened, DeleteAt

LEMMA LoadedIs ==
    ASSUME NEW d \in Documents, NEW h, h = [past |-> <<>>, cur |-> d, future |-> <<>>]
    PROVE  h \in Histories /\ h.cur = d /\ Timeline(h) = <<d>>
  <1>1. h \in Histories /\ h.past = <<>> /\ h.future = <<>> /\ h.cur = d
    BY DEF Histories
  <1>2. Reverse(<<>>) = <<>>
    BY DEF Reverse
  <1>3. <<>> \o <<d>> \o <<>> = <<d>>
    OBVIOUS
  <1> QED BY <1>1, <1>2, <1>3 DEF Timeline

LEMMA HistTypedNext == ASSUME Types, [Next]_vars PROVE HistTyped'
  <1>1. ASSUME NEW x \in Layers, Commit(x) PROVE HistTyped'
    <2> DEFINE d == IF x \in hist.cur THEN hist.cur \ {x} ELSE hist.cur \cup {x}
    <2>1. hist.cur \in Documents
      BY HistoryIs DEF Types, HistTyped
    <2>2. d \in Documents
      BY <2>1 DEF Documents
    <2>3. hist' = Committed(hist, d)
      BY <1>1 DEF Commit
    <2> HIDE DEF d
    <2> QED BY <2>2, <2>3, CommittedIs DEF Types, HistTyped
  <1>2. ASSUME NEW i \in 1 .. Len(Entries(hist)), hist' = Jumped(hist, i) PROVE HistTyped'
    BY <1>2, WalkIs DEF Types, HistTyped
  <1>3. CASE LoadReturns /\ hist' = [past |-> <<>>, cur |-> opening.doc, future |-> <<>>]
    BY <1>3, LoadedIs DEF Types, HistTyped, Openings
  <1>4. CASE \/ hist' = hist
             \/ hist.past # <<>> /\ hist' = Undone(hist)
             \/ hist.future # <<>> /\ hist' = Redone(hist)
    BY <1>4, WalkIs DEF Types, HistTyped
  <1> QED BY <1>1, <1>2, <1>3, <1>4, HistSteps DEF HistStep

LEMMA TypesNext == Types /\ [Next]_vars => Types'
  <1> SUFFICES ASSUME Types, [Next]_vars PROVE Types'
    OBVIOUS
  <1>0. HistTyped'
    BY HistTypedNext
  <1>1. hist.cur \in Documents /\ hist'.cur \in Documents
    BY <1>0, HistoryIs DEF Types, HistTyped
  <1> HIDE DEF HistTyped
  <1>2. /\ NoFlight \in Flights /\ [NoFlight EXCEPT !.pc = "failed"] \in Flights
        /\ \A p \in {"asked", "done", "failed"} : NothingRead(p) \in Openings
    BY DEF NoFlight, NothingRead, Flights, Openings, Stamps, Documents
  <1>3. (\A x \in Stamps : Aged(x) \in Stamps) /\ NULL \in Stamps /\ FRESH \in Stamps
        /\ STALE \in Stamps
    BY DEF Stamps, Aged
  <1>4. {} \in Documents /\ \A d \in Documents : \A k \in SUBSET d : k \cup {Others} \in Documents
    BY DEF Documents
  <1>5. ASSUME NEW d \in Documents, Outdated(d)
        PROVE  file' \in [there : BOOLEAN, doc : Documents] /\ opening' \in Openings
               /\ stamp' \in Stamps
    BY <1>3, <1>5 DEF Types, Outdated, Openings
  <1>6. ASSUME RunSave, UNCHANGED <<file, stamp, opening, overlap>> PROVE Types'
    BY <1>0, <1>1, <1>6 DEF Types, RunSave, Flights
  <1>7. ASSUME UNCHANGED <<file, stamp, opening, flight, overlap>> PROVE Types'
    BY <1>0, <1>7 DEF Types
  <1>8. CASE TimerFires \/ Close \/ CloseClean
    BY <1>6, <1>7, <1>8 DEF TimerFires, Close, CloseClean, store
  <1>9. CASE WriteAt
    <2>1. flight.doc \in Documents /\ flight' \in Flights /\ overlap' = overlap
      BY <1>3, <1>9 DEF WriteAt, Types, Flights
    <2>2. Outdated(flight.doc)
      BY <1>9 DEF WriteAt
    <2> QED BY <1>0, <1>5, <2>1, <2>2 DEF Types
  <1>10. CASE OthersWrite
    <2>1. PICK d \in SUBSET file.doc : Outdated(d \cup {Others})
      BY <1>10 DEF OthersWrite
    <2>2. d \cup {Others} \in Documents
      BY <1>4 DEF Types
    <2>3. flight' \in Flights /\ overlap' \in BOOLEAN
      BY <1>3, <1>10 DEF OthersWrite, Types, Flights
    <2> QED BY <1>0, <1>5, <2>1, <2>2, <2>3 DEF Types
  <1>11. CASE WriteReturns
    BY <1>0, <1>1, <1>2, <1>11 DEF WriteReturns, store, Types, Flights
  <1>12. CASE WriteTested \/ WriteStamped \/ WriteFails
    <2>1. flight' \in Flights
      BY <1>2, <1>3, <1>12 DEF WriteTested, WriteStamped, WriteFails, Types, Flights
    <2> QED BY <1>0, <1>12, <2>1 DEF WriteTested, WriteStamped, WriteFails, store, Types
  <1>13. CASE LoadAt \/ LoadStamped
    <2>1. opening' \in Openings
      BY <1>3, <1>13 DEF LoadAt, LoadStamped, Types, Openings
    <2> QED BY <1>0, <1>13, <2>1 DEF LoadAt, LoadStamped, store, saving, Types
  <1>14. CASE LoadFails \/ LoadUnreadable \/ LoadReturns \/ LoadDropped
    <2>1. opening' \in Openings /\ opening.stamp \in Stamps
      BY <1>2, <1>14 DEF LoadFails, LoadUnreadable, LoadReturns, LoadDropped, Types, Openings
    <2> QED BY <1>0, <1>14, <2>1 DEF LoadFails, LoadUnreadable, LoadReturns, LoadDropped,
                                     store, saving, Types
  <1>15. CASE DeleteAt
    BY <1>0, <1>3, <1>4, <1>15 DEF DeleteAt, Types
  <1>16. CASE \/ \E x \in Layers : Commit(x)
              \/ \E i \in 1 .. Len(Entries(hist)) : JumpTo(i)
              \/ Undo \/ Redo \/ Render \/ AnswerAsk \/ Flatten \/ FlattenFails \/ Flattened
              \/ UNCHANGED vars
    BY <1>7, <1>16 DEF Commit, JumpTo, Undo, Redo, Render, AnswerAsk, Flatten, FlattenFails,
                       Flattened, store, saving, vars
  <1> QED BY <1>8, <1>9, <1>10, <1>11, <1>12, <1>13, <1>14, <1>15, <1>16 DEF Next

LEMMA TypesInit == Init => Types
  <1> SUFFICES ASSUME Init PROVE Types
    OBVIOUS
  <1>1. {} \in Documents /\ {Others} \in Documents /\ Layers \in Documents
        /\ <<>> \in Seq(Documents)
    BY DEF Documents
  <1>2. HistTyped
    BY <1>1 DEF Init, HistTyped, Histories
  <1>3. file \in [there : BOOLEAN, doc : Documents]
    <2>1. CASE file = [there |-> FALSE, doc |-> {}]
      BY <1>1, <2>1
    <2>2. CASE file = [there |-> TRUE, doc |-> {Others}]
      BY <1>1, <2>2
    <2>3. CASE file = [there |-> TRUE, doc |-> Layers]
      BY <1>1, <2>3
    <2> QED BY <2>1, <2>2, <2>3 DEF Init
  <1>4. /\ flight \in Flights
        /\ opening \in Openings
        /\ stamp \in Stamps /\ overlap \in BOOLEAN
    BY <1>1 DEF Init, Stamps, NoFlight, NothingRead, Flights, Openings
  <1> QED BY <1>2, <1>3, <1>4 DEF Types

LEMMA TypesHold == Spec => []Types
  BY TypesInit, TypesNext, PTL DEF Spec

\* Undo, redo and jumps walk along the line of documents and change nothing on
\* it; a jump back, with nothing undone, lands on the entry that was clicked.
THEOREM WalksStayOnTheLine == Spec => HistoryIsALine
  <1> DEFINE Walk == /\ Undo \/ Redo => Timeline(hist') = Timeline(hist)
                     /\ \A i \in 1 .. Len(Entries(hist)) : JumpTo(i) =>
                          /\ Timeline(hist') = Timeline(hist)
                          /\ hist.future = <<>> => hist'.cur = Entries(hist)[i]
  <1>1. Types => Walk
    <2> SUFFICES ASSUME Types PROVE Walk
      OBVIOUS
    <2>1. Undo \/ Redo => Timeline(hist') = Timeline(hist)
      BY WalkIs DEF Undo, Redo, Types, HistTyped
    <2>2. \A i \in 1 .. Len(Entries(hist)) : JumpTo(i) =>
              /\ Timeline(hist') = Timeline(hist)
              /\ hist.future = <<>> => hist'.cur = Entries(hist)[i]
      BY WalkIs DEF JumpTo, Types, HistTyped
    <2> QED BY <2>1, <2>2
  <1>2. Types /\ [Next]_vars => [Walk]_vars
    BY <1>1
  <1> QED BY <1>2, TypesHold, PTL DEF Spec, HistoryIsALine

-----------------------------------------------------------------------------
(* What another window has drawn.                                          *)

\* All documents of the history have the layer of the other window, or none.
Uniform == \A i \in 1 .. Len(Timeline(hist)) : Others \in Timeline(hist)[i] <=> Others \in hist.cur

\* Whoever holds the present stamp of a file with the layer has the layer too,
\* and so has a call between its steps that no other window came between.
Informed ==
    opening.pc # "failed" /\ ~overlap /\ Others \in file.doc =>
        /\ stamp = FRESH => Others \in hist.cur
        /\ flight.pc \in {"asked", "written"} /\ flight.want = FRESH => Others \in flight.doc
        /\ flight.pc = "tested" /\ flight.want # NULL => Others \in flight.doc
        /\ flight.pc = "stored" => Others \in flight.doc
        /\ opening.pc = "content" => Others \in opening.doc
        /\ opening.pc = "read" /\ opening.stamp = FRESH => Others \in opening.doc

\* Where the layer comes from: a file that is there, read by a load that is done.
Sources ==
    /\ ~file.there => Others \notin file.doc
    /\ opening.pc \in {"asked", "content", "read"} => Others \notin hist.cur
    /\ flight.pc # "none" /\ Others \in flight.doc => Others \in hist.cur

Known == Types /\ Uniform /\ Informed /\ Sources

\* Commits and walks neither add nor lose the layer.
LEMMA UniformNext ==
    ASSUME Types, Uniform, [Next]_vars
    PROVE  /\ Uniform'
           /\ \/ Others \in hist'.cur <=> Others \in hist.cur
              \/ LoadReturns /\ hist'.cur = opening.doc
  <1> DEFINE Same == Uniform' /\ (Others \in hist'.cur <=> Others \in hist.cur)
  <1>0. hist \in Histories /\ hist' \in Histories
    BY HistTypedNext DEF Types, HistTyped
  <1>1. ASSUME NEW x \in Layers, Commit(x) PROVE Same
    <2> DEFINE d == IF x \in hist.cur THEN hist.cur \ {x} ELSE hist.cur \cup {x}
    <2>1. hist.cur \in Documents
      BY <1>0, HistoryIs
    <2>2. d \in Documents
      BY <2>1 DEF Documents
    <2>3. Others \in d <=> Others \in hist.cur
      BY OthersAssumption
    <2>4. hist' = Committed(hist, d)
      BY <1>1 DEF Commit
    <2> HIDE DEF d
    <2>5. hist'.cur = d
      BY <2>4 DEF Committed
    <2>6. ASSUME NEW i \in 1 .. Len(Timeline(hist'))
          PROVE  Others \in Timeline(hist')[i] <=> Others \in d
      <3>1. \/ Timeline(hist')[i] = d
            \/ \E j \in 1 .. Len(Timeline(hist)) : Timeline(hist')[i] = Timeline(hist)[j]
        BY <1>0, <2>2, <2>4, CommittedIs
      <3> QED BY <2>3, <3>1 DEF Uniform
    <2> QED BY <2>3, <2>5, <2>6 DEF Uniform
  <1>2. ASSUME Timeline(hist') = Timeline(hist) PROVE Same
    <2>1. PICK k \in 1 .. Len(Timeline(hist')) : Timeline(hist')[k] = hist'.cur
      BY <1>0, CurIsOnLine
    <2>2. Others \in hist'.cur <=> Others \in hist.cur
      BY <1>2, <2>1 DEF Uniform
    <2> QED BY <1>2, <2>2 DEF Uniform
  <1>3. ASSUME NEW i \in 1 .. Len(Entries(hist)), hist' = Jumped(hist, i) PROVE Same
    BY <1>0, <1>2, <1>3, WalkIs
  <1>4. CASE \/ hist.past # <<>> /\ hist' = Undone(hist)
             \/ hist.future # <<>> /\ hist' = Redone(hist)
    BY <1>0, <1>2, <1>4, WalkIs
  <1>5. CASE hist' = hist
    BY <1>2, <1>5
  <1>6. CASE LoadReturns /\ hist' = [past |-> <<>>, cur |-> opening.doc, future |-> <<>>]
    <2>1. hist'.cur = opening.doc /\ Timeline(hist') = <<opening.doc>>
      BY <1>6, LoadedIs DEF Types, Openings
    <2> QED BY <1>6, <2>1 DEF Uniform
  <1> QED BY <1>1, <1>3, <1>4, <1>5, <1>6, HistSteps DEF HistStep

LEMMA KnownNext == Known /\ [Next]_vars => Known'
  <1> SUFFICES ASSUME Known, [Next]_vars PROVE Known'
    OBVIOUS
  <1>0. Types' /\ Uniform'
    BY TypesNext, UniformNext DEF Known
  <1> DEFINE Goal == Informed' /\ Sources'
  <1>1. ASSUME LoadReturns PROVE Goal
    <2>1. opening' = NothingRead("done") /\ stamp' = opening.stamp
          /\ file' = file /\ flight' = flight /\ overlap' = overlap /\ opening.pc = "read"
      BY <1>1 DEF LoadReturns, store
    <2>2. opening'.pc = "done"
      BY <2>1 DEF NothingRead
    <2>3. CASE opening.stamp = NULL
      <3>1. hist' = hist /\ stamp' # FRESH
        BY <1>1, <2>1, <2>3 DEF LoadReturns, NULL, FRESH
      <3> QED BY <2>1, <2>2, <3>1 DEF Known, Informed, Sources
    <2>4. CASE opening.stamp # NULL
      <3>1. hist'.cur = opening.doc
        BY <1>1, <2>4 DEF LoadReturns
      <3> QED BY <2>1, <2>2, <3>1 DEF Known, Informed, Sources
    <2> QED BY <2>3, <2>4
  <1>2. ASSUME ~LoadReturns PROVE Goal
    <2>1. Others \in hist'.cur <=> Others \in hist.cur
      BY <1>2, UniformNext DEF Known
    <2>0. flight \in Flights /\ opening \in Openings /\ overlap \in BOOLEAN
      BY DEF Known, Types
    <2> USE DEF Known, Informed, Sources
    <2>2. ASSUME RunSave, UNCHANGED <<file, hist, stamp, opening, overlap>> PROVE Goal
      BY <2>2 DEF RunSave
    <2>3. ASSUME UNCHANGED <<file, stamp, opening, flight, overlap>> PROVE Goal
      BY <2>1, <2>3
    <2>4. CASE TimerFires \/ Close \/ CloseClean
      BY <2>2, <2>3, <2>4 DEF TimerFires, Close, CloseClean, store
    <2>5. CASE WriteTested
      <3>1. /\ flight'.pc = "tested" /\ flight'.doc = flight.doc /\ flight'.want = flight.want
            /\ UNCHANGED <<file, hist, stamp, opening, overlap>> /\ flight.pc = "asked"
            /\ flight.want = NULL \/ ~file.there \/ flight.want = FRESH
        BY <2>0, <2>5 DEF WriteTested, StampFits, Flights, store
      <3> QED BY <3>1
    <2>6. CASE WriteAt
      <3>1. /\ flight'.pc = "stored" /\ flight'.doc = flight.doc /\ flight.pc = "tested"
            /\ file'.doc = flight.doc /\ file'.there /\ stamp' # FRESH
            /\ opening'.stamp # FRESH /\ opening'.pc = opening.pc /\ opening'.doc = opening.doc
            /\ UNCHANGED <<hist, overlap>>
        BY <2>0, <2>6 DEF WriteAt, Outdated, Aged, Flights, Openings, FRESH, STALE
      <3> QED BY <3>1
    <2>7. CASE WriteStamped
      <3>1. /\ flight'.pc = "written" /\ flight'.doc = flight.doc /\ flight.pc = "stored"
            /\ UNCHANGED <<file, hist, stamp, opening, overlap>>
        BY <2>0, <2>7 DEF WriteStamped, Flights, store
      <3> QED BY <3>1
    <2>8. CASE WriteFails
      <3>1. /\ flight'.pc = "failed" /\ Others \notin flight'.doc
            /\ UNCHANGED <<file, hist, stamp, opening, overlap>>
        BY <2>8 DEF WriteFails, NoFlight, store
      <3> QED BY <3>1
    <2>9. CASE OthersWrite
      <3>1. PICK d \in SUBSET file.doc : Outdated(d \cup {Others})
        BY <2>9 DEF OthersWrite
      <3>2. /\ file'.there /\ stamp' # FRESH /\ opening'.stamp # FRESH
            /\ opening'.pc = opening.pc /\ opening'.doc = opening.doc
        BY <2>0, <3>1 DEF Outdated, Aged, Openings, FRESH, STALE
      <3>3. /\ flight'.pc = flight.pc /\ flight'.doc = flight.doc /\ flight'.want # FRESH
            /\ hist' = hist
        BY <2>0, <2>9 DEF OthersWrite, Aged, Flights, FRESH, STALE
      <3>4. ~overlap' => flight.pc \notin {"tested", "stored"} /\ opening.pc # "content"
        BY <2>9 DEF OthersWrite
      <3> QED BY <3>2, <3>3, <3>4
    <2>10. CASE WriteReturns
      BY <2>10 DEF WriteReturns, NoFlight, store
    <2>11. CASE LoadAt
      <3>1. /\ opening'.doc = file.doc /\ opening'.stamp = opening.stamp /\ opening.pc = "asked"
            /\ opening'.pc = IF file.there THEN "content" ELSE "read"
            /\ UNCHANGED <<file, hist, stamp, flight, overlap>>
        BY <2>0, <2>11 DEF LoadAt, Openings, store, saving
      <3> QED BY <3>1
    <2>12. CASE LoadStamped
      <3>1. /\ opening'.doc = opening.doc /\ opening'.pc = "read" /\ opening.pc = "content"
            /\ UNCHANGED <<file, hist, stamp, flight, overlap>>
        BY <2>0, <2>12 DEF LoadStamped, Openings, store, saving
      <3> QED BY <3>1
    <2>13. CASE LoadFails \/ LoadUnreadable \/ LoadDropped
      <3>1. opening'.pc = "failed" /\ UNCHANGED <<file, hist, flight, overlap>>
        BY <2>13 DEF LoadFails, LoadUnreadable, LoadDropped, NothingRead, store, saving
      <3> QED BY <3>1
    <2>14. CASE DeleteAt
      <3>1. /\ ~file'.there /\ Others \notin file'.doc
            /\ UNCHANGED <<hist, flight, opening>>
        BY <2>14 DEF DeleteAt
      <3> QED BY <3>1
    <2>15. CASE \/ \E x \in Layers : Commit(x)
                \/ \E i \in 1 .. Len(Entries(hist)) : JumpTo(i)
                \/ Undo \/ Redo \/ Render \/ AnswerAsk \/ Flatten \/ FlattenFails \/ Flattened
                \/ UNCHANGED vars
      BY <2>3, <2>15 DEF Commit, JumpTo, Undo, Redo, Render, AnswerAsk, Flatten, FlattenFails,
                         Flattened, store, saving, vars
    <2> QED BY <1>2, <2>4, <2>5, <2>6, <2>7, <2>8, <2>9, <2>10, <2>11, <2>12, <2>13, <2>14,
               <2>15 DEF Next
  <1> QED BY <1>0, <1>1, <1>2 DEF Known

LEMMA KnownInit == Init => Known
  <1> SUFFICES ASSUME Init PROVE Known
    OBVIOUS
  <1>1. hist = [past |-> <<>>, cur |-> {}, future |-> <<>>] /\ {} \in Documents
    BY DEF Init, Documents
  <1>2. hist.cur = {} /\ Timeline(hist) = <<{}>>
    BY <1>1, LoadedIs
  <1>3. Uniform
    BY <1>2 DEF Uniform
  <1>4. Informed /\ Sources
    BY <1>2, OthersAssumption DEF Init, Informed, Sources, NoFlight, NothingRead, NULL, FRESH
  <1> QED BY <1>3, <1>4, TypesInit DEF Known

\* What another window draws into the sidecar that this window has read or
\* written is never lost by this window's automatic saves, as long as none of
\* the other's writes has fallen between the steps of one of its calls.
THEOREM LaterWritesAreKept == Spec => LaterWritesKept
  <1> DEFINE Lossless == WriteAt /\ ~overlap /\ opening.pc # "failed" /\ flight.want # NULL
                             /\ Others \in file.doc
                             => Others \in file'.doc
  <1>1. Known => Lossless
    BY DEF Known, Informed, WriteAt, Outdated
  <1>2. Known /\ [Next]_vars => [Lossless]_vars
    BY <1>1
  <1> QED BY <1>2, KnownInit, KnownNext, PTL DEF Spec, LaterWritesKept

-----------------------------------------------------------------------------
(* An editor in which nothing was done.                                    *)

\* A document is sent, and stored, only after the load has ended well, with
\* the stamp of the file that was read, and not after the document was deleted.
InformedSaves ==
    flight.pc \in {"asked", "tested"} =>
        opening.pc = "done" /\ flight.want # NULL /\ delete # "done"

\* A stamp in somebody's hands is the stamp of a file that is there.
StampedIsThere ==
    delete # "done" => \/ file.there
                       \/ /\ stamp = NULL /\ opening.stamp = NULL /\ flight.want = NULL
                          /\ flight.pc # "stored"

\* The document is deleted by an editor that is closing for good.
DeletedIsClosed == delete # "none" => win = "closed"

LEMMA DeletedNext == DeletedIsClosed /\ [Next]_vars => DeletedIsClosed'
  BY DEF DeletedIsClosed, Next, vars, Commit, JumpTo, Undo, Redo, Render, TimerFires, RunSave,
         WriteTested, WriteAt, WriteStamped, WriteFails, WriteReturns, OthersWrite,
         LoadAt, LoadStamped, LoadFails, LoadUnreadable, LoadReturns, LoadDropped, Close, CloseClean, AnswerAsk, Flatten,
         FlattenFails, Flattened, DeleteAt, store

\* The document is the one that was read; whoever holds the stamp of the file
\* as it is has read that file.
Untouched ==
    delete # "done" /\ ~edited /\ ~overlap =>
        /\ hist.past = <<>> /\ hist.future = <<>>
        /\ flight.pc \in {"asked", "tested", "stored", "written"}
           => opening.pc = "done" /\ flight.doc = hist.cur
        /\ opening.pc = "content" => file.doc = opening.doc
        /\ opening.pc = "read" /\ opening.stamp = FRESH => file.doc = opening.doc
        /\ opening.pc = "done" /\ stamp = FRESH => file.doc = hist.cur
        /\ flight.pc \in {"asked", "written"} /\ flight.want = FRESH => file.doc = hist.cur
        /\ flight.pc \in {"tested", "stored"} => file.doc = hist.cur

\* Without a commit there is nowhere to go to but the document itself.
LEMMA NowhereToGo ==
    ASSUME Types, hist.past = <<>>, hist.future = <<>>, [Next]_vars, ~edited'
    PROVE  /\ ~edited /\ hist'.past = <<>> /\ hist'.future = <<>>
           /\ hist' = hist \/ (LoadReturns /\ hist'.cur = opening.doc)
  <1>1. ~edited /\ \A x \in Layers : ~Commit(x)
    <2>1. \A x \in Layers : ~Commit(x)
      BY DEF Commit
    <2> QED BY <2>1 DEF Next, vars, JumpTo, Undo, Redo, Render, TimerFires, WriteTested,
         WriteAt, WriteStamped, WriteFails, WriteReturns, OthersWrite, LoadAt, LoadStamped,
         LoadFails, LoadUnreadable, LoadReturns, LoadDropped, Close,
         CloseClean, AnswerAsk, Flatten, FlattenFails, Flattened, DeleteAt
  <1>2. ASSUME NEW i \in 1 .. Len(Entries(hist)), hist' = Jumped(hist, i) PROVE hist' = hist
    <2>0. hist \in Histories /\ Len(hist.past) = 0 /\ Len(hist.future) = 0 /\ 0 \in Nat
      BY DEF Types, HistTyped
    <2>1. hist.cur \in Documents
      BY <2>0, HistoryIs
    <2>2. Entries(hist) = Reverse(<<hist.cur>>)
      <3>1. <<>> \o <<hist.cur>> \o <<>> = <<hist.cur>>
        OBVIOUS
      <3> QED BY <3>1 DEF Entries
    <2>3. <<hist.cur>> \in Seq(Documents) /\ Len(<<hist.cur>>) = 1
      BY <2>1
    <2>4. Len(Entries(hist)) = 1
      BY <2>2, <2>3 DEF Reverse
    <2>5. i = 1 /\ i \in 1 .. 0 + 1 + 0
      BY <2>4
    <2>6. Jumped(hist, i) = At(Timeline(hist), 0 + 0 + 1 - i)
      BY <2>0, <2>5, JumpedIs
    <2>7. hist = At(Timeline(hist), 0)
      BY <2>0, IsAt
    <2>8. 0 + 0 + 1 - i = 0
      BY <2>5
    <2> QED BY <1>2, <2>6, <2>7, <2>8
  <1>3. ASSUME LoadReturns, hist' = [past |-> <<>>, cur |-> opening.doc, future |-> <<>>]
        PROVE  hist'.past = <<>> /\ hist'.future = <<>> /\ hist'.cur = opening.doc
    BY <1>3
  <1> QED BY <1>1, <1>2, <1>3, HistSteps DEF HistStep

LEMMA UntouchedNext ==
    ASSUME Types, DeletedIsClosed, StampedIsThere, Untouched, InformedSaves, InformedSaves',
           ~overlap, ~overlap', [Next]_vars
    PROVE  StampedIsThere' /\ Untouched'
  <1>0. ASSUME delete # "done", ~edited'
        PROVE  /\ ~edited /\ hist'.past = <<>> /\ hist'.future = <<>>
               /\ hist' = hist \/ (LoadReturns /\ hist'.cur = opening.doc)
    <2>1. ~edited
      BY <1>0 DEF Next, vars, Commit, JumpTo, Undo, Redo, Render, TimerFires, WriteTested,
         WriteAt, WriteStamped, WriteFails, WriteReturns, OthersWrite, LoadAt, LoadStamped,
         LoadFails, LoadUnreadable, LoadReturns, LoadDropped, Close,
         CloseClean, AnswerAsk, Flatten, FlattenFails, Flattened, DeleteAt
    <2> QED BY <1>0, <2>1, NowhereToGo DEF Untouched
  <1>a. flight \in Flights /\ opening \in Openings
    BY DEF Types
  <1> USE DEF StampedIsThere, Untouched, InformedSaves
  <1> DEFINE Goal == StampedIsThere' /\ Untouched'
  <1>1. ASSUME RunSave, UNCHANGED <<file, hist, edited, stamp, opening, delete>> PROVE Goal
    BY <1>1 DEF RunSave
  <1>2. ASSUME ~LoadReturns, UNCHANGED <<file, stamp, opening, flight>>,
               delete' = "done" <=> delete = "done"
        PROVE  Goal
    <2>1. ASSUME delete # "done", ~edited' PROVE ~edited /\ hist' = hist
      BY <1>0, <1>2, <2>1
    <2> QED BY <1>2, <2>1
  <1>3. CASE TimerFires \/ Close
    BY <1>1, <1>3 DEF TimerFires, Close, store
  <1>4. CASE CloseClean
    <2>1. CASE timer
      BY <1>1, <1>4, <2>1 DEF CloseClean, store
    <2>2. CASE ~timer
      <3>1. ~LoadReturns
        BY <1>4 DEF CloseClean, LoadReturns
      <3> QED BY <1>2, <1>4, <2>2, <3>1 DEF CloseClean, store
    <2> QED BY <2>1, <2>2
  <1>5. CASE WriteTested
    <2>1. /\ flight'.pc = "tested" /\ flight'.want = flight.want /\ flight'.doc = flight.doc
          /\ flight.pc = "asked" /\ (flight.want = NULL \/ ~file.there \/ flight.want = FRESH)
          /\ UNCHANGED <<file, hist, edited, stamp, opening, delete>>
      BY <1>5, <1>a DEF WriteTested, StampFits, Flights, store
    <2>2. flight.want = FRESH
      BY <2>1
    <2> QED BY <2>1, <2>2
  <1>6. CASE WriteAt
    <2>1. /\ flight'.pc = "stored" /\ flight'.doc = flight.doc /\ flight.pc = "tested"
          /\ file'.doc = flight.doc /\ file'.there
          /\ stamp' # FRESH /\ opening'.stamp # FRESH /\ opening'.pc = opening.pc
          /\ UNCHANGED <<hist, edited, delete>>
      BY <1>6, <1>a DEF WriteAt, Outdated, Aged, Flights, Openings, FRESH, STALE
    <2> QED BY <2>1
  <1>7. CASE WriteStamped
    <2>1. /\ flight'.pc = "written" /\ flight'.doc = flight.doc /\ flight.pc = "stored"
          /\ UNCHANGED <<file, hist, edited, stamp, opening, delete>>
      BY <1>7, <1>a DEF WriteStamped, Flights, store
    <2> QED BY <2>1
  <1>8. CASE WriteFails
    <2>1. /\ flight'.pc = "failed" /\ flight'.want = NULL
          /\ UNCHANGED <<file, hist, edited, stamp, opening, delete>>
      BY <1>8 DEF WriteFails, NoFlight, store
    <2> QED BY <2>1
  <1>9. CASE OthersWrite
    <2>1. PICK d \in SUBSET file.doc : Outdated(d \cup {Others})
      BY <1>9 DEF OthersWrite
    <2>2. /\ file'.there /\ stamp' # FRESH /\ opening'.stamp # FRESH /\ opening'.pc = opening.pc
      BY <1>a, <2>1 DEF Outdated, Aged, Openings, FRESH, STALE
    <2>3. /\ flight'.want # FRESH /\ flight'.pc = flight.pc /\ flight'.doc = flight.doc
          /\ UNCHANGED <<hist, edited, delete>>
      BY <1>9, <1>a DEF OthersWrite, Aged, Flights, FRESH, STALE
    <2>4. flight.pc \notin {"tested", "stored"} /\ opening.pc # "content"
      BY <1>9 DEF OthersWrite
    <2> QED BY <2>2, <2>3, <2>4
  <1>10. CASE WriteReturns
    <2>1. /\ stamp' = IF flight.pc = "written" THEN flight.want ELSE stamp
          /\ flight.pc \in {"written", "failed"}
          /\ UNCHANGED <<file, hist, edited, opening, delete>>
      BY <1>10 DEF WriteReturns, store
    <2>2. \/ flight' = [pc |-> "asked", doc |-> hist.cur, want |-> stamp']
          \/ flight' = [pc |-> "none", doc |-> {}, want |-> NULL]
      BY <1>10 DEF WriteReturns, NoFlight
    <2> QED BY <2>1, <2>2
  <1>11. CASE LoadAt
    <2>1. /\ opening'.doc = file.doc /\ opening'.stamp = opening.stamp /\ opening.pc = "asked"
          /\ opening'.pc = IF file.there THEN "content" ELSE "read"
          /\ UNCHANGED <<file, hist, edited, stamp, flight, delete>>
      BY <1>11, <1>a DEF LoadAt, Openings, store, saving
    <2> QED BY <2>1
  <1>12. CASE LoadStamped
    <2>1. /\ opening'.doc = opening.doc /\ opening'.pc = "read" /\ opening.pc = "content"
          /\ opening'.stamp = IF file.there THEN FRESH ELSE NULL
          /\ UNCHANGED <<file, hist, edited, stamp, flight, delete>>
      BY <1>12, <1>a DEF LoadStamped, Openings, store, saving
    <2> QED BY <2>1
  <1>13. CASE LoadFails \/ LoadUnreadable \/ LoadDropped
    <2>1. /\ opening'.pc = "failed" /\ opening'.stamp = NULL
          /\ stamp' = stamp \/ stamp' = opening.stamp
          /\ opening.pc \in {"asked", "read"}
          /\ UNCHANGED <<file, hist, edited, flight, delete>>
      BY <1>13 DEF LoadFails, LoadUnreadable, LoadDropped, NothingRead, store, saving
    <2> QED BY <2>1
  <1>14. CASE LoadReturns
    <2>1. /\ opening.pc = "read" /\ opening'.pc = "done" /\ opening'.stamp = NULL
          /\ stamp' = opening.stamp /\ UNCHANGED <<file, delete, flight>>
      BY <1>14 DEF LoadReturns, NothingRead, store
    <2>2. opening.stamp # NULL => hist'.cur = opening.doc
      BY <1>14 DEF LoadReturns
    <2>3. NULL # FRESH
      BY DEF NULL, FRESH
    <2>4. Untouched'
      BY <1>0, <2>1, <2>2, <2>3
    <2> QED BY <2>1, <2>4
  <1>15. CASE DeleteAt
    BY <1>15 DEF DeleteAt
  <1>16. CASE \/ \E x \in Layers : Commit(x)
              \/ \E i \in 1 .. Len(Entries(hist)) : JumpTo(i)
              \/ Undo \/ Redo \/ Render \/ AnswerAsk \/ Flatten \/ FlattenFails \/ Flattened
              \/ UNCHANGED vars
    <2>1. /\ UNCHANGED <<file, stamp, opening, flight>>
          /\ delete' = "done" <=> delete = "done"
      BY <1>16 DEF Commit, JumpTo, Undo, Redo, Render, AnswerAsk, Flatten, FlattenFails,
                   Flattened, store, saving, vars, DeletedIsClosed
    <2>2. ~LoadReturns
      BY <2>1 DEF LoadReturns, NothingRead
    <2> QED BY <1>2, <2>1, <2>2
  <1> QED BY <1>3, <1>4, <1>5, <1>6, <1>7, <1>8, <1>9, <1>10, <1>11, <1>12, <1>13, <1>14,
             <1>15, <1>16 DEF Next

\* What it takes for an editor in which nothing was done to replace no document:
\* documents are sent and stored after the load, with a stamp and not after the
\* deletion, and no other window's write falls between the steps of a call.
\* Then closing and jumping are harmless, whatever other windows write between
\* the calls and however late answers are.
THEOREM UneditedIsKept == Spec /\ []InformedSaves /\ []~overlap => ClosingKeepsDocument
  <1> DEFINE Same == WriteAt /\ ~edited => file'.doc = file.doc
  <1>1. Init => DeletedIsClosed /\ StampedIsThere /\ Untouched
    BY DEF Init, DeletedIsClosed, StampedIsThere, Untouched, NoFlight, NothingRead
  <1>2. /\ Types /\ DeletedIsClosed /\ StampedIsThere /\ Untouched
        /\ InformedSaves /\ InformedSaves' /\ ~overlap /\ ~overlap' /\ [Next]_vars
        => StampedIsThere' /\ Untouched'
    BY UntouchedNext
  <1>3. Untouched /\ InformedSaves /\ ~overlap => Same
    BY DEF Untouched, InformedSaves, WriteAt, Outdated
  <1>4. Untouched /\ InformedSaves /\ ~overlap /\ [Next]_vars => [Same]_vars
    BY <1>3
  <1> QED BY <1>1, <1>2, <1>4, DeletedNext, TypesHold, PTL DEF Spec, ClosingKeepsDocument
=============================================================================

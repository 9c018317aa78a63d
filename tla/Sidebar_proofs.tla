--------------------------- MODULE Sidebar_proofs ---------------------------
(***************************************************************************)
(* Proofs about the list of conversations and the model picker of one tab  *)
(* (see MCParts), for every number of edits, choices and sends, any ids,   *)
(* titles and models, and any number of changes in other tabs.             *)
(***************************************************************************)
EXTENDS ListRows, OverridePicker, SequenceTheorems, WellFoundedInduction, TLAPS

-----------------------------------------------------------------------------
(***************************************************************************)
(* ListRows.  A row is a title and a pin, whatever those are.              *)
(***************************************************************************)
IsRows(rows) == rows = [i \in DOMAIN rows |-> [title |-> rows[i].title, pin |-> rows[i].pin]]

EditKinds == {"rename", "pin", "delete", "branch"}
IsEdit(e) ==
  /\ e.kind \in EditKinds
  /\ e = [kind |-> e.kind, ids |-> e.ids, source |-> e.source, title |-> e.title, pin |-> e.pin, before |-> e.before, at |-> e.at]
IsEdits(edits) == edits \in Seq(Range(edits)) /\ \A n \in 1 .. Len(edits) : IsEdit(edits[n])

UnderWay(edits, n) == edits[n].kind = "rename" /\ edits[n].at # "done"

(* Nothing but renames can still change the stored rows, or has changed    *)
(* them without a refetch to come.                                         *)
OnlyRenames ==
  /\ untoldChanges = 0 /\ ~unanswered
  /\ \A n \in 1 .. Len(rowEdits) :
       \/ rowEdits[n].kind = "rename"
       \/ rowEdits[n].at # "stored" /\ (rowEdits[n].kind = "pin" => rowEdits[n].at = "done")

SameRows(rows) == DOMAIN rows = DOMAIN storedRows /\ \A i \in DOMAIN rows : rows[i].pin = storedRows[i].pin

(* The tab shows the title of a rename that is to be stored, and else the  *)
(* stored title.                                                           *)
SentFor(edits, n, i) == UnderWay(edits, n) /\ edits[n].at = "sent" /\ i \in edits[n].ids
TitlesShown ==
  \A i \in DOMAIN listCache :
    /\ \A n \in 1 .. Len(rowEdits) : SentFor(rowEdits, n, i) => listCache[i].title = rowEdits[n].title
    /\ (\A n \in 1 .. Len(rowEdits) : ~SentFor(rowEdits, n, i)) => listCache[i].title = storedRows[i].title

AnswerAgrees ==
  listFetch.at = "answered" => SameRows(listFetch.answer) /\ (listFetch.clean => listFetch.answer = storedRows)
CacheAgrees == listFetch.at = "idle" => SameRows(listCache) /\ (~overtaken => TitlesShown)

RowsTyped ==
  /\ IsRows(storedRows) /\ IsRows(listCache) /\ IsEdits(rowEdits) /\ IsRows(listFetch.answer)
  /\ listFetch = [at |-> listFetch.at, answer |-> listFetch.answer, clean |-> listFetch.clean]
  /\ listFetch.at \in {"idle", "asked", "answered"} /\ listFetch.clean \in BOOLEAN
  /\ untoldChanges \in Nat /\ overtaken \in BOOLEAN /\ unanswered \in BOOLEAN

(* A clean refetch saw no rename, nor will it; and unless one was          *)
(* overtaken, one rename is under way at most.                             *)
RenamesKnown ==
  /\ listFetch.clean => ~Renaming(rowEdits)
  /\ ~overtaken => \A m, n \in 1 .. Len(rowEdits) : UnderWay(rowEdits, m) /\ UnderWay(rowEdits, n) => m = n

RowsInv == RowsTyped /\ RenamesKnown /\ (OnlyRenames => AnswerAgrees /\ CacheAgrees)

LEMMA RenamingIs ==
  ASSUME NEW edits
  PROVE  Renaming(edits) <=> \E n \in 1 .. Len(edits) : UnderWay(edits, n)
BY DEF Renaming, UnderWay

LEMMA EditsAre ==
  ASSUME NEW edits, IsEdits(edits)
  PROVE  Len(edits) \in Nat /\ \A n \in 1 .. Len(edits) : IsEdit(edits[n])
<1>1. edits \in Seq(Range(edits))
  BY DEF IsEdits
<1> QED
  BY <1>1, LenProperties DEF IsEdits

(* One edit more. *)
LEMMA EditAdded ==
  ASSUME IsEdits(rowEdits), NEW e, IsEdit(e), NEW more, more = Append(rowEdits, e)
  PROVE  /\ IsEdits(more) /\ Len(more) = Len(rowEdits) + 1 /\ more[Len(more)] = e
         /\ \A n \in 1 .. Len(rowEdits) : more[n] = rowEdits[n]
         /\ \A n \in 1 .. Len(more) : n \in 1 .. Len(rowEdits) \/ n = Len(more)
<1> DEFINE S == Range(rowEdits) \cup {e}
<1>1. rowEdits \in Seq(Range(rowEdits))
  BY DEF IsEdits
<1>2. rowEdits \in Seq(S) /\ e \in S
  BY <1>1
<1> HIDE DEF S
<1>3. /\ more \in Seq(S) /\ Len(more) = Len(rowEdits) + 1 /\ more[Len(rowEdits) + 1] = e
      /\ \A n \in 1 .. Len(rowEdits) : more[n] = rowEdits[n]
  BY <1>2, AppendProperties
<1>4. Len(rowEdits) \in Nat
  BY <1>1, LenProperties
<1>5. \A n \in 1 .. Len(more) : n \in 1 .. Len(rowEdits) \/ n = Len(more)
  BY <1>3, <1>4
<1>6. more \in Seq(Range(more))
  BY <1>3, SeqOfRange
<1>7. \A n \in 1 .. Len(more) : IsEdit(more[n])
  BY <1>3, <1>5 DEF IsEdits
<1> QED
  BY <1>3, <1>5, <1>6, <1>7 DEF IsEdits

(* An edit that moves on stays the edit it was. *)
LEMMA Moving ==
  ASSUME IsEdits(rowEdits), NEW n \in 1 .. Len(rowEdits), NEW at, rowEdits' = [rowEdits EXCEPT ![n].at = at]
  PROVE  /\ IsEdits(rowEdits') /\ Len(rowEdits') = Len(rowEdits) /\ rowEdits'[n].at = at
         /\ \A m \in 1 .. Len(rowEdits) : /\ rowEdits'[m].kind = rowEdits[m].kind /\ rowEdits'[m].ids = rowEdits[m].ids
                                          /\ rowEdits'[m].title = rowEdits[m].title
                                          /\ m # n => rowEdits'[m].at = rowEdits[m].at
<1> DEFINE e == rowEdits[n]
           f == [kind |-> e.kind, ids |-> e.ids, source |-> e.source, title |-> e.title, pin |-> e.pin, before |-> e.before, at |-> at]
           S == Range(rowEdits) \cup {f}
<1>1. rowEdits \in Seq(Range(rowEdits)) /\ \A m \in 1 .. Len(rowEdits) : IsEdit(rowEdits[m])
  BY DEF IsEdits
<1>2. [e EXCEPT !.at = at] = f
  <2>1. IsEdit(e)
    BY <1>1
  <2> QED
    BY <2>1 DEF IsEdit
<1>3. rowEdits' = [rowEdits EXCEPT ![n] = f]
  BY <1>2
<1>4. rowEdits \in Seq(S) /\ f \in S
  BY <1>1
<1>5. IsEdit(f) /\ f.at = at /\ f.kind = rowEdits[n].kind /\ f.ids = rowEdits[n].ids /\ f.title = rowEdits[n].title
  BY <1>1 DEF IsEdit
<1> HIDE DEF e, f, S
<1>6. /\ rowEdits' \in Seq(S) /\ Len(rowEdits') = Len(rowEdits) /\ rowEdits'[n] = f
      /\ \A m \in 1 .. Len(rowEdits) : m # n => rowEdits'[m] = rowEdits[m]
  BY <1>3, <1>4
<1>7. rowEdits' \in Seq(Range(rowEdits'))
  BY <1>6, SeqOfRange
<1>8. \A m \in 1 .. Len(rowEdits') : IsEdit(rowEdits'[m])
  BY <1>1, <1>5, <1>6
<1> QED
  BY <1>5, <1>6, <1>7, <1>8 DEF IsEdits

LEMMA Sending ==
  ASSUME IsEdits(rowEdits), NEW kind \in EditKinds, NEW ids, NEW source, NEW title, NEW pin, NEW before,
         SendEdit(kind, ids, source, title, pin, before)
  PROVE  LET last == Len(rowEdits')
         IN  /\ IsEdits(rowEdits') /\ last = Len(rowEdits) + 1 /\ last \in 1 .. last
             /\ rowEdits'[last].kind = kind /\ rowEdits'[last].ids = ids
             /\ rowEdits'[last].title = title /\ rowEdits'[last].at = "sent"
             /\ \A n \in 1 .. Len(rowEdits) : rowEdits'[n] = rowEdits[n] /\ n \in 1 .. last /\ n # last
             /\ \A n \in 1 .. last : n \in 1 .. Len(rowEdits) \/ n = last
<1> DEFINE e == [kind |-> kind, ids |-> ids, source |-> source, title |-> title, pin |-> pin, before |-> before, at |-> "sent"]
<1>1. IsEdit(e) /\ e.kind = kind /\ e.ids = ids /\ e.title = title /\ e.at = "sent"
  BY DEF IsEdit
<1>2. rowEdits' = Append(rowEdits, e)
  BY DEF SendEdit
<1> HIDE DEF e
<1> DEFINE more == Append(rowEdits, e)
<1>3. /\ IsEdits(more) /\ Len(more) = Len(rowEdits) + 1 /\ more[Len(more)] = e
      /\ \A n \in 1 .. Len(rowEdits) : more[n] = rowEdits[n]
      /\ \A n \in 1 .. Len(more) : n \in 1 .. Len(rowEdits) \/ n = Len(more)
  BY <1>1, EditAdded
<1>5. rowEdits' = more
  BY <1>2
<1> HIDE DEF more
<1>4. Len(rowEdits) \in Nat
  BY EditsAre
<1> QED
  BY <1>1, <1>3, <1>4, <1>5

-----------------------------------------------------------------------------
LEMMA RowsAre ==
  ASSUME NEW rows, IsRows(rows)
  PROVE  /\ rows = [i \in DOMAIN rows |-> rows[i]]
         /\ \A i \in DOMAIN rows : rows[i] = [title |-> rows[i].title, pin |-> rows[i].pin]
BY DEF IsRows

LEMMA RowsFrom ==
  ASSUME NEW rows, rows = [i \in DOMAIN rows |-> rows[i]],
         \A i \in DOMAIN rows : rows[i] = [title |-> rows[i].title, pin |-> rows[i].pin]
  PROVE  IsRows(rows)
BY DEF IsRows

LEMMA RowRetitled ==
  ASSUME NEW rows, IsRows(rows), NEW id \in DOMAIN rows, NEW title, NEW new,
         new = [rows EXCEPT ![id] = [rows[id] EXCEPT !.title = title]]
  PROVE  /\ IsRows(new) /\ DOMAIN new = DOMAIN rows
         /\ \A i \in DOMAIN rows : /\ new[i].pin = rows[i].pin
                                   /\ new[i].title = (IF i = id THEN title ELSE rows[i].title)
<1>1. rows[id] = [title |-> rows[id].title, pin |-> rows[id].pin]
  BY RowsAre
<1>2. [rows[id] EXCEPT !.title = title] = [title |-> title, pin |-> rows[id].pin]
  BY <1>1
<1>3. new = [rows EXCEPT ![id] = [title |-> title, pin |-> rows[id].pin]]
  BY <1>2
<1>4. DOMAIN new = DOMAIN rows /\ new = [i \in DOMAIN new |-> new[i]]
  BY <1>3
<1>5. \A i \in DOMAIN rows : new[i] = (IF i = id THEN [title |-> title, pin |-> rows[id].pin] ELSE rows[i])
  BY <1>3
<1>6. \A i \in DOMAIN rows : rows[i] = [title |-> rows[i].title, pin |-> rows[i].pin]
  BY RowsAre
<1>7. \A i \in DOMAIN new : new[i] = [title |-> new[i].title, pin |-> new[i].pin]
  BY <1>4, <1>5, <1>6
<1>8. \A i \in DOMAIN rows : /\ new[i].pin = rows[i].pin
                              /\ new[i].title = (IF i = id THEN title ELSE rows[i].title)
  BY <1>5
<1>9. IsRows(new)
  BY <1>4, <1>7, RowsFrom
<1> QED
  BY <1>4, <1>8, <1>9

LEMMA RowRepinned ==
  ASSUME NEW rows, IsRows(rows), NEW id \in DOMAIN rows, NEW pin, NEW new,
         new = [rows EXCEPT ![id] = [rows[id] EXCEPT !.pin = pin]]
  PROVE  IsRows(new)
<1>1. rows[id] = [title |-> rows[id].title, pin |-> rows[id].pin]
  BY RowsAre
<1>2. [rows[id] EXCEPT !.pin = pin] = [title |-> rows[id].title, pin |-> pin]
  BY <1>1
<1>3. new = [rows EXCEPT ![id] = [title |-> rows[id].title, pin |-> pin]]
  BY <1>2
<1>4. DOMAIN new = DOMAIN rows /\ new = [i \in DOMAIN new |-> new[i]]
  BY <1>3
<1>5. \A i \in DOMAIN rows : new[i] = (IF i = id THEN [title |-> rows[id].title, pin |-> pin] ELSE rows[i])
  BY <1>3
<1>6. \A i \in DOMAIN rows : rows[i] = [title |-> rows[i].title, pin |-> rows[i].pin]
  BY RowsAre
<1>7. \A i \in DOMAIN new : new[i] = [title |-> new[i].title, pin |-> new[i].pin]
  BY <1>4, <1>5, <1>6
<1> QED
  BY <1>4, <1>7, RowsFrom

LEMMA RowsPicked ==
  ASSUME NEW rows, IsRows(rows), NEW kept, kept \subseteq DOMAIN rows
  PROVE  IsRows([i \in kept |-> rows[i]])
<1>1. \A i \in kept : rows[i] = [title |-> rows[i].title, pin |-> rows[i].pin]
  BY RowsAre
<1> QED
  BY <1>1, RowsFrom

-----------------------------------------------------------------------------
(* An edit that is sent changes neither the stored rows nor the refetch;   *)
(* it may leave a rename under way.                                        *)
LEMMA OnlyRenamesBefore ==
  ASSUME untoldChanges' = untoldChanges, unanswered' = unanswered,
         Len(rowEdits') = Len(rowEdits) + 1, Len(rowEdits) \in Nat,
         \A n \in 1 .. Len(rowEdits) : rowEdits'[n] = rowEdits[n], OnlyRenames'
  PROVE  OnlyRenames
<1>1. \A n \in 1 .. Len(rowEdits) : n \in 1 .. Len(rowEdits')
  OBVIOUS
<1> QED
  BY <1>1 DEF OnlyRenames

LEMMA RenameRowStep ==
  ASSUME RowsInv, NEW id, NEW title, RenameRow(id, title)
  PROVE  RowsInv'
<1> DEFINE L == Len(rowEdits)
           M == Len(rowEdits')
           shown == listCache[id]
<1>1. /\ IsEdits(rowEdits') /\ M = L + 1 /\ M \in 1 .. M
      /\ rowEdits'[M].kind = "rename" /\ rowEdits'[M].ids = {id}
      /\ rowEdits'[M].title = title /\ rowEdits'[M].at = "sent"
      /\ \A n \in 1 .. L : rowEdits'[n] = rowEdits[n] /\ n \in 1 .. M /\ n # M
      /\ \A n \in 1 .. M : n \in 1 .. L \/ n = M
  <2>1. SendEdit("rename", {id}, id, title, shown.pin, shown) /\ IsEdits(rowEdits)
    BY DEF RenameRow, RowsInv, RowsTyped
  <2>2. "rename" \in EditKinds
    BY DEF EditKinds
  <2> HIDE DEF shown
  <2> QED
    BY <2>1, <2>2, Sending
<1>2. L \in Nat
  BY EditsAre DEF RowsInv, RowsTyped
<1>3. /\ IsRows(listCache') /\ DOMAIN listCache' = DOMAIN listCache
      /\ \A i \in DOMAIN listCache : /\ listCache'[i].pin = listCache[i].pin
                                     /\ listCache'[i].title = (IF i = id THEN title ELSE listCache[i].title)
  <2> DEFINE new == [listCache EXCEPT ![id] = [listCache[id] EXCEPT !.title = title]]
  <2>1. IsRows(listCache) /\ id \in DOMAIN listCache /\ listCache' = new
    BY DEF RenameRow, RowsInv, RowsTyped, PatchedRow
  <2>2. IsRows(new) /\ DOMAIN new = DOMAIN listCache
    BY <2>1, RowRetitled
  <2>3. ASSUME NEW i \in DOMAIN listCache
        PROVE  /\ new[i].pin = listCache[i].pin
               /\ new[i].title = (IF i = id THEN title ELSE listCache[i].title)
    BY <2>1, RowRetitled
  <2> HIDE DEF new
  <2> QED
    BY <2>1, <2>2, <2>3
<1>4. /\ listFetch' = [at |-> listFetch.at, answer |-> listFetch.answer, clean |-> FALSE]
      /\ listFetch'.at = listFetch.at /\ listFetch'.answer = listFetch.answer /\ listFetch'.clean = FALSE
  BY DEF RenameRow, RowsInv, RowsTyped
<1>5. /\ storedRows' = storedRows /\ untoldChanges' = untoldChanges /\ unanswered' = unanswered
      /\ overtaken' = (overtaken \/ Renaming(rowEdits))
  BY DEF RenameRow
<1>6. RowsTyped'
  BY <1>1, <1>3, <1>4, <1>5 DEF RowsInv, RowsTyped
<1> HIDE DEF L, M, shown
<1>7. ~overtaken' => ~overtaken /\ \A n \in 1 .. L : ~UnderWay(rowEdits, n)
  BY <1>5, RenamingIs DEF L
<1>8. \A n \in 1 .. L : UnderWay(rowEdits', n) <=> UnderWay(rowEdits, n)
  BY <1>1 DEF UnderWay
<1>9. \A n \in 1 .. M : ~overtaken' /\ UnderWay(rowEdits', n) => n = M
  BY <1>1, <1>7, <1>8
<1>10. RenamesKnown'
  BY <1>4, <1>9 DEF RenamesKnown, M
<1>11. ASSUME OnlyRenames' PROVE AnswerAgrees' /\ CacheAgrees'
  <2>1. AnswerAgrees /\ CacheAgrees
    BY <1>1, <1>2, <1>5, <1>11, OnlyRenamesBefore DEF L, M, RowsInv
  <2>2. AnswerAgrees'
    BY <1>4, <1>5, <2>1 DEF AnswerAgrees, SameRows
  <2>3. listFetch.at = "idle" => SameRows(listCache)'
    BY <1>3, <1>5, <2>1 DEF CacheAgrees, SameRows
  <2>4. ASSUME listFetch.at = "idle", ~overtaken' PROVE TitlesShown'
    <3>1. TitlesShown
      BY <1>7, <2>1, <2>4 DEF CacheAgrees
    <3>2. \A n \in 1 .. L : \A i : ~SentFor(rowEdits, n, i) /\ ~SentFor(rowEdits', n, i)
      BY <1>7, <1>8, <2>4 DEF SentFor
    <3>3. \A i : SentFor(rowEdits', M, i) <=> i = id
      BY <1>1 DEF SentFor, UnderWay
    <3>4. \A i \in DOMAIN listCache : listCache[i].title = storedRows[i].title
      BY <3>1, <3>2 DEF TitlesShown, L
    <3>5. \A i \in DOMAIN listCache : \A n \in 1 .. M : SentFor(rowEdits', n, i) => i = id /\ n = M
      BY <1>1, <3>2, <3>3
    <3>6. \A i \in DOMAIN listCache : (\A n \in 1 .. M : ~SentFor(rowEdits', n, i)) => i # id
      BY <1>1, <3>3
    <3> QED
      BY <1>1, <1>3, <1>5, <3>4, <3>5, <3>6 DEF TitlesShown, M
  <2> QED
    BY <1>4, <2>2, <2>3, <2>4 DEF CacheAgrees
<1> QED
  BY <1>6, <1>10, <1>11 DEF RowsInv

(* No rename is under way that was not before. *)
LEMMA NoNewRename ==
  ASSUME RenamesKnown, listFetch'.clean = listFetch.clean, overtaken' = overtaken,
         \A n \in 1 .. Len(rowEdits') : UnderWay(rowEdits', n) => n \in 1 .. Len(rowEdits) /\ UnderWay(rowEdits, n)
  PROVE  RenamesKnown'
<1>1. listFetch.clean => \A n \in 1 .. Len(rowEdits') : ~UnderWay(rowEdits', n)
  BY RenamingIs DEF RenamesKnown
<1>2. listFetch.clean => ~Renaming(rowEdits)'
  BY <1>1 DEF Renaming, UnderWay
<1>3. ~overtaken => \A m, n \in 1 .. Len(rowEdits') : UnderWay(rowEdits', m) /\ UnderWay(rowEdits', n) => m = n
  BY DEF RenamesKnown
<1> QED
  BY <1>2, <1>3 DEF RenamesKnown

LEMMA PinRowStep ==
  ASSUME RowsInv, NEW id, PinRow(id)
  PROVE  RowsInv'
<1> DEFINE L == Len(rowEdits)
           M == Len(rowEdits')
           shown == listCache[id]
           pin == IF shown.pin = 0 THEN TopPin(listCache) ELSE 0
<1>1. /\ IsEdits(rowEdits') /\ M = L + 1 /\ M \in 1 .. M
      /\ rowEdits'[M].kind = "pin" /\ rowEdits'[M].at = "sent"
      /\ \A n \in 1 .. L : rowEdits'[n] = rowEdits[n] /\ n \in 1 .. M /\ n # M
      /\ \A n \in 1 .. M : n \in 1 .. L \/ n = M
  <2>1. SendEdit("pin", {id}, id, shown.title, pin, shown) /\ IsEdits(rowEdits)
    BY DEF PinRow, RowsInv, RowsTyped
  <2>2. "pin" \in EditKinds
    BY DEF EditKinds
  <2> HIDE DEF shown, pin
  <2> QED
    BY <2>1, <2>2, Sending
<1>2. IsRows(listCache')
  <2>1. IsRows(listCache) /\ id \in DOMAIN listCache /\ listCache' = [listCache EXCEPT ![id] = [listCache[id] EXCEPT !.pin = pin]]
    BY DEF PinRow, RowsInv, RowsTyped, PatchedRow
  <2> HIDE DEF pin
  <2> QED
    BY <2>1, RowRepinned
<1>3. UNCHANGED <<storedRows, listFetch, untoldChanges, overtaken, unanswered>>
  BY DEF PinRow
<1>4. RowsTyped'
  BY <1>1, <1>2, <1>3 DEF RowsInv, RowsTyped
<1> HIDE DEF L, M, shown, pin
<1>5. \A n \in 1 .. M : UnderWay(rowEdits', n) => n \in 1 .. L /\ UnderWay(rowEdits, n)
  BY <1>1 DEF UnderWay
<1>6. RenamesKnown'
  BY <1>3, <1>5, NoNewRename DEF RowsInv, L, M
<1>7. ~OnlyRenames'
  BY <1>1 DEF OnlyRenames, M
<1> QED
  BY <1>4, <1>6, <1>7 DEF RowsInv

LEMMA QuietEditStep ==
  ASSUME RowsInv, NEW kind \in {"branch", "delete"}, NEW ids, NEW source, NEW title, NEW pin, NEW before,
         SendEdit(kind, ids, source, title, pin, before),
         UNCHANGED <<storedRows, listCache, listFetch, untoldChanges, overtaken, unanswered>>
  PROVE  RowsInv'
<1> DEFINE L == Len(rowEdits)
           M == Len(rowEdits')
<1>1. /\ IsEdits(rowEdits') /\ M = L + 1 /\ M \in 1 .. M
      /\ rowEdits'[M].kind = kind /\ rowEdits'[M].at = "sent"
      /\ \A n \in 1 .. L : rowEdits'[n] = rowEdits[n] /\ n \in 1 .. M /\ n # M
      /\ \A n \in 1 .. M : n \in 1 .. L \/ n = M
  <2>1. IsEdits(rowEdits) /\ kind \in EditKinds
    BY DEF RowsInv, RowsTyped, EditKinds
  <2> QED
    BY <2>1, Sending
<1>2. L \in Nat
  BY EditsAre DEF RowsInv, RowsTyped
<1>3. RowsTyped'
  BY <1>1 DEF RowsInv, RowsTyped
<1> HIDE DEF L, M
<1>4. \A n \in 1 .. M : UnderWay(rowEdits', n) => n \in 1 .. L /\ UnderWay(rowEdits, n)
  BY <1>1 DEF UnderWay
<1>5. \A n \in 1 .. L : UnderWay(rowEdits, n) <=> UnderWay(rowEdits', n)
  BY <1>1 DEF UnderWay
<1>6. RenamesKnown'
  BY <1>4, NoNewRename DEF RowsInv, L, M
<1>7. ASSUME OnlyRenames' PROVE AnswerAgrees' /\ CacheAgrees'
  <2>1. AnswerAgrees /\ CacheAgrees
    BY <1>1, <1>2, <1>7, OnlyRenamesBefore DEF L, M, RowsInv
  <2>2. AnswerAgrees'
    BY <2>1 DEF AnswerAgrees, SameRows
  <2>3. ASSUME TitlesShown PROVE TitlesShown'
    <3>1. \A n \in 1 .. M : \A i : SentFor(rowEdits', n, i) => n \in 1 .. L /\ SentFor(rowEdits, n, i)
      BY <1>1, <1>4 DEF SentFor
    <3>2. \A n \in 1 .. L : \A i : SentFor(rowEdits, n, i) => n \in 1 .. M /\ SentFor(rowEdits', n, i)
      BY <1>1, <1>5 DEF SentFor
    <3> QED
      BY <1>1, <2>3, <3>1, <3>2 DEF TitlesShown, L, M
  <2> QED
    BY <2>1, <2>2, <2>3 DEF CacheAgrees, SameRows
<1> QED
  BY <1>3, <1>6, <1>7 DEF RowsInv

-----------------------------------------------------------------------------
(* A refetch that is asked for tells of everything there is. *)
LEMMA Refetching ==
  ASSUME RowsTyped', RenamesKnown, overtaken' = overtaken,
         \A n \in 1 .. Len(rowEdits') : UnderWay(rowEdits', n) => n \in 1 .. Len(rowEdits) /\ UnderWay(rowEdits, n),
         listFetch' = RefetchedBy(listFetch, rowEdits')
  PROVE  RowsInv'
<1>1. listFetch'.at = "asked" /\ (listFetch'.clean <=> ~Renaming(rowEdits'))
  BY DEF RefetchedBy
<1>2. RenamesKnown'
  <2>1. listFetch'.clean => ~Renaming(rowEdits)'
    BY <1>1
  <2>2. ~overtaken => \A m, n \in 1 .. Len(rowEdits') : UnderWay(rowEdits', m) /\ UnderWay(rowEdits', n) => m = n
    BY DEF RenamesKnown
  <2> QED
    BY <2>1, <2>2 DEF RenamesKnown
<1>3. AnswerAgrees' /\ CacheAgrees'
  BY <1>1 DEF AnswerAgrees, CacheAgrees
<1> QED
  BY <1>2, <1>3 DEF RowsInv

LEMMA EmptyRows == IsRows(<<>>)
<1>1. <<>> = [i \in {} |-> <<>>[i]] /\ DOMAIN <<>> = {}
  OBVIOUS
<1> QED
  BY <1>1 DEF IsRows

LEMMA RefetchTyped ==
  ASSUME NEW edits, listFetch' = RefetchedBy(listFetch, edits)
  PROVE  /\ IsRows(listFetch'.answer)
         /\ listFetch' = [at |-> listFetch'.at, answer |-> listFetch'.answer, clean |-> listFetch'.clean]
         /\ listFetch'.at \in {"idle", "asked", "answered"} /\ listFetch'.clean \in BOOLEAN
BY EmptyRows DEF RefetchedBy, Renaming

LEMMA EditSucceedsStep ==
  ASSUME RowsInv, NEW n \in EditNumbers, EditSucceeds(n)
  PROVE  RowsInv'
<1> DEFINE L == Len(rowEdits)
<1>1. /\ IsEdits(rowEdits') /\ Len(rowEdits') = L /\ rowEdits'[n].at = "done"
      /\ \A m \in 1 .. L : /\ rowEdits'[m].kind = rowEdits[m].kind /\ rowEdits'[m].ids = rowEdits[m].ids
                           /\ rowEdits'[m].title = rowEdits[m].title
                           /\ m # n => rowEdits'[m].at = rowEdits[m].at
  BY Moving DEF EditSucceeds, Finished, EditNumbers, RowsInv, RowsTyped
<1>2. n \in 1 .. L /\ rowEdits[n].at = "stored"
  BY DEF EditSucceeds, EditNumbers
<1>3. UNCHANGED <<storedRows, listCache, untoldChanges, overtaken, unanswered>>
  BY DEF EditSucceeds
<1>4. \A m \in 1 .. Len(rowEdits') : UnderWay(rowEdits', m) => m \in 1 .. Len(rowEdits) /\ UnderWay(rowEdits, m)
  BY <1>1 DEF UnderWay
<1>5. CASE rowEdits[n].kind = "rename"
  <2>1. listFetch' = listFetch
    BY <1>5 DEF EditSucceeds
  <2>2. RowsTyped'
    BY <1>1, <1>3, <2>1 DEF RowsInv, RowsTyped
  <2>3. RenamesKnown'
    BY <1>3, <1>4, <2>1, NoNewRename DEF RowsInv
  <2>4. ASSUME OnlyRenames' PROVE AnswerAgrees' /\ CacheAgrees'
    <3>1. OnlyRenames
      BY <1>1, <1>3, <1>5, <2>4 DEF OnlyRenames
    <3>2. \A m \in 1 .. L : \A i : SentFor(rowEdits', m, i) <=> SentFor(rowEdits, m, i)
      BY <1>1, <1>2 DEF SentFor, UnderWay
    <3>3. TitlesShown => TitlesShown'
      BY <1>1, <1>3, <3>2 DEF TitlesShown
    <3> QED
      BY <1>3, <2>1, <3>1, <3>3 DEF RowsInv, AnswerAgrees, CacheAgrees, SameRows
  <2> QED
    BY <2>2, <2>3, <2>4 DEF RowsInv
<1>6. CASE rowEdits[n].kind # "rename"
  <2>1. listFetch' = RefetchedBy(listFetch, rowEdits')
    BY <1>6 DEF EditSucceeds
  <2>2. RowsTyped'
    BY <1>1, <1>3, <2>1, RefetchTyped DEF RowsInv, RowsTyped
  <2> QED
    BY <1>3, <1>4, <2>1, <2>2, Refetching DEF RowsInv
<1> QED
  BY <1>5, <1>6

-----------------------------------------------------------------------------
(* What an edit makes of the stored rows. *)
LEMMA AfterRename ==
  ASSUME IsRows(storedRows), NEW edit, edit.kind = "rename"
  PROVE  /\ IsRows(AfterEdit(edit)) /\ DOMAIN AfterEdit(edit) = DOMAIN storedRows
         /\ \A i \in DOMAIN storedRows :
              /\ AfterEdit(edit)[i].pin = storedRows[i].pin
              /\ AfterEdit(edit)[i].title = (IF i \in edit.ids THEN edit.title ELSE storedRows[i].title)
<1> DEFINE Row(i) == IF i \in edit.ids THEN [title |-> edit.title, pin |-> storedRows[i].pin] ELSE storedRows[i]
           new == AfterEdit(edit)
<1>1. \A i \in DOMAIN storedRows : storedRows[i] = [title |-> storedRows[i].title, pin |-> storedRows[i].pin]
  BY RowsAre
<1>2. \A i \in DOMAIN storedRows :
        (IF i \in edit.ids THEN [storedRows[i] EXCEPT !.title = edit.title] ELSE storedRows[i]) = Row(i)
  BY <1>1
<1>3. new = [i \in DOMAIN storedRows |-> IF i \in edit.ids THEN [storedRows[i] EXCEPT !.title = edit.title] ELSE storedRows[i]]
  BY DEF AfterEdit
<1>4. new = [i \in DOMAIN storedRows |-> Row(i)]
  BY <1>2, <1>3
<1> HIDE DEF new
<1>5. DOMAIN new = DOMAIN storedRows /\ new = [i \in DOMAIN new |-> new[i]]
  BY <1>4
<1>6. \A i \in DOMAIN storedRows : new[i] = Row(i)
  BY <1>4
<1>7. \A i \in DOMAIN new : new[i] = [title |-> new[i].title, pin |-> new[i].pin]
  BY <1>1, <1>5, <1>6
<1>8. ASSUME NEW i \in DOMAIN storedRows
      PROVE  /\ new[i].pin = storedRows[i].pin
             /\ new[i].title = (IF i \in edit.ids THEN edit.title ELSE storedRows[i].title)
  <2>1. CASE i \in edit.ids
    <3>1. new[i] = [title |-> edit.title, pin |-> storedRows[i].pin]
      BY <1>6, <2>1
    <3> QED
      BY <2>1, <3>1
  <2>2. CASE i \notin edit.ids
    <3>1. new[i] = storedRows[i]
      BY <1>6, <2>2
    <3> QED
      BY <2>2, <3>1
  <2> QED
    BY <2>1, <2>2
<1>9. IsRows(new)
  BY <1>5, <1>7, RowsFrom
<1> QED
  BY <1>5, <1>8, <1>9 DEF new

LEMMA AfterEditRows ==
  ASSUME IsRows(storedRows), NEW edit, edit.kind \in EditKinds
  PROVE  IsRows(AfterEdit(edit))
<1> DEFINE new == AfterEdit(edit)
<1>1. \A i \in DOMAIN storedRows : storedRows[i] = [title |-> storedRows[i].title, pin |-> storedRows[i].pin]
  BY RowsAre
<1>2. CASE edit.kind = "rename"
  BY <1>2, AfterRename
<1>3. CASE edit.kind = "delete"
  <2>1. new = [i \in DOMAIN storedRows \ edit.ids |-> storedRows[i]]
    BY <1>3 DEF AfterEdit
  <2> QED
    BY <2>1, RowsPicked
<1>4. CASE edit.kind = "branch"
  <2> DEFINE Row(i) == IF i \in edit.ids THEN [title |-> edit.title, pin |-> 0] ELSE storedRows[i]
  <2>1. new = [i \in DOMAIN storedRows \cup edit.ids |-> Row(i)]
    BY <1>4 DEF AfterEdit
  <2> HIDE DEF new
  <2>2. DOMAIN new = DOMAIN storedRows \cup edit.ids /\ new = [i \in DOMAIN new |-> new[i]]
    BY <2>1
  <2>3. \A i \in DOMAIN new : new[i] = Row(i)
    BY <2>1
  <2>4. \A i \in DOMAIN new : new[i] = [title |-> new[i].title, pin |-> new[i].pin]
    BY <1>1, <2>2, <2>3
  <2>5. IsRows(new)
    BY <2>2, <2>4, RowsFrom
  <2> QED
    BY <2>5 DEF new
<1>5. CASE edit.kind = "pin"
  <2> DEFINE pin == IF edit.pin = 0 THEN 0 ELSE TopPin(storedRows)
             Row(i) == IF i \notin edit.ids THEN storedRows[i] ELSE [title |-> storedRows[i].title, pin |-> pin]
  <2>1. new = [i \in DOMAIN storedRows |-> IF i \notin edit.ids THEN storedRows[i] ELSE [storedRows[i] EXCEPT !.pin = pin]]
    BY <1>5 DEF AfterEdit
  <2> HIDE DEF new, pin
  <2>2. \A i \in DOMAIN storedRows :
          (IF i \notin edit.ids THEN storedRows[i] ELSE [storedRows[i] EXCEPT !.pin = pin]) = Row(i)
    BY <1>1
  <2>3. new = [i \in DOMAIN storedRows |-> Row(i)]
    BY <2>1, <2>2
  <2>4. DOMAIN new = DOMAIN storedRows /\ new = [i \in DOMAIN new |-> new[i]]
    BY <2>3
  <2>5. \A i \in DOMAIN new : new[i] = Row(i)
    BY <2>3
  <2>6. \A i \in DOMAIN new : new[i] = [title |-> new[i].title, pin |-> new[i].pin]
    BY <1>1, <2>4, <2>5
  <2>7. IsRows(new)
    BY <2>4, <2>6, RowsFrom
  <2> QED
    BY <2>7 DEF new
<1> QED
  BY <1>2, <1>3, <1>4, <1>5 DEF EditKinds

(* Only a rename is stored without a refetch to come.  No clean refetch is *)
(* under way then, and the tab shows its title already.                    *)
LEMMA StoreEditStep ==
  ASSUME RowsInv, NEW n \in EditNumbers, StoreEdit(n)
  PROVE  RowsInv'
<1> DEFINE L == Len(rowEdits)
           edit == rowEdits[n]
<1>1. /\ IsEdits(rowEdits') /\ Len(rowEdits') = L /\ rowEdits'[n].at = "stored"
      /\ \A m \in 1 .. L : /\ rowEdits'[m].kind = rowEdits[m].kind /\ rowEdits'[m].ids = rowEdits[m].ids
                           /\ rowEdits'[m].title = rowEdits[m].title
                           /\ m # n => rowEdits'[m].at = rowEdits[m].at
  BY Moving DEF StoreEdit, EditNumbers, RowsInv, RowsTyped
<1>2. n \in 1 .. L /\ edit.at = "sent" /\ edit.kind \in EditKinds
  BY EditsAre DEF StoreEdit, EditNumbers, RowsInv, RowsTyped, IsEdit
<1>3. UNCHANGED <<listCache, listFetch, untoldChanges, overtaken, unanswered>> /\ storedRows' = AfterEdit(edit)
  BY DEF StoreEdit
<1>4. RowsTyped'
  <2>1. IsRows(storedRows')
    BY <1>2, <1>3, AfterEditRows DEF RowsInv, RowsTyped
  <2> QED
    BY <1>1, <1>3, <2>1 DEF RowsInv, RowsTyped
<1>5. \A m \in 1 .. L : UnderWay(rowEdits', m) => UnderWay(rowEdits, m)
  BY <1>1, <1>2 DEF UnderWay
<1>6. RenamesKnown'
  BY <1>1, <1>3, <1>5, NoNewRename DEF RowsInv
<1>7. ASSUME OnlyRenames' PROVE AnswerAgrees' /\ CacheAgrees'
  <2>1. edit.kind = "rename" /\ UnderWay(rowEdits, n)
    BY <1>1, <1>2, <1>7 DEF OnlyRenames, UnderWay
  <2>2. OnlyRenames
    BY <1>1, <1>3, <1>7, <2>1 DEF OnlyRenames
  <2>3. AnswerAgrees /\ CacheAgrees /\ ~listFetch.clean
    BY <1>2, <2>1, <2>2, RenamingIs DEF RowsInv, RenamesKnown
  <2>4. /\ DOMAIN storedRows' = DOMAIN storedRows
        /\ \A i \in DOMAIN storedRows : storedRows'[i].pin = storedRows[i].pin
    BY <1>3, <2>1, AfterRename DEF RowsInv, RowsTyped
  <2>5. \A i \in DOMAIN storedRows : storedRows'[i].title = (IF i \in edit.ids THEN edit.title ELSE storedRows[i].title)
    BY <1>3, <2>1, AfterRename DEF RowsInv, RowsTyped
  <2>6. AnswerAgrees'
    BY <1>3, <2>3, <2>4 DEF AnswerAgrees, SameRows
  <2>7. listFetch.at = "idle" => SameRows(listCache)'
    BY <1>3, <2>3, <2>4 DEF CacheAgrees, SameRows
  <2>8. ASSUME listFetch.at = "idle", ~overtaken PROVE TitlesShown'
    <3>1. TitlesShown /\ DOMAIN listCache = DOMAIN storedRows
      BY <2>3, <2>8 DEF CacheAgrees, SameRows
    <3>2. \A m \in 1 .. L : UnderWay(rowEdits, m) => m = n
      BY <1>2, <2>1, <2>8 DEF RowsInv, RenamesKnown
    <3>3. \A m \in 1 .. L : \A i : ~SentFor(rowEdits', m, i)
      BY <1>1, <1>5, <3>2 DEF SentFor
    <3>4. \A i : SentFor(rowEdits, n, i) <=> i \in edit.ids
      BY <1>2, <2>1 DEF SentFor
    <3>5. ASSUME NEW i \in DOMAIN listCache PROVE listCache[i].title = storedRows'[i].title
      <4>1. CASE i \in edit.ids
        BY <1>2, <2>5, <3>1, <3>4, <4>1 DEF TitlesShown
      <4>2. CASE i \notin edit.ids
        <5>1. \A m \in 1 .. L : ~SentFor(rowEdits, m, i)
          BY <3>2, <3>4, <4>2 DEF SentFor
        <5> QED
          BY <2>5, <3>1, <4>2, <5>1 DEF TitlesShown
      <4> QED
        BY <4>1, <4>2
    <3> QED
      BY <1>1, <1>3, <3>3, <3>5 DEF TitlesShown
  <2> QED
    BY <1>3, <2>6, <2>7, <2>8 DEF CacheAgrees
<1> QED
  BY <1>4, <1>6, <1>7 DEF RowsInv

LEMMA EditFailsStep ==
  ASSUME RowsInv, NEW n \in EditNumbers, EditFails(n)
  PROVE  RowsInv'
<1> DEFINE L == Len(rowEdits)
           edit == rowEdits[n]
<1>1. /\ IsEdits(rowEdits') /\ Len(rowEdits') = L /\ rowEdits'[n].at = "done"
      /\ \A m \in 1 .. L : /\ rowEdits'[m].kind = rowEdits[m].kind /\ rowEdits'[m].ids = rowEdits[m].ids
                           /\ rowEdits'[m].title = rowEdits[m].title
                           /\ m # n => rowEdits'[m].at = rowEdits[m].at
  BY Moving DEF EditFails, Finished, EditNumbers, RowsInv, RowsTyped
<1>2. n \in 1 .. L /\ edit.at # "done" /\ edit.kind \in EditKinds
  BY EditsAre DEF EditFails, EditNumbers, RowsInv, RowsTyped, IsEdit
<1>3. UNCHANGED <<storedRows, untoldChanges, overtaken>> /\ unanswered' \in BOOLEAN
  BY DEF EditFails, RowsInv, RowsTyped
<1>4. \A m \in 1 .. Len(rowEdits') : UnderWay(rowEdits', m) => m \in 1 .. Len(rowEdits) /\ UnderWay(rowEdits, m)
  BY <1>1 DEF UnderWay
<1>5. IsRows(listCache')
  <2> DEFINE id == CHOOSE i \in edit.ids : TRUE
             title == edit.before.title
             pin == edit.before.pin
             retitled == [listCache EXCEPT ![id] = [listCache[id] EXCEPT !.title = title]]
             repinned == [listCache EXCEPT ![id] = [listCache[id] EXCEPT !.pin = pin]]
  <2>1. IsRows(listCache) /\ listCache' = RolledBack(edit)
    BY DEF EditFails, RowsInv, RowsTyped
  <2>2. \/ listCache' = listCache
        \/ id \in DOMAIN listCache /\ (listCache' = retitled \/ listCache' = repinned)
    BY <1>2, <2>1 DEF RolledBack, PatchedRow, EditKinds
  <2> HIDE DEF id, title, pin
  <2>3. ASSUME id \in DOMAIN listCache PROVE IsRows(retitled)
    BY <2>1, <2>3, RowRetitled
  <2>4. ASSUME id \in DOMAIN listCache PROVE IsRows(repinned)
    BY <2>1, <2>4, RowRepinned
  <2> QED
    BY <2>1, <2>2, <2>3, <2>4
<1>6. CASE listFetch' = RefetchedBy(listFetch, rowEdits')
  <2>1. RowsTyped'
    BY <1>1, <1>3, <1>5, <1>6, RefetchTyped DEF RowsInv, RowsTyped
  <2> QED
    BY <1>3, <1>4, <1>6, <2>1, Refetching DEF RowsInv
<1>7. CASE listFetch' # RefetchedBy(listFetch, rowEdits')
  <2>1. /\ listFetch' = listFetch /\ edit.kind \in {"branch", "delete"}
        /\ unanswered' = (unanswered \/ edit.at = "stored")
    BY <1>2, <1>7 DEF EditFails, EditKinds
  <2>2. listCache' = listCache
    BY <2>1 DEF EditFails, RolledBack
  <2>3. RowsTyped'
    BY <1>1, <1>3, <2>1, <2>2 DEF RowsInv, RowsTyped
  <2>4. RenamesKnown'
    BY <1>3, <1>4, <2>1, NoNewRename DEF RowsInv
  <2>5. ASSUME OnlyRenames' PROVE AnswerAgrees' /\ CacheAgrees'
    <3>1. ~unanswered /\ edit.at # "stored" /\ untoldChanges = 0
      BY <1>3, <2>1, <2>5 DEF OnlyRenames, RowsInv, RowsTyped
    <3>2. OnlyRenames
      BY <1>1, <2>1, <2>5, <3>1 DEF OnlyRenames
    <3>3. \A m \in 1 .. L : \A i : SentFor(rowEdits', m, i) <=> SentFor(rowEdits, m, i)
      BY <1>1, <2>1 DEF SentFor, UnderWay
    <3>4. TitlesShown => TitlesShown'
      BY <1>1, <1>3, <2>2, <3>3 DEF TitlesShown
    <3> QED
      BY <1>3, <2>1, <2>2, <3>2, <3>4 DEF RowsInv, AnswerAgrees, CacheAgrees, SameRows
  <2> QED
    BY <2>3, <2>4, <2>5 DEF RowsInv
<1> QED
  BY <1>6, <1>7

-----------------------------------------------------------------------------
LEMMA ChangeElsewhereStep ==
  ASSUME RowsInv, NEW id, ChangeElsewhere(id)
  PROVE  RowsInv'
<1>1. UNCHANGED <<listCache, listFetch, rowEdits, overtaken, unanswered>> /\ untoldChanges' = untoldChanges + 1
  BY DEF ChangeElsewhere
<1>2. IsRows(storedRows')
  <2> DEFINE Retitled(title) == [storedRows EXCEPT ![id] = [storedRows[id] EXCEPT !.title = title]]
             Repinned(pin)   == [storedRows EXCEPT ![id] = [storedRows[id] EXCEPT !.pin = pin]]
             kept            == DOMAIN storedRows \ {id}
  <2>1. IsRows(storedRows) /\ id \in DOMAIN storedRows
    BY DEF ChangeElsewhere, RowsInv, RowsTyped
  <2>2. \/ \E title : storedRows' = Retitled(title)
        \/ \E pin : storedRows' = Repinned(pin)
        \/ storedRows' = [i \in kept |-> storedRows[i]]
    BY DEF ChangeElsewhere
  <2>3. ASSUME NEW title PROVE IsRows(Retitled(title))
    BY <2>1, RowRetitled
  <2>4. ASSUME NEW pin PROVE IsRows(Repinned(pin))
    BY <2>1, RowRepinned
  <2>5. IsRows([i \in kept |-> storedRows[i]])
    BY <2>1, RowsPicked
  <2> HIDE DEF Retitled, Repinned
  <2> QED
    BY <2>2, <2>3, <2>4, <2>5
<1>3. RowsTyped'
  BY <1>1, <1>2 DEF RowsInv, RowsTyped
<1>4. RenamesKnown'
  BY <1>1 DEF RowsInv, RenamesKnown
<1>5. ~OnlyRenames'
  BY <1>1 DEF RowsInv, RowsTyped, OnlyRenames
<1> QED
  BY <1>3, <1>4, <1>5 DEF RowsInv

LEMMA HearListChangedStep ==
  ASSUME RowsInv, HearListChanged
  PROVE  RowsInv'
<1>1. /\ UNCHANGED <<storedRows, listCache, rowEdits, overtaken, unanswered>>
      /\ untoldChanges' \in Nat /\ listFetch' = RefetchedBy(listFetch, rowEdits')
  BY DEF HearListChanged, RowsInv, RowsTyped
<1>2. RowsTyped'
  BY <1>1, RefetchTyped DEF RowsInv, RowsTyped
<1>3. \A n \in 1 .. Len(rowEdits') : UnderWay(rowEdits', n) => n \in 1 .. Len(rowEdits) /\ UnderWay(rowEdits, n)
  BY <1>1
<1> QED
  BY <1>1, <1>2, <1>3, Refetching DEF RowsInv

LEMMA AnswerRowsStep ==
  ASSUME RowsInv, AnswerRows
  PROVE  RowsInv'
<1>1. /\ UNCHANGED <<storedRows, listCache, rowEdits, untoldChanges, overtaken, unanswered>>
      /\ listFetch' = [at |-> "answered", answer |-> storedRows, clean |-> listFetch.clean]
  BY DEF AnswerRows, RowsInv, RowsTyped
<1>2. RowsTyped' /\ RenamesKnown'
  BY <1>1 DEF RowsInv, RowsTyped, RenamesKnown
<1>3. AnswerAgrees' /\ CacheAgrees'
  BY <1>1 DEF AnswerAgrees, CacheAgrees, SameRows
<1> QED
  BY <1>2, <1>3 DEF RowsInv

(* What is loaded is clean, or a rename may have been overtaken. *)
LEMMA LoadRowsStep ==
  ASSUME RowsInv, LoadRows
  PROVE  RowsInv'
<1>1. /\ UNCHANGED <<storedRows, rowEdits, untoldChanges, unanswered>>
      /\ listFetch.at = "answered" /\ listCache' = listFetch.answer /\ overtaken' = ~listFetch.clean
      /\ listFetch' = [at |-> "idle", answer |-> <<>>, clean |-> listFetch.clean]
  BY DEF LoadRows, RowsInv, RowsTyped
<1>2. RowsTyped'
  BY <1>1, EmptyRows DEF RowsInv, RowsTyped
<1>3. listFetch.clean => \A n \in 1 .. Len(rowEdits) : ~UnderWay(rowEdits, n)
  BY RenamingIs DEF RowsInv, RenamesKnown
<1>4. RenamesKnown'
  BY <1>1, <1>3 DEF RowsInv, RowsTyped, RenamesKnown
<1>5. ASSUME OnlyRenames' PROVE AnswerAgrees' /\ CacheAgrees'
  <2>1. AnswerAgrees
    BY <1>1, <1>5 DEF RowsInv, OnlyRenames
  <2>2. SameRows(listCache)'
    BY <1>1, <2>1 DEF AnswerAgrees, SameRows
  <2>3. ASSUME listFetch.clean PROVE TitlesShown'
    <3>1. listCache' = storedRows' /\ \A n \in 1 .. Len(rowEdits') : \A i : ~SentFor(rowEdits', n, i)
      BY <1>1, <1>3, <2>1, <2>3 DEF AnswerAgrees, SentFor
    <3> QED
      BY <3>1 DEF TitlesShown
  <2> QED
    BY <1>1, <2>2, <2>3 DEF AnswerAgrees, CacheAgrees, RowsInv, RowsTyped
<1> QED
  BY <1>2, <1>4, <1>5 DEF RowsInv

-----------------------------------------------------------------------------
LEMMA RowsInitially ==
  ASSUME ListRowsInit
  PROVE  RowsInv
<1>1. /\ listCache = storedRows /\ rowEdits = <<>> /\ Len(rowEdits) = 0
      /\ listFetch = [at |-> "idle", answer |-> <<>>, clean |-> TRUE]
      /\ untoldChanges = 0 /\ overtaken = FALSE /\ unanswered = FALSE
  BY DEF ListRowsInit
<1>2. IsRows(storedRows)
  <2> DEFINE title == CHOOSE t \in RowTitles : TRUE
  <2>1. PICK ids : storedRows = [i \in ids |-> [title |-> title, pin |-> 0]]
    BY DEF ListRowsInit
  <2> HIDE DEF title
  <2>2. DOMAIN storedRows = ids /\ storedRows = [i \in DOMAIN storedRows |-> storedRows[i]]
    BY <2>1
  <2>3. \A i \in DOMAIN storedRows : storedRows[i] = [title |-> storedRows[i].title, pin |-> storedRows[i].pin]
    BY <2>1, <2>2
  <2> QED
    BY <2>2, <2>3, RowsFrom
<1>3. IsEdits(rowEdits)
  BY <1>1 DEF IsEdits
<1>4. RowsTyped
  BY <1>1, <1>2, <1>3, EmptyRows DEF RowsTyped
<1>5. RenamesKnown
  BY <1>1 DEF RenamesKnown, Renaming
<1>6. AnswerAgrees /\ CacheAgrees
  BY <1>1 DEF AnswerAgrees, CacheAgrees, SameRows, TitlesShown
<1> QED
  BY <1>4, <1>5, <1>6 DEF RowsInv

LEMMA RowsStay ==
  ASSUME RowsInv, [ListRowsNext]_rowVars
  PROVE  RowsInv'
<1>1. ASSUME NEW id, NEW title, RenameRow(id, title) PROVE RowsInv'
  BY <1>1, RenameRowStep
<1>2. ASSUME NEW id, PinRow(id) PROVE RowsInv'
  BY <1>2, PinRowStep
<1>3. ASSUME NEW id, ToggleRow(id) \/ UNCHANGED rowVars PROVE RowsInv'
  <2>1. UNCHANGED <<storedRows, listCache, listFetch, rowEdits, untoldChanges, overtaken, unanswered>>
    BY <1>3 DEF ToggleRow, rowVars
  <2>2. RowsTyped' /\ RenamesKnown'
    BY <2>1 DEF RowsInv, RowsTyped, RenamesKnown
  <2>3. (OnlyRenames => AnswerAgrees /\ CacheAgrees)'
    BY <2>1 DEF RowsInv, OnlyRenames, AnswerAgrees, CacheAgrees, SameRows, TitlesShown
  <2> QED
    BY <2>2, <2>3 DEF RowsInv
<1>4. ASSUME NEW source, NEW id, BranchOffRow(source, id) PROVE RowsInv'
  <2>1. PICK title \in RowTitles : SendEdit("branch", {id}, source, title, 0, listCache[source])
    BY <1>4 DEF BranchOffRow
  <2>2. UNCHANGED <<storedRows, listCache, listFetch, untoldChanges, overtaken, unanswered>>
    BY <1>4 DEF BranchOffRow
  <2> QED
    BY <2>1, <2>2, QuietEditStep
<1>5. ASSUME DeleteSelection PROVE RowsInv'
  <2> DEFINE some == CHOOSE id \in LiveSelection : TRUE
             shown == listCache[some]
  <2>1. /\ SendEdit("delete", LiveSelection, some, shown.title, 0, shown)
        /\ UNCHANGED <<storedRows, listCache, listFetch, untoldChanges, overtaken, unanswered>>
    BY <1>5 DEF DeleteSelection
  <2> HIDE DEF some, shown
  <2> QED
    BY <2>1, QuietEditStep
<1>6. ASSUME NEW n \in EditNumbers, StoreEdit(n) \/ EditSucceeds(n) \/ EditFails(n) PROVE RowsInv'
  BY <1>6, StoreEditStep, EditSucceedsStep, EditFailsStep
<1>7. ASSUME NEW id, ChangeElsewhere(id) PROVE RowsInv'
  BY <1>7, ChangeElsewhereStep
<1>8. ASSUME HearListChanged \/ AnswerRows \/ LoadRows PROVE RowsInv'
  BY <1>8, HearListChangedStep, AnswerRowsStep, LoadRowsStep
<1> QED
  BY <1>1, <1>2, <1>3, <1>4, <1>5, <1>6, <1>7, <1>8 DEF ListRowsNext

(* The inductive invariant: while nothing but renames can have changed the *)
(* stored rows, an idle list has their pins, and the titles of the stored  *)
(* or the one being stored.                                                *)
THEOREM RowsInvariant == ListRowsSpec => []RowsInv
<1> QED
  BY RowsInitially, RowsStay, PTL DEF ListRowsSpec

(* At rest the sidebar lists the stored conversations, pinned as stored    *)
(* (usePinConversation, useDeleteConversation), and titled as stored but   *)
(* where a rename was overtaken (useRenameConversation).                   *)
THEOREM QuietListAgrees == ListRowsSpec => []QuietSidebarAgrees
<1>1. RowsInv => QuietSidebarAgrees
  <2> SUFFICES ASSUME RowsInv, SidebarQuiet
               PROVE  /\ DOMAIN listCache = DOMAIN storedRows
                      /\ PinnedIds(listCache) = PinnedIds(storedRows)
                      /\ PinnedAbove(listCache) = PinnedAbove(storedRows)
                      /\ ~overtaken => listCache = storedRows
    BY DEF QuietSidebarAgrees
  <2>1. \A n \in 1 .. Len(rowEdits) : rowEdits[n].at = "done"
    BY DEF SidebarQuiet, EditNumbers
  <2>2. OnlyRenames
    BY <2>1 DEF SidebarQuiet, OnlyRenames
  <2>3. SameRows(listCache) /\ (~overtaken => TitlesShown)
    BY <2>2 DEF RowsInv, CacheAgrees, SidebarQuiet
  <2>4. /\ DOMAIN listCache = DOMAIN storedRows
        /\ \A i \in DOMAIN listCache : listCache[i].pin = storedRows[i].pin
    BY <2>3 DEF SameRows
  <2>5. PinnedIds(listCache) = PinnedIds(storedRows)
    BY <2>4 DEF PinnedIds
  <2>6. PinnedAbove(listCache) = PinnedAbove(storedRows)
    <3>1. ASSUME NEW p \in (DOMAIN storedRows) \X (DOMAIN storedRows)
          PROVE  listCache[p[1]].pin = storedRows[p[1]].pin /\ listCache[p[2]].pin = storedRows[p[2]].pin
      BY <2>4
    <3> QED
      BY <2>4, <3>1 DEF PinnedAbove
  <2>7. ASSUME ~overtaken PROVE listCache = storedRows
    <3>1. \A i \in DOMAIN listCache : listCache[i].title = storedRows[i].title
      BY <2>1, <2>3, <2>7 DEF TitlesShown, SentFor
    <3>2. IsRows(listCache) /\ IsRows(storedRows)
      BY DEF RowsInv, RowsTyped
    <3>3. /\ listCache = [i \in DOMAIN listCache |-> listCache[i]]
          /\ storedRows = [i \in DOMAIN storedRows |-> storedRows[i]]
      BY <3>2, RowsAre
    <3>4. ASSUME NEW i \in DOMAIN listCache PROVE listCache[i] = storedRows[i]
      <4>1. listCache[i] = [title |-> listCache[i].title, pin |-> listCache[i].pin]
        BY <3>2, RowsAre
      <4>2. storedRows[i] = [title |-> storedRows[i].title, pin |-> storedRows[i].pin]
        BY <2>4, <3>2, RowsAre
      <4> QED
        BY <2>4, <3>1, <4>1, <4>2
    <3> QED
      BY <2>4, <3>3, <3>4
  <2> QED
    BY <2>4, <2>5, <2>6, <2>7
<1> QED
  BY <1>1, RowsInvariant, PTL

-----------------------------------------------------------------------------
(* Numbers up to a bound have a largest one. *)
LEMMA LargestIs ==
  ASSUME NEW S \in SUBSET Nat, S # {}, NEW b \in Nat, \A x \in S : x <= b
  PROVE  \E x \in S : \A y \in S : y <= x
<1> DEFINE T == {c \in Nat : \A x \in S : x <= c}
           less == {p \in Nat \X Nat : p[1] < p[2]}
<1>1. IsWellFoundedOn(less, Nat)
  BY NatLessThanWellFounded DEF OpToRel
<1>2. T \subseteq Nat /\ T # {}
  OBVIOUS
<1> HIDE DEF less
<1>3. PICK m \in T : \A c \in T : <<c, m>> \notin less
  BY <1>1, <1>2, WFMin
<1>4. \A c \in T : ~(c < m)
  BY <1>2, <1>3 DEF less
<1>5. m \in Nat /\ \A x \in S : x <= m
  OBVIOUS
<1>6. m \in S
  <2> SUFFICES ASSUME m \notin S PROVE FALSE
    OBVIOUS
  <2>1. \A x \in S : x < m
    BY <1>5
  <2>2. m - 1 \in Nat
    <3>1. PICK x \in S : TRUE
      OBVIOUS
    <3>2. x \in Nat /\ x < m
      BY <2>1, <3>1
    <3> QED
      BY <1>5, <3>2
  <2>3. \A x \in S : x <= m - 1
    BY <1>5, <2>1
  <2> QED
    BY <1>4, <1>5, <2>2, <2>3
<1> QED
  BY <1>5, <1>6

(* The types of the list: all pins are numbers up to some bound, so that   *)
(* there is a top one to pin above.                                        *)
RowUpTo(b) == [title: RowTitles, pin: 0 .. b]
RowMapUpTo(rows, b) == DOMAIN rows \subseteq SidebarRows /\ rows \in [DOMAIN rows -> RowUpTo(b)]
EditUpTo(b) == [kind: EditKinds, ids: SUBSET SidebarRows, source: SidebarRows, title: RowTitles,
                pin: 0 .. b, before: RowUpTo(b), at: {"sent", "stored", "done"}]
PinsUpTo(b) == /\ RowMapUpTo(storedRows, b) /\ RowMapUpTo(listCache, b) /\ RowMapUpTo(listFetch.answer, b)
               /\ rowEdits \in Seq(EditUpTo(b))
ListTyped(b) ==
  /\ PinsUpTo(b)
  /\ listFetch = [at |-> listFetch.at, answer |-> listFetch.answer, clean |-> listFetch.clean]
  /\ listFetch.at \in {"idle", "asked", "answered"} /\ listFetch.clean \in BOOLEAN
  /\ selection \subseteq SidebarRows /\ elsewhere \in Nat /\ untoldChanges \in Nat
  /\ overtaken \in BOOLEAN /\ unanswered \in BOOLEAN
ListTypesInv == \E b \in Nat : ListTyped(b)

LEMMA RowMapGrows ==
  ASSUME NEW rows, NEW b \in Nat, RowMapUpTo(rows, b)
  PROVE  RowMapUpTo(rows, b + 1)
<1>1. RowUpTo(b) \subseteq RowUpTo(b + 1)
  BY DEF RowUpTo
<1> QED
  BY <1>1 DEF RowMapUpTo

LEMMA EditsGrow ==
  ASSUME NEW b \in Nat, NEW edits \in Seq(EditUpTo(b))
  PROVE  edits \in Seq(EditUpTo(b + 1))
<1>1. RowUpTo(b) \subseteq RowUpTo(b + 1)
  BY DEF RowUpTo
<1>2. EditUpTo(b) \subseteq EditUpTo(b + 1)
  BY <1>1 DEF EditUpTo
<1> QED
  BY <1>2

LEMMA TopPinIs ==
  ASSUME NEW rows, NEW b \in Nat, RowMapUpTo(rows, b)
  PROVE  TopPin(rows) \in 0 .. b + 1
<1> DEFINE pins == {rows[i].pin : i \in DOMAIN rows} \cup {0}
<1>1. \A i \in DOMAIN rows : rows[i].pin \in 0 .. b
  BY DEF RowMapUpTo, RowUpTo
<1>2. pins \in SUBSET Nat /\ pins # {} /\ \A x \in pins : x <= b
  BY <1>1
<1> HIDE DEF pins
<1>3. \E x \in pins : \A y \in pins : y <= x
  BY <1>2, LargestIs
<1>4. \E x \in pins : \A y \in pins : x >= y
  BY <1>2, <1>3
<1>5. Max(pins) \in pins
  BY <1>4 DEF Max
<1>6. TopPin(rows) = Max(pins) + 1
  BY DEF TopPin, pins
<1>7. Max(pins) \in Nat /\ Max(pins) <= b
  BY <1>2, <1>5
<1> QED
  BY <1>6, <1>7

LEMMA RowPatched ==
  ASSUME NEW rows, NEW b \in Nat, RowMapUpTo(rows, b), NEW id \in DOMAIN rows, NEW new \in RowUpTo(b)
  PROVE  RowMapUpTo([rows EXCEPT ![id] = new], b)
BY DEF RowMapUpTo

LEMMA RowChanged ==
  ASSUME NEW b \in Nat, NEW old \in RowUpTo(b), NEW title \in RowTitles, NEW pin \in 0 .. b
  PROVE  /\ [old EXCEPT !.title = title] \in RowUpTo(b) /\ [old EXCEPT !.pin = pin] \in RowUpTo(b)
         /\ old.title \in RowTitles /\ old.pin \in 0 .. b
BY DEF RowUpTo

LEMMA EditMoves ==
  ASSUME NEW b \in Nat, rowEdits \in Seq(EditUpTo(b)), NEW n \in EditNumbers, NEW at \in {"sent", "stored", "done"}
  PROVE  [rowEdits EXCEPT ![n].at = at] \in Seq(EditUpTo(b))
<1>1. rowEdits[n] \in EditUpTo(b)
  BY DEF EditNumbers
<1>2. [rowEdits[n] EXCEPT !.at = at] \in EditUpTo(b)
  BY <1>1 DEF EditUpTo
<1> QED
  BY <1>2 DEF EditNumbers

LEMMA EditSent ==
  ASSUME NEW b \in Nat, rowEdits \in Seq(EditUpTo(b)), NEW kind \in EditKinds, NEW ids \in SUBSET SidebarRows, NEW source \in SidebarRows,
         NEW title \in RowTitles, NEW pin \in 0 .. b, NEW before \in RowUpTo(b),
         SendEdit(kind, ids, source, title, pin, before)
  PROVE  rowEdits' \in Seq(EditUpTo(b))
BY DEF SendEdit, EditUpTo

-----------------------------------------------------------------------------
(* A step of the list leaves the types, perhaps with one pin more. *)
LEMMA ListTypesGrow ==
  ASSUME NEW b \in Nat, ListTyped(b)
  PROVE  ListTyped(b + 1)
BY RowMapGrows, EditsGrow DEF ListTyped, PinsUpTo

LEMMA SendingTyped ==
  ASSUME NEW b \in Nat, ListTyped(b), NEW id \in DOMAIN listCache
  PROVE  /\ listCache[id] \in RowUpTo(b) /\ listCache[id] \in RowUpTo(b + 1)
         /\ listCache[id].title \in RowTitles /\ listCache[id].pin \in 0 .. b /\ id \in SidebarRows
<1>1. RowMapUpTo(listCache, b) /\ RowMapUpTo(listCache, b + 1)
  BY RowMapGrows DEF ListTyped, PinsUpTo
<1>2. listCache[id] \in RowUpTo(b) /\ listCache[id] \in RowUpTo(b + 1) /\ id \in SidebarRows
  BY <1>1 DEF RowMapUpTo
<1> QED
  BY <1>2 DEF RowUpTo

LEMMA EditSendsTyped ==
  ASSUME NEW b \in Nat, ListTyped(b), NEW id \in SidebarRows,
         \/ \E title \in RowTitles : RenameRow(id, title)
         \/ PinRow(id)
         \/ \E source \in SidebarRows : BranchOffRow(source, id)
         \/ DeleteSelection
  PROVE  ListTyped(b + 1)'
<1> DEFINE c == b + 1
<1>1. c \in Nat /\ ListTyped(c) /\ 0 \in 0 .. c
  BY ListTypesGrow
<1>2. {"rename", "pin", "branch", "delete"} \subseteq EditKinds
  BY DEF EditKinds
<1>3. rowEdits \in Seq(EditUpTo(c)) /\ RowMapUpTo(listCache, c)
  BY <1>1 DEF ListTyped, PinsUpTo
<1> HIDE DEF c
<1>4. ASSUME NEW title \in RowTitles, RenameRow(id, title) PROVE ListTyped(c)'
  <2> DEFINE shown == listCache[id]
  <2>1. id \in DOMAIN listCache /\ SendEdit("rename", {id}, id, title, shown.pin, shown)
    BY <1>4 DEF RenameRow
  <2>2. shown \in RowUpTo(c) /\ shown.pin \in 0 .. c /\ id \in SidebarRows
    BY <2>1, SendingTyped DEF c
  <2>3. [shown EXCEPT !.title = title] \in RowUpTo(c)
    BY <1>1, <2>2, RowChanged
  <2>4. listCache' = [listCache EXCEPT ![id] = [shown EXCEPT !.title = title]]
    BY <1>4, <2>1 DEF RenameRow, PatchedRow
  <2> HIDE DEF shown
  <2>5. RowMapUpTo(listCache', c)
    BY <1>1, <1>3, <2>1, <2>3, <2>4, RowPatched
  <2>6. rowEdits' \in Seq(EditUpTo(c))
    BY <1>1, <1>2, <1>3, <2>1, <2>2, EditSent
  <2>7. listFetch' = [listFetch EXCEPT !.clean = FALSE] /\ overtaken' \in BOOLEAN
        /\ UNCHANGED <<storedRows, selection, elsewhere, untoldChanges, unanswered>>
    BY <1>1, <1>4 DEF RenameRow, Renaming, ListTyped
  <2>8. listFetch' = [at |-> listFetch.at, answer |-> listFetch.answer, clean |-> FALSE]
    BY <1>1, <2>7 DEF ListTyped
  <2> QED
    BY <1>1, <2>5, <2>6, <2>7, <2>8 DEF ListTyped, PinsUpTo
<1>5. ASSUME PinRow(id) PROVE ListTyped(c)'
  <2> DEFINE shown == listCache[id]
             pin == IF shown.pin = 0 THEN TopPin(listCache) ELSE 0
  <2>1. id \in DOMAIN listCache /\ SendEdit("pin", {id}, id, shown.title, pin, shown)
    BY <1>5 DEF PinRow
  <2>2. shown \in RowUpTo(c) /\ shown.title \in RowTitles /\ id \in SidebarRows
    BY <2>1, SendingTyped DEF c
  <2>3. pin \in 0 .. c
    BY <1>1, TopPinIs DEF c, ListTyped, PinsUpTo
  <2>4. listCache' = [listCache EXCEPT ![id] = [shown EXCEPT !.pin = pin]]
    BY <1>5, <2>1 DEF PinRow, PatchedRow
  <2> HIDE DEF shown, pin
  <2>5. [shown EXCEPT !.pin = pin] \in RowUpTo(c)
    BY <1>1, <2>2, <2>3, RowChanged
  <2>6. RowMapUpTo(listCache', c)
    BY <1>1, <1>3, <2>1, <2>4, <2>5, RowPatched
  <2>7. rowEdits' \in Seq(EditUpTo(c))
    BY <1>1, <1>2, <1>3, <2>1, <2>2, <2>3, EditSent
  <2>8. UNCHANGED <<storedRows, listFetch, selection, elsewhere, untoldChanges, overtaken, unanswered>>
    BY <1>5 DEF PinRow
  <2>9. PinsUpTo(c)'
    BY <1>1, <2>6, <2>7, <2>8 DEF ListTyped, PinsUpTo
  <2> QED
    BY <1>1, <2>8, <2>9 DEF ListTyped
<1>6. ASSUME NEW source \in SidebarRows, BranchOffRow(source, id) PROVE ListTyped(c)'
  <2> DEFINE shown == listCache[source]
  <2>1. PICK title \in RowTitles : source \in DOMAIN listCache /\ SendEdit("branch", {id}, source, title, 0, shown)
    BY <1>6 DEF BranchOffRow
  <2>2. shown \in RowUpTo(c)
    BY <2>1, SendingTyped DEF c
  <2> HIDE DEF shown
  <2>3. rowEdits' \in Seq(EditUpTo(c))
    BY <1>1, <1>2, <1>3, <2>1, <2>2, EditSent
  <2>4. UNCHANGED <<storedRows, listCache, listFetch, selection, elsewhere, untoldChanges, overtaken, unanswered>>
    BY <1>6 DEF BranchOffRow
  <2> QED
    BY <1>1, <2>3, <2>4 DEF ListTyped, PinsUpTo
<1>7. ASSUME DeleteSelection PROVE ListTyped(c)'
  <2> DEFINE some == CHOOSE i \in LiveSelection : TRUE
             shown == listCache[some]
  <2>1. LiveSelection # {} /\ SendEdit("delete", LiveSelection, some, shown.title, 0, shown)
    BY <1>7 DEF DeleteSelection
  <2>2. some \in LiveSelection
    BY <2>1
  <2>3. some \in DOMAIN listCache /\ LiveSelection \subseteq SidebarRows /\ some \in SidebarRows
    BY <1>1, <2>2 DEF LiveSelection, ListTyped
  <2> HIDE DEF some
  <2>4. shown \in RowUpTo(c) /\ shown.title \in RowTitles
    BY <2>3, SendingTyped DEF c
  <2> HIDE DEF shown
  <2>5. rowEdits' \in Seq(EditUpTo(c))
    BY <1>1, <1>2, <1>3, <2>1, <2>3, <2>4, EditSent
  <2>6. UNCHANGED <<storedRows, listCache, listFetch, selection, elsewhere, untoldChanges, overtaken, unanswered>>
    BY <1>7 DEF DeleteSelection
  <2>7. PinsUpTo(c)'
    BY <1>1, <2>5, <2>6 DEF ListTyped, PinsUpTo
  <2> QED
    BY <1>1, <2>6, <2>7 DEF ListTyped
<1> QED
  BY <1>4, <1>5, <1>6, <1>7 DEF c

LEMMA RefetchedByTyped ==
  ASSUME NEW c \in Nat, NEW fetch, NEW edits, listFetch' = RefetchedBy(fetch, edits)
  PROVE  /\ RowMapUpTo(listFetch'.answer, c)
         /\ listFetch' = [at |-> listFetch'.at, answer |-> listFetch'.answer, clean |-> listFetch'.clean]
         /\ listFetch'.at \in {"idle", "asked", "answered"} /\ listFetch'.clean \in BOOLEAN
<1>1. Renaming(edits) \in BOOLEAN
  BY DEF Renaming
<1>2. DOMAIN <<>> = {} /\ <<>> \in [{} -> RowUpTo(c)]
  OBVIOUS
<1> QED
  BY <1>1, <1>2 DEF RefetchedBy, RowMapUpTo

LEMMA AfterEditTyped ==
  ASSUME NEW b \in Nat, RowMapUpTo(storedRows, b), NEW edit \in EditUpTo(b)
  PROVE  RowMapUpTo(AfterEdit(edit), b + 1)
<1> DEFINE c == b + 1
           top == IF edit.pin = 0 THEN 0 ELSE TopPin(storedRows)
<1>1. RowMapUpTo(storedRows, c) /\ c \in Nat
  BY RowMapGrows
<1>2. \A i \in DOMAIN storedRows : storedRows[i] \in RowUpTo(c) /\ i \in SidebarRows
  BY <1>1 DEF RowMapUpTo
<1>3. edit.title \in RowTitles /\ edit.ids \subseteq SidebarRows
  BY DEF EditUpTo
<1>4. top \in 0 .. c
  BY TopPinIs
<1> HIDE DEF c, top
<1>5. \A i \in DOMAIN storedRows : /\ [storedRows[i] EXCEPT !.title = edit.title] \in RowUpTo(c)
                                   /\ [storedRows[i] EXCEPT !.pin = top] \in RowUpTo(c)
  BY <1>1, <1>2, <1>3, <1>4, RowChanged
<1>6. [title |-> edit.title, pin |-> 0] \in RowUpTo(c)
  BY <1>1, <1>3 DEF RowUpTo
<1>7. CASE edit.kind = "delete"
  BY <1>2, <1>7 DEF AfterEdit, RowMapUpTo, c
<1>8. CASE edit.kind = "branch"
  <2> DEFINE rows == [i \in DOMAIN storedRows \cup edit.ids |->
                        IF i \in edit.ids THEN [title |-> edit.title, pin |-> 0] ELSE storedRows[i]]
  <2>1. RowMapUpTo(rows, c)
    BY <1>2, <1>3, <1>6 DEF RowMapUpTo
  <2>2. AfterEdit(edit) = rows
    BY <1>8 DEF AfterEdit
  <2> QED
    BY <2>1, <2>2 DEF c
<1>9. CASE edit.kind = "rename"
  <2> DEFINE rows == [i \in DOMAIN storedRows |->
                        IF i \in edit.ids THEN [storedRows[i] EXCEPT !.title = edit.title] ELSE storedRows[i]]
  <2>1. RowMapUpTo(rows, c)
    BY <1>2, <1>5 DEF RowMapUpTo
  <2>2. AfterEdit(edit) = rows
    BY <1>9 DEF AfterEdit
  <2> QED
    BY <2>1, <2>2 DEF c
<1>10. CASE edit.kind \notin {"delete", "branch", "rename"}
  <2> DEFINE rows == [i \in DOMAIN storedRows |->
                        IF i \notin edit.ids THEN storedRows[i] ELSE [storedRows[i] EXCEPT !.pin = top]]
  <2>1. RowMapUpTo(rows, c)
    BY <1>2, <1>5 DEF RowMapUpTo
  <2>2. AfterEdit(edit) = rows
    BY <1>10 DEF AfterEdit, top
  <2> QED
    BY <2>1, <2>2 DEF c
<1> QED
  BY <1>7, <1>8, <1>9, <1>10

LEMMA StoreEditTyped ==
  ASSUME NEW b \in Nat, ListTyped(b), NEW n \in EditNumbers, StoreEdit(n)
  PROVE  ListTyped(b + 1)'
<1>1. ListTyped(b + 1) /\ b + 1 \in Nat
  BY ListTypesGrow
<1>2. rowEdits \in Seq(EditUpTo(b)) /\ RowMapUpTo(storedRows, b)
  BY DEF ListTyped, PinsUpTo
<1>3. rowEdits[n] \in EditUpTo(b)
  BY <1>2 DEF EditNumbers
<1>4. RowMapUpTo(storedRows', b + 1)
  BY <1>2, <1>3, AfterEditTyped DEF StoreEdit
<1>5. rowEdits' \in Seq(EditUpTo(b + 1))
  BY <1>1, EditMoves DEF StoreEdit, ListTyped, PinsUpTo
<1>6. UNCHANGED <<listCache, listFetch, selection, elsewhere, untoldChanges, overtaken, unanswered>>
  BY DEF StoreEdit
<1> QED
  BY <1>1, <1>4, <1>5, <1>6 DEF ListTyped, PinsUpTo

LEMMA EditSucceedsTyped ==
  ASSUME NEW b \in Nat, ListTyped(b), NEW n \in EditNumbers, EditSucceeds(n)
  PROVE  ListTyped(b)'
<1>1. rowEdits' \in Seq(EditUpTo(b))
  BY EditMoves DEF EditSucceeds, Finished, ListTyped, PinsUpTo
<1>2. /\ RowMapUpTo(listFetch'.answer, b)
      /\ listFetch' = [at |-> listFetch'.at, answer |-> listFetch'.answer, clean |-> listFetch'.clean]
      /\ listFetch'.at \in {"idle", "asked", "answered"} /\ listFetch'.clean \in BOOLEAN
  <2>1. CASE rowEdits[n].kind = "rename"
    <3>1. listFetch' = listFetch
      BY <2>1 DEF EditSucceeds
    <3> QED
      BY <3>1 DEF ListTyped, PinsUpTo
  <2>2. CASE rowEdits[n].kind # "rename"
    <3>1. listFetch' = RefetchedBy(listFetch, rowEdits')
      BY <2>2 DEF EditSucceeds
    <3> QED
      BY <3>1, RefetchedByTyped
  <2> QED
    BY <2>1, <2>2
<1>3. selection' \subseteq SidebarRows /\ UNCHANGED <<storedRows, listCache, elsewhere, untoldChanges, overtaken, unanswered>>
  BY DEF EditSucceeds, ListTyped
<1> QED
  BY <1>1, <1>2, <1>3 DEF ListTyped, PinsUpTo

LEMMA RolledBackTyped ==
  ASSUME NEW b \in Nat, RowMapUpTo(listCache, b), NEW edit \in EditUpTo(b)
  PROVE  RowMapUpTo(RolledBack(edit), b)
<1> DEFINE id == CHOOSE i \in edit.ids : TRUE
           shown == listCache[id]
<1>1. edit.before \in RowUpTo(b)
  BY DEF EditUpTo
<1>2. edit.before.title \in RowTitles /\ edit.before.pin \in 0 .. b
  BY <1>1 DEF RowUpTo
<1> HIDE DEF id
<1>3. ASSUME id \in DOMAIN listCache
      PROVE  /\ RowMapUpTo([listCache EXCEPT ![id] = [shown EXCEPT !.title = edit.before.title]], b)
             /\ RowMapUpTo([listCache EXCEPT ![id] = [shown EXCEPT !.pin = edit.before.pin]], b)
  <2>1. shown \in RowUpTo(b)
    BY <1>3 DEF RowMapUpTo
  <2> HIDE DEF shown
  <2>2. /\ [shown EXCEPT !.title = edit.before.title] \in RowUpTo(b)
        /\ [shown EXCEPT !.pin = edit.before.pin] \in RowUpTo(b)
    BY <1>2, <2>1, RowChanged
  <2> QED
    BY <1>3, <2>2, RowPatched
<1> HIDE DEF shown
<1>4. \/ RolledBack(edit) = listCache
      \/ id \in DOMAIN listCache /\ RolledBack(edit) = [listCache EXCEPT ![id] = [shown EXCEPT !.title = edit.before.title]]
      \/ id \in DOMAIN listCache /\ RolledBack(edit) = [listCache EXCEPT ![id] = [shown EXCEPT !.pin = edit.before.pin]]
  BY DEF RolledBack, PatchedRow, id, shown
<1> QED
  BY <1>3, <1>4

LEMMA EditFailsTyped ==
  ASSUME NEW b \in Nat, ListTyped(b), NEW n \in EditNumbers, EditFails(n)
  PROVE  ListTyped(b)'
<1> DEFINE edit == rowEdits[n]
<1>1. rowEdits' \in Seq(EditUpTo(b))
  BY EditMoves DEF EditFails, Finished, ListTyped, PinsUpTo
<1>2. edit \in EditUpTo(b) /\ RowMapUpTo(listCache, b)
  BY DEF EditNumbers, ListTyped, PinsUpTo
<1>3. /\ listFetch' = listFetch \/ listFetch' = RefetchedBy(listFetch, rowEdits')
      /\ unanswered' = (unanswered \/ (edit.kind \in {"branch", "delete"} /\ edit.at = "stored"))
  BY DEF EditFails
<1>4. listCache' = RolledBack(edit)
  BY DEF EditFails
<1> HIDE DEF edit
<1>5. RowMapUpTo(listCache', b)
  BY <1>2, <1>4, RolledBackTyped
<1>6. /\ RowMapUpTo(listFetch'.answer, b)
      /\ listFetch' = [at |-> listFetch'.at, answer |-> listFetch'.answer, clean |-> listFetch'.clean]
      /\ listFetch'.at \in {"idle", "asked", "answered"} /\ listFetch'.clean \in BOOLEAN
  <2>1. CASE listFetch' = listFetch
    BY <2>1 DEF ListTyped, PinsUpTo
  <2>2. CASE listFetch' = RefetchedBy(listFetch, rowEdits')
    BY <2>2, RefetchedByTyped
  <2> QED
    BY <1>3, <2>1, <2>2
<1>7. unanswered' \in BOOLEAN /\ UNCHANGED <<storedRows, selection, elsewhere, untoldChanges, overtaken>>
  BY <1>3 DEF EditFails, ListTyped
<1> QED
  BY <1>1, <1>5, <1>6, <1>7 DEF ListTyped, PinsUpTo

LEMMA ChangeElsewhereTyped ==
  ASSUME NEW b \in Nat, ListTyped(b), NEW id \in SidebarRows, ChangeElsewhere(id)
  PROVE  ListTyped(b + 1)'
<1> DEFINE c == b + 1
           old == storedRows[id]
           top == IF old.pin = 0 THEN TopPin(storedRows) ELSE 0
<1>1. ListTyped(c) /\ c \in Nat
  BY ListTypesGrow
<1>2. top \in 0 .. c
  BY TopPinIs DEF ListTyped, PinsUpTo
<1> HIDE DEF c
<1>3. RowMapUpTo(storedRows, c) /\ id \in DOMAIN storedRows
  BY <1>1 DEF ChangeElsewhere, ListTyped, PinsUpTo
<1>4. old \in RowUpTo(c)
  BY <1>3 DEF RowMapUpTo
<1>5. \/ \E title \in RowTitles : storedRows' = [storedRows EXCEPT ![id] = [old EXCEPT !.title = title]]
      \/ storedRows' = [storedRows EXCEPT ![id] = [old EXCEPT !.pin = top]]
      \/ storedRows' = [i \in DOMAIN storedRows \ {id} |-> storedRows[i]]
  BY DEF ChangeElsewhere
<1> HIDE DEF old, top
<1>6. RowMapUpTo(storedRows', c)
  <2>1. ASSUME NEW title \in RowTitles, storedRows' = [storedRows EXCEPT ![id] = [old EXCEPT !.title = title]]
        PROVE  RowMapUpTo(storedRows', c)
    <3>1. [old EXCEPT !.title = title] \in RowUpTo(c)
      BY <1>1, <1>2, <1>4, RowChanged
    <3> QED
      BY <1>1, <1>3, <2>1, <3>1, RowPatched
  <2>2. ASSUME storedRows' = [storedRows EXCEPT ![id] = [old EXCEPT !.pin = top]]
        PROVE  RowMapUpTo(storedRows', c)
    <3>1. [old EXCEPT !.pin = top] \in RowUpTo(c)
      BY <1>2, <1>4 DEF RowUpTo
    <3> QED
      BY <1>1, <1>3, <2>2, <3>1, RowPatched
  <2>3. ASSUME storedRows' = [i \in DOMAIN storedRows \ {id} |-> storedRows[i]]
        PROVE  RowMapUpTo(storedRows', c)
    BY <1>3, <2>3 DEF RowMapUpTo
  <2> QED
    BY <1>5, <2>1, <2>2, <2>3
<1>7. /\ elsewhere' \in Nat /\ untoldChanges' \in Nat
      /\ UNCHANGED <<listCache, listFetch, rowEdits, selection, overtaken, unanswered>>
  BY <1>1 DEF ChangeElsewhere, ListTyped
<1>8. ListTyped(c)'
  BY <1>1, <1>6, <1>7 DEF ListTyped, PinsUpTo
<1> QED
  BY <1>8 DEF c

LEMMA ListReadsTyped ==
  ASSUME NEW b \in Nat, ListTyped(b), HearListChanged \/ AnswerRows \/ LoadRows
  PROVE  ListTyped(b)'
<1>1. CASE HearListChanged
  <2>1. listFetch' = RefetchedBy(listFetch, rowEdits)
    BY <1>1 DEF HearListChanged
  <2>2. /\ RowMapUpTo(listFetch'.answer, b)
        /\ listFetch' = [at |-> listFetch'.at, answer |-> listFetch'.answer, clean |-> listFetch'.clean]
        /\ listFetch'.at \in {"idle", "asked", "answered"} /\ listFetch'.clean \in BOOLEAN
    BY <2>1, RefetchedByTyped
  <2>3. untoldChanges' \in Nat /\ UNCHANGED <<storedRows, listCache, rowEdits, selection, elsewhere, overtaken, unanswered>>
    BY <1>1 DEF HearListChanged, ListTyped
  <2> QED
    BY <2>2, <2>3 DEF ListTyped, PinsUpTo
<1>2. CASE AnswerRows
  <2>1. listFetch' = [at |-> "answered", answer |-> storedRows, clean |-> listFetch.clean]
    BY <1>2 DEF AnswerRows, ListTyped
  <2>2. UNCHANGED <<storedRows, listCache, rowEdits, selection, elsewhere, untoldChanges, overtaken, unanswered>>
    BY <1>2 DEF AnswerRows
  <2> QED
    BY <2>1, <2>2 DEF ListTyped, PinsUpTo
<1>3. CASE LoadRows
  <2>1. listFetch' = [at |-> "idle", answer |-> <<>>, clean |-> listFetch.clean]
    BY <1>3 DEF LoadRows, ListTyped
  <2>2. RowMapUpTo(<<>>, b)
    BY DEF RowMapUpTo
  <2>3. listCache' = listFetch.answer /\ overtaken' = ~listFetch.clean
        /\ UNCHANGED <<storedRows, rowEdits, selection, elsewhere, untoldChanges, unanswered>>
    BY <1>3 DEF LoadRows
  <2> QED
    BY <2>1, <2>2, <2>3 DEF ListTyped, PinsUpTo
<1> QED
  BY <1>1, <1>2, <1>3

LEMMA ListTypedInitially ==
  ASSUME ListRowsInit PROVE ListTyped(0)
<1> DEFINE some == CHOOSE title \in RowTitles : TRUE
<1>1. some \in RowTitles
  BY ListRowsAssumption
<1>2. PICK ids \in SUBSET SidebarRows : storedRows = [i \in ids |-> [title |-> some, pin |-> 0]]
  BY DEF ListRowsInit
<1> HIDE DEF some
<1>3. RowMapUpTo(storedRows, 0) /\ listCache = storedRows
  BY <1>1, <1>2 DEF RowMapUpTo, RowUpTo, ListRowsInit
<1>4. RowMapUpTo(<<>>, 0)
  BY DEF RowMapUpTo
<1>5. listFetch = [at |-> "idle", answer |-> <<>>, clean |-> TRUE]
  BY DEF ListRowsInit
<1>6. rowEdits = <<>> /\ <<>> \in Seq(EditUpTo(0))
  BY DEF ListRowsInit
<1>7. PinsUpTo(0)
  BY <1>3, <1>4, <1>5, <1>6 DEF PinsUpTo
<1>8. /\ selection = {} /\ elsewhere = 0 /\ untoldChanges = 0
      /\ overtaken = FALSE /\ unanswered = FALSE
  BY DEF ListRowsInit
<1> QED
  BY <1>5, <1>7, <1>8 DEF ListTyped

LEMMA ListTypesStay ==
  ASSUME ListTypesInv, [ListRowsNext]_rowVars PROVE ListTypesInv'
<1>1. PICK b \in Nat : ListTyped(b)
  BY DEF ListTypesInv
<1>2. b + 1 \in Nat
  OBVIOUS
<1>3. ASSUME NEW id \in SidebarRows,
             \/ \E title \in RowTitles : RenameRow(id, title)
             \/ PinRow(id)
             \/ \E source \in SidebarRows : BranchOffRow(source, id)
      PROVE  ListTyped(b + 1)'
  BY <1>1, <1>3, EditSendsTyped
<1>4. ASSUME DeleteSelection PROVE ListTyped(b + 1)'
  <2>1. PICK id \in LiveSelection : TRUE
    BY <1>4 DEF DeleteSelection
  <2>2. id \in SidebarRows
    BY <1>1, <2>1 DEF LiveSelection, ListTyped
  <2> QED
    BY <1>1, <1>4, <2>2, EditSendsTyped
<1>5. ASSUME NEW id \in SidebarRows, ToggleRow(id) PROVE ListTyped(b)'
  <2>1. selection' \subseteq SidebarRows
    BY <1>1, <1>5 DEF ToggleRow, ListTyped
  <2>2. UNCHANGED <<storedRows, listCache, listFetch, rowEdits, elsewhere, untoldChanges, overtaken, unanswered>>
    BY <1>5 DEF ToggleRow
  <2> QED
    BY <1>1, <2>1, <2>2 DEF ListTyped, PinsUpTo
<1>6. ASSUME NEW id \in SidebarRows, ChangeElsewhere(id) PROVE ListTyped(b + 1)'
  BY <1>1, <1>6, ChangeElsewhereTyped
<1>7. ASSUME NEW n \in EditNumbers, StoreEdit(n) \/ EditSucceeds(n) \/ EditFails(n)
      PROVE  ListTyped(b)' \/ ListTyped(b + 1)'
  BY <1>1, <1>7, StoreEditTyped, EditSucceedsTyped, EditFailsTyped
<1>8. ASSUME HearListChanged \/ AnswerRows \/ LoadRows PROVE ListTyped(b)'
  BY <1>1, <1>8, ListReadsTyped
<1>9. ASSUME UNCHANGED rowVars PROVE ListTyped(b)'
  BY <1>1, <1>9 DEF rowVars, ListTyped, PinsUpTo
<1>10. ListTyped(b)' \/ ListTyped(b + 1)'
  BY <1>3, <1>4, <1>5, <1>6, <1>7, <1>8, <1>9 DEF ListRowsNext
<1> QED
  BY <1>2, <1>10 DEF ListTypesInv

(* The list, its cache and the edits have their types, for any number of   *)
(* edits: the pin counter of togglePin goes up but stays a number.         *)
THEOREM ListRowsTypes == ListRowsSpec => []ListRowsTypeOK
<1>1. ListRowsInit => ListTypesInv
  BY ListTypedInitially DEF ListTypesInv
<1>2. ListTypesInv /\ [ListRowsNext]_rowVars => ListTypesInv'
  BY ListTypesStay
<1>3. ListTypesInv => ListRowsTypeOK
  <2> SUFFICES ASSUME NEW b \in Nat, ListTyped(b) PROVE ListRowsTypeOK
    BY DEF ListTypesInv
  <2>1. RowUpTo(b) \subseteq SidebarRow
    BY DEF RowUpTo, SidebarRow
  <2>2. EditUpTo(b) \subseteq RowEdit
    BY <2>1 DEF EditUpTo, RowEdit, EditKinds
  <2>3. IsRowMap(storedRows) /\ IsRowMap(listCache) /\ IsRowMap(listFetch.answer)
    BY <2>1 DEF ListTyped, PinsUpTo, RowMapUpTo, IsRowMap
  <2>4. \A n \in EditNumbers : rowEdits[n] \in RowEdit
    BY <2>2 DEF ListTyped, PinsUpTo, EditNumbers
  <2> QED
    BY <2>3, <2>4 DEF ListTyped, ListRowsTypeOK
<1> QED
  BY <1>1, <1>2, <1>3, PTL DEF ListRowsSpec

-----------------------------------------------------------------------------
(***************************************************************************)
(* OverridePicker.  Details, writes and sends are records; what a model is *)
(* plays no part.                                                          *)
(***************************************************************************)
IsDetail(d) == d = [has |-> d.has, model |-> d.model] /\ d.has \in BOOLEAN

PickStates == {"sent", "stored", "done", "failed"}
IsPick(w) ==
  /\ w.at \in PickStates /\ w.asDraft \in BOOLEAN /\ w.dialog \in BOOLEAN /\ w.alone \in BOOLEAN
  /\ w = [value |-> w.value, previous |-> w.previous, seed |-> w.seed, asDraft |-> w.asDraft,
          dialog |-> w.dialog, at |-> w.at, alone |-> w.alone]
IsPicks(writes) == writes \in Seq(Range(writes)) /\ \A i \in 1 .. Len(writes) : IsPick(writes[i])

IsSend(s) == s = [at |-> s.at, gate |-> s.gate, body |-> s.body, used |-> s.used, seen |-> s.seen]
IsSends(sends) == sends \in Seq(Range(sends)) /\ \A k \in 1 .. Len(sends) : IsSend(sends[k])

Kept(w) == w.at \in {"stored", "done"}
NoneStored(writes) == \A i \in 1 .. Len(writes) : writes[i].at # "stored"

(* The choice i stands, all later ones before n having failed.             *)
StandsAs(writes, i, n) ==
  /\ i \in 1 .. Len(writes) /\ i < n /\ writes[i].at # "failed"
  /\ \A j \in 1 .. Len(writes) : i < j /\ j < n => writes[j].at = "failed"

(* A local choice is the seed it was made over, or stands over that seed;  *)
(* a draft is none, or a choice that stands, or what a dialog left whose   *)
(* write failed.                                                           *)
LocalStands(writes, seed, value, n) ==
  \/ value = seed
  \/ \E i : StandsAs(writes, i, n) /\ ~writes[i].dialog /\ writes[i].seed = seed /\ writes[i].value = value
LeftBehind(writes, i) == i \in 1 .. Len(writes) /\ writes[i].dialog /\ writes[i].at = "failed"
DraftStands(writes, value, n) ==
  value = Inherit \/ \E i : (StandsAs(writes, i, n) \/ LeftBehind(writes, i)) /\ writes[i].value = value

PickerTyped ==
  /\ IsDetail(row) /\ IsDetail(cachedRow) /\ IsDetail(rowFetch.answer)
  /\ rowFetch = [at |-> rowFetch.at, answer |-> rowFetch.answer]
  /\ picker = [seed |-> picker.seed, value |-> picker.value, latest |-> picker.value, draft |-> picker.draft]
  /\ IsPicks(picks) /\ IsSends(pickerSends) /\ murky \in BOOLEAN

(* Rows are created and stay, and a choice is a draft while none is cached. *)
RowsAppear ==
  /\ cachedRow.has => row.has
  /\ rowFetch.at = "answered" => (cachedRow.has => rowFetch.answer.has) /\ (rowFetch.answer.has => row.has)
  /\ \A i \in 1 .. Len(picks) : /\ Kept(picks[i]) => row.has
                                /\ ~picks[i].asDraft => cachedRow.has
                                /\ picks[i].dialog => i = 1 /\ ~picks[i].alone

(* Writes are stored in the order they were made. *)
LastKept ==
  /\ \A i \in 1 .. Len(picks) :
       Kept(picks[i]) /\ (\A j \in 1 .. Len(picks) : i < j => ~Kept(picks[j])) => row.model = picks[i].value
  /\ (\A i \in 1 .. Len(picks) : ~Kept(picks[i])) => row.model = Inherit

(* The local choice stands, and so does the one a write would bring back;  *)
(* without a row the same is true of the draft, which is what is shown.    *)
ChoicesStand ==
  /\ LocalStands(picks, picker.seed, picker.value, Len(picks) + 1)
  /\ \A i \in 1 .. Len(picks) : picks[i].at = "sent" => LocalStands(picks, picks[i].seed, picks[i].previous, i)
DraftsStand ==
  ~row.has =>
    /\ DraftStands(picks, picker.draft, Len(picks) + 1)
    /\ \A i \in 1 .. Len(picks) :
         picks[i].at = "sent" /\ ~picks[i].dialog => DraftStands(picks, picks[i].previous, i)
DraftShown ==
  ~cachedRow.has => \/ picker.value = picker.draft
                    \/ Len(picks) = 1 /\ picks[1].dialog /\ picker.seed = picker.value

DetailFresh ==
  NoneStored(picks) =>
    /\ rowFetch.at = "idle" => cachedRow = row
    /\ rowFetch.at = "answered" => rowFetch.answer = row

CalmInv == ~murky => LastKept /\ ChoicesStand /\ DraftsStand /\ DraftShown /\ DetailFresh

PickerInv == PickerTyped /\ RowsAppear /\ CalmInv

-----------------------------------------------------------------------------
LEMMA PicksAre ==
  ASSUME NEW writes, IsPicks(writes)
  PROVE  Len(writes) \in Nat /\ \A i \in 1 .. Len(writes) : IsPick(writes[i])
<1>1. writes \in Seq(Range(writes))
  BY DEF IsPicks
<1> QED
  BY <1>1, LenProperties DEF IsPicks

LEMMA PickAdded ==
  ASSUME IsPicks(picks), NEW w, IsPick(w), picks' = Append(picks, w)
  PROVE  /\ IsPicks(picks') /\ Len(picks') = Len(picks) + 1 /\ picks'[Len(picks')] = w
         /\ \A i \in 1 .. Len(picks) : picks'[i] = picks[i]
         /\ \A i \in 1 .. Len(picks') : i \in 1 .. Len(picks) \/ i = Len(picks')
<1> DEFINE S == Range(picks) \cup {w}
<1>1. picks \in Seq(Range(picks))
  BY DEF IsPicks
<1>2. picks \in Seq(S) /\ w \in S
  BY <1>1
<1> HIDE DEF S
<1>3. /\ picks' \in Seq(S) /\ Len(picks') = Len(picks) + 1 /\ picks'[Len(picks) + 1] = w
      /\ \A i \in 1 .. Len(picks) : picks'[i] = picks[i]
  BY <1>2, AppendProperties
<1>4. Len(picks) \in Nat
  BY <1>1, LenProperties
<1>5. \A i \in 1 .. Len(picks') : i \in 1 .. Len(picks) \/ i = Len(picks')
  BY <1>3, <1>4
<1>6. picks' \in Seq(Range(picks'))
  BY <1>3, SeqOfRange
<1>7. \A i \in 1 .. Len(picks') : IsPick(picks'[i])
  BY <1>3, <1>5 DEF IsPicks
<1> QED
  BY <1>3, <1>5, <1>6, <1>7 DEF IsPicks

(* A write that moves on stays the write it was. *)
SamePick(w, v) == /\ w.value = v.value /\ w.previous = v.previous /\ w.seed = v.seed
                  /\ w.asDraft = v.asDraft /\ w.dialog = v.dialog /\ w.alone = v.alone

LEMMA PickMoves ==
  ASSUME IsPicks(picks), NEW i \in 1 .. Len(picks), NEW at \in PickStates, picks' = [picks EXCEPT ![i].at = at]
  PROVE  /\ IsPicks(picks') /\ Len(picks') = Len(picks) /\ picks'[i].at = at
         /\ \A j \in 1 .. Len(picks) : SamePick(picks'[j], picks[j]) /\ (j # i => picks'[j].at = picks[j].at)
<1> DEFINE w == picks[i]
           f == [value |-> w.value, previous |-> w.previous, seed |-> w.seed, asDraft |-> w.asDraft,
                 dialog |-> w.dialog, at |-> at, alone |-> w.alone]
           S == Range(picks) \cup {f}
<1>1. picks \in Seq(Range(picks)) /\ \A j \in 1 .. Len(picks) : IsPick(picks[j])
  BY DEF IsPicks
<1>2. [w EXCEPT !.at = at] = f
  <2>1. IsPick(w)
    BY <1>1
  <2> QED
    BY <2>1 DEF IsPick
<1>3. picks' = [picks EXCEPT ![i] = f]
  BY <1>2
<1>4. picks \in Seq(S) /\ f \in S
  BY <1>1
<1>5. IsPick(f) /\ f.at = at /\ SamePick(f, picks[i])
  BY <1>1 DEF IsPick, SamePick
<1> HIDE DEF w, f, S
<1>6. /\ picks' \in Seq(S) /\ Len(picks') = Len(picks) /\ picks'[i] = f
      /\ \A j \in 1 .. Len(picks) : j # i => picks'[j] = picks[j]
  BY <1>3, <1>4
<1>7. picks' \in Seq(Range(picks'))
  BY <1>6, SeqOfRange
<1>8. \A j \in 1 .. Len(picks') : IsPick(picks'[j])
  BY <1>1, <1>5, <1>6
<1>9. \A j \in 1 .. Len(picks) : SamePick(picks'[j], picks[j]) /\ (j # i => picks'[j].at = picks[j].at)
  BY <1>5, <1>6 DEF SamePick
<1> QED
  BY <1>5, <1>6, <1>7, <1>8, <1>9 DEF IsPicks

LEMMA SendSees ==
  ASSUME NEW s, IsSend(s), NEW value
  PROVE  [s EXCEPT !.seen = s.seen \cup {value}]
           = [at |-> s.at, gate |-> s.gate, body |-> s.body, used |-> s.used, seen |-> s.seen \cup {value}]
<1> DEFINE seen == s.seen \cup {value}
<1>1. s = [at |-> s.at, gate |-> s.gate, body |-> s.body, used |-> s.used, seen |-> s.seen]
  BY DEF IsSend
<1> HIDE DEF seen
<1>2. [s EXCEPT !.seen = seen] = [at |-> s.at, gate |-> s.gate, body |-> s.body, used |-> s.used, seen |-> seen]
  BY <1>1
<1> QED
  BY <1>2 DEF seen

(* The sends under way see what is drawn. *)
LEMMA Redrawn ==
  ASSUME NEW d, NEW p, NEW sends, IsSends(sends), Redraws(d, p, sends)
  PROVE  /\ cachedRow' = d /\ picker' = p
         /\ IsSends(pickerSends') /\ Len(pickerSends') = Len(sends) /\ Len(sends) \in Nat
         /\ \A k \in 1 .. Len(sends) :
              /\ pickerSends'[k].at = sends[k].at /\ pickerSends'[k].gate = sends[k].gate
              /\ pickerSends'[k].body = sends[k].body /\ pickerSends'[k].used = sends[k].used
              /\ sends[k].at = "finished" => pickerSends'[k].seen = sends[k].seen
              /\ sends[k].at # "finished" => pickerSends'[k].seen = sends[k].seen \cup {Shown(d, p)}
<1> DEFINE s(k)   == sends[k]
           add(k) == [at |-> s(k).at, gate |-> s(k).gate, body |-> s(k).body, used |-> s(k).used,
                      seen |-> s(k).seen \cup {Shown(d, p)}]
           new(k) == IF s(k).at = "finished" THEN s(k) ELSE add(k)
           S      == {new(k) : k \in 1 .. Len(sends)}
<1>1. Len(sends) \in Nat /\ \A k \in 1 .. Len(sends) : IsSend(s(k))
  <2>1. sends \in Seq(Range(sends))
    BY DEF IsSends
  <2> QED
    BY <2>1, LenProperties DEF IsSends
<1>2. ASSUME NEW k \in 1 .. Len(sends)
      PROVE  (IF s(k).at = "finished" THEN s(k) ELSE [s(k) EXCEPT !.seen = @ \cup {Shown(d, p)}]) = new(k)
  <2>1. [s(k) EXCEPT !.seen = s(k).seen \cup {Shown(d, p)}] = add(k)
    BY <1>1, SendSees
  <2> QED
    BY <2>1
<1>3. pickerSends' = [k \in 1 .. Len(sends) |-> new(k)]
  BY <1>2 DEF Redraws
<1>4. \A k \in 1 .. Len(sends) : new(k) \in S /\ IsSend(new(k))
  BY <1>1 DEF IsSend
<1>5. \A k \in 1 .. Len(sends) :
        /\ new(k).at = s(k).at /\ new(k).gate = s(k).gate
        /\ new(k).body = s(k).body /\ new(k).used = s(k).used
        /\ s(k).at = "finished" => new(k).seen = s(k).seen
        /\ s(k).at # "finished" => new(k).seen = s(k).seen \cup {Shown(d, p)}
  OBVIOUS
<1> HIDE DEF new, S
<1>6. pickerSends' \in [1 .. Len(sends) -> S]
  BY <1>3, <1>4
<1>7. pickerSends' \in Seq(S) /\ Len(pickerSends') = Len(sends)
  BY <1>1, <1>6, IsASeq
<1>8. pickerSends' \in Seq(Range(pickerSends'))
  BY <1>7, SeqOfRange
<1>9. \A k \in 1 .. Len(sends) : pickerSends'[k] = new(k)
  BY <1>3
<1>10. IsSends(pickerSends')
  BY <1>4, <1>7, <1>8, <1>9 DEF IsSends
<1>11. cachedRow' = d /\ picker' = p
  BY DEF Redraws
<1> QED
  BY <1>1, <1>5, <1>7, <1>9, <1>10, <1>11

(* A choice that stands goes on standing while others are added after, or  *)
(* fail.                                                                   *)
LEMMA StandsOn ==
  ASSUME IsPicks(picks), NEW i, NEW n, StandsAs(picks, i, n), IsPicks(picks'),
         \/ /\ Len(picks') = Len(picks) + 1 /\ n \in 1 .. Len(picks) + 1
            /\ \A j \in 1 .. Len(picks) : picks'[j] = picks[j]
         \/ /\ Len(picks') = Len(picks) /\ picks'[i].at # "failed"
            /\ \A j \in 1 .. Len(picks) : picks[j].at = "failed" => picks'[j].at = "failed"
  PROVE  StandsAs(picks', i, n)
<1>1. Len(picks) \in Nat
  BY PicksAre
<1>2. CASE Len(picks') = Len(picks) + 1
  <2>1. n \in 1 .. Len(picks) + 1 /\ \A j \in 1 .. Len(picks) : picks'[j] = picks[j]
    BY <1>1, <1>2
  <2>2. \A j \in 1 .. Len(picks') : j < n => j \in 1 .. Len(picks)
    BY <1>1, <1>2, <2>1
  <2>3. i \in 1 .. Len(picks')
    BY <1>1, <1>2 DEF StandsAs
  <2> QED
    BY <2>1, <2>2, <2>3 DEF StandsAs
<1>3. CASE Len(picks') = Len(picks)
  <2>1. picks'[i].at # "failed" /\ \A j \in 1 .. Len(picks) : picks[j].at = "failed" => picks'[j].at = "failed"
    BY <1>1, <1>3
  <2> QED
    BY <1>3, <2>1 DEF StandsAs
<1> QED
  BY <1>2, <1>3

(* Without a cached row the draft is shown. *)
LEMMA DraftIsShown ==
  ASSUME DraftShown, ~cachedRow.has
  PROVE  Shown(cachedRow, picker) = picker.draft /\ Seeded(cachedRow, picker) = picker.draft
BY DEF DraftShown, Shown, Seeded

LEMMA NoRowIs == IsDetail(NoRow)
BY DEF IsDetail, NoRow

-----------------------------------------------------------------------------
(* One more write: the frame of PickModel and CreateAdvanced. *)
LEMMA OneMorePick ==
  ASSUME PickerInv, NEW w, IsPick(w), picks' = Append(picks, w), w.at = "sent",
         ~w.asDraft => cachedRow.has, w.dialog => Len(picks) = 0 /\ ~w.alone,
         UNCHANGED <<row, cachedRow, rowFetch, murky>>
  PROVE  /\ Len(picks) \in Nat /\ IsPicks(picks') /\ Len(picks') = Len(picks) + 1 /\ picks'[Len(picks')] = w
         /\ \A i \in 1 .. Len(picks) : picks'[i] = picks[i]
         /\ \A i \in 1 .. Len(picks') : i \in 1 .. Len(picks) \/ i = Len(picks')
         /\ RowsAppear' /\ (LastKept => LastKept') /\ (DetailFresh => DetailFresh')
<1>1. /\ Len(picks) \in Nat /\ IsPicks(picks') /\ Len(picks') = Len(picks) + 1 /\ picks'[Len(picks')] = w
      /\ \A i \in 1 .. Len(picks) : picks'[i] = picks[i]
      /\ \A i \in 1 .. Len(picks') : i \in 1 .. Len(picks) \/ i = Len(picks')
  BY PickAdded, PicksAre DEF PickerInv, PickerTyped
<1>2. \A i \in 1 .. Len(picks) : i \in 1 .. Len(picks')
  BY <1>1
<1>3. ~Kept(w)
  BY DEF Kept
<1>4. RowsAppear'
  <2>1. ASSUME NEW i \in 1 .. Len(picks')
        PROVE  /\ Kept(picks'[i]) => row'.has
               /\ ~picks'[i].asDraft => cachedRow'.has
               /\ picks'[i].dialog => i = 1 /\ ~picks'[i].alone
    <3>1. CASE i \in 1 .. Len(picks)
      BY <1>1, <3>1 DEF PickerInv, RowsAppear
    <3>2. CASE i = Len(picks')
      BY <1>1, <1>3, <3>2
    <3> QED
      BY <1>1, <3>1, <3>2
  <2> QED
    BY <2>1 DEF PickerInv, RowsAppear
<1>5. LastKept => LastKept'
  <2> SUFFICES ASSUME LastKept PROVE LastKept'
    OBVIOUS
  <2>1. ASSUME NEW i \in 1 .. Len(picks'), Kept(picks'[i]), \A j \in 1 .. Len(picks') : i < j => ~Kept(picks'[j])
        PROVE  row'.model = picks'[i].value
    <3>1. i \in 1 .. Len(picks) /\ Kept(picks[i]) /\ picks'[i] = picks[i]
      BY <1>1, <1>3, <2>1
    <3>2. \A j \in 1 .. Len(picks) : i < j => ~Kept(picks[j])
      BY <1>1, <1>2, <2>1
    <3> QED
      BY <3>1, <3>2 DEF LastKept
  <2>2. (\A i \in 1 .. Len(picks') : ~Kept(picks'[i])) => row'.model = Inherit
    BY <1>1, <1>2 DEF LastKept
  <2> QED
    BY <2>1, <2>2 DEF LastKept
<1>6. NoneStored(picks') => NoneStored(picks)
  BY <1>1, <1>2 DEF NoneStored
<1>7. DetailFresh => DetailFresh'
  BY <1>6 DEF DetailFresh
<1> QED
  BY <1>1, <1>4, <1>5, <1>7

LEMMA PickModelStep ==
  ASSUME PickerInv, NEW next, PickModel(next)
  PROVE  PickerInv'
<1> DEFINE seed == Seeded(cachedRow, picker)
           was  == Shown(cachedRow, picker)
           n    == Len(picks)
           w == [value |-> next, previous |-> was, seed |-> seed, asDraft |-> ~cachedRow.has, dialog |-> FALSE,
                 at |-> "sent", alone |-> PickerQuiet]
           p == [seed |-> seed, value |-> next, latest |-> next, draft |-> IF ~cachedRow.has THEN next ELSE picker.draft]
<1>1. picks' = Append(picks, w) /\ Redraws(cachedRow, p, pickerSends) /\ UNCHANGED <<row, rowFetch, murky>>
  BY DEF PickModel
<1>2. /\ IsPick(w) /\ w.at = "sent" /\ (~w.asDraft => cachedRow.has) /\ ~w.dialog
      /\ w.value = next /\ w.seed = seed /\ w.previous = was
  <2>1. PickerQuiet \in BOOLEAN /\ (~cachedRow.has) \in BOOLEAN
    BY DEF PickerQuiet
  <2> HIDE DEF seed, was
  <2> QED
    BY <2>1 DEF IsPick, PickStates
<1>3. p.seed = seed /\ p.value = next /\ p.latest = next /\ p.draft = (IF ~cachedRow.has THEN next ELSE picker.draft)
      /\ p = [seed |-> p.seed, value |-> p.value, latest |-> p.value, draft |-> p.draft]
  OBVIOUS
<1> HIDE DEF w, p
<1>4. cachedRow' = cachedRow /\ picker' = p /\ IsSends(pickerSends')
  BY <1>1, Redrawn DEF PickerInv, PickerTyped
<1>5. /\ n \in Nat /\ IsPicks(picks') /\ Len(picks') = n + 1 /\ picks'[Len(picks')] = w
      /\ \A i \in 1 .. n : picks'[i] = picks[i]
      /\ \A i \in 1 .. Len(picks') : i \in 1 .. n \/ i = Len(picks')
      /\ RowsAppear' /\ (LastKept => LastKept') /\ (DetailFresh => DetailFresh')
  BY <1>1, <1>2, <1>4, OneMorePick
<1>6. PickerTyped'
  BY <1>1, <1>3, <1>4, <1>5 DEF PickerInv, PickerTyped
<1>7. ASSUME ~murky' PROVE ChoicesStand' /\ DraftsStand' /\ DraftShown'
  <2>1. LastKept /\ ChoicesStand /\ DraftsStand /\ DraftShown
    BY <1>1, <1>7 DEF PickerInv, CalmInv
  <2>2. IsPicks(picks)
    BY DEF PickerInv, PickerTyped
  <2>3. ASSUME NEW i, NEW k \in 1 .. n + 1, StandsAs(picks, i, k)
        PROVE  StandsAs(picks', i, k) /\ picks'[i] = picks[i]
    BY <1>5, <2>2, <2>3, StandsOn DEF StandsAs
  <2>left. ASSUME NEW i, LeftBehind(picks, i)
        PROVE  LeftBehind(picks', i) /\ picks'[i] = picks[i]
    BY <1>5, <2>left DEF LeftBehind
  <2>4. StandsAs(picks', n + 1, Len(picks') + 1)
    <3>1. \A j \in 1 .. Len(picks') : ~(n + 1 < j)
      BY <1>5
    <3> QED
      BY <1>2, <1>5, <3>1 DEF StandsAs
  <2>5. LocalStands(picks', seed, was, n + 1)
    <3>1. CASE picker.seed = seed
      <4>1. was = picker.value /\ LocalStands(picks, picker.seed, picker.value, n + 1)
        BY <2>1, <3>1 DEF Shown, ChoicesStand
      <4> QED
        BY <1>5, <2>3, <3>1, <4>1 DEF LocalStands
    <3>2. CASE picker.seed # seed
      BY <3>2 DEF Shown, LocalStands
    <3> QED
      BY <3>1, <3>2
  <2>6. ChoicesStand'
    <3>1. LocalStands(picks', picker'.seed, picker'.value, Len(picks') + 1)
      BY <1>2, <1>3, <1>4, <1>5, <2>4 DEF LocalStands
    <3>2. ASSUME NEW i \in 1 .. Len(picks'), picks'[i].at = "sent"
          PROVE  LocalStands(picks', picks'[i].seed, picks'[i].previous, i)
      <4>1. CASE i \in 1 .. n
        <5>1. LocalStands(picks, picks[i].seed, picks[i].previous, i) /\ picks'[i] = picks[i] /\ i \in 1 .. n + 1
          BY <1>5, <2>1, <3>2, <4>1 DEF ChoicesStand
        <5> QED
          BY <2>3, <5>1 DEF LocalStands
      <4>2. CASE i = n + 1
        BY <1>2, <1>5, <2>5, <4>2
      <4> QED
        BY <1>5, <4>1, <4>2
    <3> QED
      BY <3>1, <3>2 DEF ChoicesStand
  <2>7. DraftsStand'
    <3> SUFFICES ASSUME ~row.has PROVE /\ DraftStands(picks', picker'.draft, Len(picks') + 1)
                                       /\ \A i \in 1 .. Len(picks') : picks'[i].at = "sent" /\ ~picks'[i].dialog
                                              => DraftStands(picks', picks'[i].previous, i)
      BY <1>1 DEF DraftsStand
    <3>1. ~cachedRow.has
      BY DEF PickerInv, RowsAppear
    <3>2. picker'.draft = next
      BY <1>3, <1>4, <3>1
    <3>3. DraftStands(picks', picker'.draft, Len(picks') + 1)
      BY <1>2, <1>5, <2>4, <3>2 DEF DraftStands
    <3>4. ASSUME NEW i \in 1 .. Len(picks'), picks'[i].at = "sent", ~picks'[i].dialog
          PROVE  DraftStands(picks', picks'[i].previous, i)
      <4>1. CASE i \in 1 .. n
        <5>1. DraftStands(picks, picks[i].previous, i) /\ picks'[i] = picks[i] /\ i \in 1 .. n + 1
          BY <1>5, <2>1, <3>4, <4>1 DEF DraftsStand
        <5> QED
          BY <2>3, <2>left, <5>1 DEF DraftStands
      <4>2. CASE i = n + 1
        <5>1. was = picker.draft /\ DraftStands(picks, picker.draft, n + 1) /\ n + 1 \in 1 .. n + 1
          BY <1>5, <2>1, <3>1, DraftIsShown DEF DraftsStand
        <5>2. DraftStands(picks', was, n + 1)
          BY <2>3, <2>left, <5>1 DEF DraftStands
        <5> QED
          BY <1>2, <1>5, <4>2, <5>2
      <4> QED
        BY <1>5, <4>1, <4>2
    <3> QED
      BY <3>3, <3>4
  <2>8. DraftShown'
    BY <1>3, <1>4 DEF DraftShown
  <2> QED
    BY <2>6, <2>7, <2>8
<1> QED
  BY <1>1, <1>5, <1>6, <1>7 DEF PickerInv, CalmInv

LEMMA CreateAdvancedStep ==
  ASSUME PickerInv, NEW model, CreateAdvanced(model)
  PROVE  PickerInv'
<1> DEFINE w == [value |-> model, previous |-> Inherit, seed |-> Inherit, asDraft |-> TRUE, dialog |-> TRUE,
                 at |-> "sent", alone |-> FALSE]
           p == [picker EXCEPT !.draft = model]
<1>1. /\ picks = <<>> /\ Len(picks) = 0 /\ ~row.has /\ picks' = <<w>>
      /\ Redraws(cachedRow, p, pickerSends) /\ UNCHANGED <<row, rowFetch, murky>>
  BY DEF CreateAdvanced
<1>2. picks' = Append(picks, w)
  BY <1>1
<1>3. /\ IsPick(w) /\ w.at = "sent" /\ w.asDraft = TRUE /\ w.dialog = TRUE /\ w.alone = FALSE
      /\ w.value = model /\ w.seed = Inherit /\ w.previous = Inherit
  BY DEF IsPick, PickStates
<1>4. /\ p = [seed |-> p.seed, value |-> p.value, latest |-> p.value, draft |-> p.draft]
      /\ p.seed = picker.seed /\ p.value = picker.value /\ p.draft = model
  BY DEF PickerInv, PickerTyped
<1> HIDE DEF w, p
<1>5. cachedRow' = cachedRow /\ picker' = p /\ IsSends(pickerSends') /\ ~cachedRow.has
  BY <1>1, Redrawn DEF PickerInv, PickerTyped, RowsAppear
<1>6. /\ IsPicks(picks') /\ Len(picks') = 1 /\ picks'[1] = w
      /\ RowsAppear' /\ (LastKept => LastKept') /\ (DetailFresh => DetailFresh')
  BY <1>1, <1>2, <1>3, <1>5, OneMorePick
<1>7. PickerTyped'
  BY <1>1, <1>4, <1>5, <1>6 DEF PickerInv, PickerTyped
<1>8. ASSUME ~murky' PROVE ChoicesStand' /\ DraftsStand' /\ DraftShown'
  <2>1. picker.value = picker.seed
    <3>1. LocalStands(picks, picker.seed, picker.value, Len(picks) + 1)
      BY <1>1, <1>8 DEF PickerInv, CalmInv, ChoicesStand
    <3>2. \A i : ~StandsAs(picks, i, Len(picks) + 1)
      BY <1>1 DEF StandsAs
    <3> QED
      BY <3>1, <3>2 DEF LocalStands
  <2>2. \A i \in 1 .. Len(picks') : i = 1 /\ picks'[i] = w
    BY <1>6
  <2>3. StandsAs(picks', 1, Len(picks') + 1)
    BY <1>3, <1>6 DEF StandsAs
  <2>4. ChoicesStand'
    BY <1>3, <1>4, <1>5, <2>1, <2>2 DEF ChoicesStand, LocalStands
  <2>5. DraftsStand'
    BY <1>3, <1>4, <1>5, <1>6, <2>2, <2>3 DEF DraftsStand, DraftStands
  <2>6. DraftShown'
    BY <1>3, <1>4, <1>5, <1>6, <2>1 DEF DraftShown
  <2> QED
    BY <2>4, <2>5, <2>6
<1> QED
  BY <1>1, <1>6, <1>7, <1>8 DEF PickerInv, CalmInv

-----------------------------------------------------------------------------
LEMMA StorePickStep ==
  ASSUME PickerInv, NEW i \in 1 .. Len(picks), StorePick(i)
  PROVE  PickerInv'
<1> DEFINE n == Len(picks)
           d == [has |-> TRUE, model |-> picks[i].value]
<1>1. /\ picks[i].at = "sent" /\ picks' = [picks EXCEPT ![i].at = "stored"] /\ row' = d
      /\ murky' = (murky \/ \E j \in i + 1 .. n : picks[j].at # "sent")
      /\ UNCHANGED <<cachedRow, rowFetch, picker, pickerSends>>
  BY DEF StorePick
<1>2. IsDetail(d) /\ d.has = TRUE /\ d.model = picks[i].value
  BY DEF IsDetail
<1> HIDE DEF d
<1>3. /\ IsPicks(picks') /\ Len(picks') = n /\ picks'[i].at = "stored" /\ n \in Nat
      /\ \A j \in 1 .. n : SamePick(picks'[j], picks[j]) /\ (j # i => picks'[j].at = picks[j].at)
  BY <1>1, PickMoves, PicksAre DEF PickerInv, PickerTyped, PickStates
<1>4. PickerTyped'
  BY <1>1, <1>2, <1>3 DEF PickerInv, PickerTyped
<1>5. RowsAppear'
  <2>1. \A j \in 1 .. n : picks'[j].asDraft = picks[j].asDraft /\ picks'[j].dialog = picks[j].dialog
                          /\ picks'[j].alone = picks[j].alone
    BY <1>3 DEF SamePick
  <2> QED
    BY <1>1, <1>2, <1>3, <2>1 DEF PickerInv, RowsAppear
<1>6. ASSUME ~murky' PROVE LastKept' /\ ChoicesStand' /\ DraftsStand' /\ DraftShown' /\ DetailFresh'
  <2>1. /\ LastKept /\ ChoicesStand /\ DraftShown
        /\ \A j \in 1 .. n : i < j => picks[j].at = "sent"
    <3>1. ~murky /\ \A j \in i + 1 .. n : picks[j].at = "sent"
      BY <1>1, <1>6
    <3>2. \A j \in 1 .. n : i < j => j \in i + 1 .. n
      BY <1>3
    <3> QED
      BY <3>1, <3>2 DEF PickerInv, CalmInv
  <2>2. Kept(picks'[i]) /\ picks'[i].value = picks[i].value /\ \A j \in 1 .. n : i < j => ~Kept(picks'[j])
    BY <1>3, <2>1 DEF Kept, SamePick
  <2>3. LastKept'
    BY <1>1, <1>2, <1>3, <2>2 DEF LastKept
  <2>4. IsPicks(picks)
    BY DEF PickerInv, PickerTyped
  <2>5. ASSUME NEW k, NEW m, StandsAs(picks, k, m)
        PROVE  /\ StandsAs(picks', k, m) /\ picks'[k].seed = picks[k].seed /\ picks'[k].value = picks[k].value
               /\ picks'[k].dialog = picks[k].dialog
    <3>1. k \in 1 .. n /\ picks'[k].at # "failed"
      BY <1>3, <2>5 DEF StandsAs
    <3>2. \A j \in 1 .. n : picks[j].at = "failed" => picks'[j].at = "failed"
      BY <1>1, <1>3
    <3> QED
      BY <1>3, <2>4, <2>5, <3>1, <3>2, StandsOn DEF SamePick
  <2>6. \A k \in 1 .. n : picks'[k].at = "sent" => picks[k].at = "sent"
    BY <1>1, <1>3
  <2>7. ChoicesStand'
    <3>1. LocalStands(picks', picker.seed, picker.value, n + 1)
      BY <2>1, <2>5 DEF ChoicesStand, LocalStands
    <3>2. ASSUME NEW k \in 1 .. n, picks'[k].at = "sent"
          PROVE  LocalStands(picks', picks'[k].seed, picks'[k].previous, k)
      <4>1. LocalStands(picks, picks[k].seed, picks[k].previous, k)
        BY <2>1, <2>6, <3>2 DEF ChoicesStand
      <4>2. picks'[k].seed = picks[k].seed /\ picks'[k].previous = picks[k].previous
        BY <1>3 DEF SamePick
      <4> QED
        BY <2>5, <4>1, <4>2 DEF LocalStands
    <3> QED
      BY <1>1, <1>3, <3>1, <3>2 DEF ChoicesStand
  <2>8. DraftsStand'
    BY <1>1, <1>2 DEF DraftsStand
  <2>9. DraftShown'
    BY <1>1, <1>3, <2>1 DEF DraftShown, SamePick
  <2>10. DetailFresh'
    BY <1>3 DEF DetailFresh, NoneStored
  <2> QED
    BY <2>3, <2>7, <2>8, <2>9, <2>10
<1> QED
  BY <1>4, <1>5, <1>6 DEF PickerInv, CalmInv

LEMMA PickSucceedsStep ==
  ASSUME PickerInv, NEW i \in 1 .. Len(picks), PickSucceeds(i)
  PROVE  PickerInv'
<1> DEFINE n == Len(picks)
<1>1. /\ picks[i].at = "stored" /\ picks' = [picks EXCEPT ![i].at = "done"]
      /\ rowFetch' = [at |-> "asked", answer |-> NoRow]
      /\ UNCHANGED <<row, cachedRow, picker, pickerSends, murky>>
  BY DEF PickSucceeds, Refetches
<1>2. /\ IsPicks(picks') /\ Len(picks') = n /\ picks'[i].at = "done" /\ n \in Nat
      /\ \A j \in 1 .. n : SamePick(picks'[j], picks[j]) /\ (j # i => picks'[j].at = picks[j].at)
  BY <1>1, PickMoves, PicksAre DEF PickerInv, PickerTyped, PickStates
<1>3. PickerTyped'
  BY <1>1, <1>2, NoRowIs DEF PickerInv, PickerTyped
<1>4. \A j \in 1 .. n : /\ Kept(picks'[j]) <=> Kept(picks[j])
                        /\ picks'[j].at = "sent" <=> picks[j].at = "sent"
                        /\ picks'[j].at = "failed" <=> picks[j].at = "failed"
  BY <1>1, <1>2 DEF Kept
<1>5. RowsAppear'
  <2>1. \A j \in 1 .. n : picks'[j].asDraft = picks[j].asDraft /\ picks'[j].dialog = picks[j].dialog
                          /\ picks'[j].alone = picks[j].alone
    BY <1>2 DEF SamePick
  <2> QED
    BY <1>1, <1>2, <1>4, <2>1 DEF PickerInv, RowsAppear
<1>6. ASSUME ~murky' PROVE LastKept' /\ ChoicesStand' /\ DraftsStand' /\ DraftShown' /\ DetailFresh'
  <2>1. LastKept /\ ChoicesStand /\ DraftsStand /\ DraftShown
    BY <1>1, <1>6 DEF PickerInv, CalmInv
  <2>2. LastKept'
    BY <1>1, <1>2, <1>4, <2>1 DEF LastKept, SamePick
  <2>3. IsPicks(picks)
    BY DEF PickerInv, PickerTyped
  <2>4. ASSUME NEW k, NEW m, StandsAs(picks, k, m)
        PROVE  /\ StandsAs(picks', k, m) /\ picks'[k].seed = picks[k].seed /\ picks'[k].value = picks[k].value
               /\ picks'[k].dialog = picks[k].dialog
    <3>1. k \in 1 .. n /\ picks'[k].at # "failed"
      BY <1>4, <2>4 DEF StandsAs
    <3> QED
      BY <1>2, <1>4, <2>3, <2>4, <3>1, StandsOn DEF SamePick
  <2>5. ChoicesStand'
    <3>1. LocalStands(picks', picker.seed, picker.value, n + 1)
      BY <2>1, <2>4 DEF ChoicesStand, LocalStands
    <3>2. ASSUME NEW k \in 1 .. n, picks'[k].at = "sent"
          PROVE  LocalStands(picks', picks'[k].seed, picks'[k].previous, k)
      <4>1. LocalStands(picks, picks[k].seed, picks[k].previous, k)
        BY <1>4, <2>1, <3>2 DEF ChoicesStand
      <4>2. picks'[k].seed = picks[k].seed /\ picks'[k].previous = picks[k].previous
        BY <1>2 DEF SamePick
      <4> QED
        BY <2>4, <4>1, <4>2 DEF LocalStands
    <3> QED
      BY <1>1, <1>2, <3>1, <3>2 DEF ChoicesStand
  <2>6. row.has
    BY <1>1 DEF PickerInv, RowsAppear, Kept
  <2>7. DraftsStand'
    BY <1>1, <2>6 DEF DraftsStand
  <2>8. DraftShown'
    BY <1>1, <1>2, <2>1 DEF DraftShown, SamePick
  <2>9. DetailFresh'
    BY <1>1 DEF DetailFresh
  <2> QED
    BY <2>2, <2>5, <2>7, <2>8, <2>9
<1> QED
  BY <1>3, <1>5, <1>6 DEF PickerInv, CalmInv

(* What a calm failure leaves: no later write under way, and if the choice *)
(* is taken back, no later one that has not failed.                        *)
LEMMA CalmFailure ==
  ASSUME PickerInv, NEW i \in 1 .. Len(picks), PickFails(i), ~murky'
  PROVE  /\ ~murky /\ picks[i].at = "sent"
         /\ \A j \in 1 .. Len(picks) : i < j => picks[j].at \in {"done", "failed"}
         /\ picker.value = picks[i].value => \A j \in 1 .. Len(picks) : i < j => picks[j].at = "failed"
         /\ picks[i].dialog \/ picker.value # picks[i].value => picker' = picker
         /\ ~picks[i].dialog /\ picker.value = picks[i].value =>
              picker' = [seed |-> picks[i].seed, value |-> picks[i].previous, latest |-> picks[i].previous,
                         draft |-> IF picks[i].asDraft THEN picks[i].previous ELSE picker.draft]
<1>1. /\ picks[i].at \in {"sent", "stored"} /\ ~murky /\ picks[i].at # "stored" /\ ~Outrun(i)
      /\ Redraws(cachedRow, PickRolledBack(picks[i]), pickerSends)
  BY DEF PickFails
<1>2. picker' = PickRolledBack(picks[i])
  BY <1>1 DEF Redraws
<1>3. picker.latest = picker.value
  BY DEF PickerInv, PickerTyped
<1>4. Len(picks) \in Nat /\ \A j \in 1 .. Len(picks) : picks[j].at \in PickStates
  BY PicksAre DEF PickerInv, PickerTyped, IsPick
<1>5. \A j \in 1 .. Len(picks) : i < j => /\ picks[j].at \notin {"sent", "stored"}
                                          /\ picker.value = picks[i].value => picks[j].at # "done"
  BY <1>1, <1>3, <1>4 DEF Outrun, Superseded
<1>6. \A j \in 1 .. Len(picks) : i < j => /\ picks[j].at \in {"done", "failed"}
                                          /\ picker.value = picks[i].value => picks[j].at = "failed"
  BY <1>4, <1>5 DEF PickStates
<1>7. /\ picks[i].dialog \/ picker.value # picks[i].value => picker' = picker
      /\ ~picks[i].dialog /\ picker.value = picks[i].value =>
           picker' = [seed |-> picks[i].seed, value |-> picks[i].previous, latest |-> picks[i].previous,
                      draft |-> IF picks[i].asDraft THEN picks[i].previous ELSE picker.draft]
  BY <1>1, <1>2, <1>3 DEF PickRolledBack, Superseded
<1> QED
  BY <1>1, <1>6, <1>7

LEMMA PickFailsStep ==
  ASSUME PickerInv, NEW i \in 1 .. Len(picks), PickFails(i)
  PROVE  PickerInv'
<1> DEFINE n == Len(picks)
           old == picks[i]
           p == PickRolledBack(old)
<1>1. /\ old.at \in {"sent", "stored"} /\ Redraws(cachedRow, p, pickerSends)
      /\ murky' = (murky \/ old.at = "stored" \/ Outrun(i))
      /\ picks' = [picks EXCEPT ![i].at = "failed"] /\ UNCHANGED <<row, rowFetch>>
  BY DEF PickFails
<1>2. p = [seed |-> p.seed, value |-> p.value, latest |-> p.value, draft |-> p.draft]
  BY DEF PickRolledBack, PickerInv, PickerTyped
<1>3. cachedRow' = cachedRow /\ picker' = p /\ IsSends(pickerSends')
  <2> HIDE DEF p
  <2> QED
    BY <1>1, Redrawn DEF PickerInv, PickerTyped
<1>4. /\ IsPicks(picks') /\ Len(picks') = n /\ picks'[i].at = "failed" /\ n \in Nat
      /\ \A j \in 1 .. n : SamePick(picks'[j], picks[j]) /\ (j # i => picks'[j].at = picks[j].at)
  BY <1>1, PickMoves, PicksAre DEF PickerInv, PickerTyped, PickStates
<1> HIDE DEF p
<1>5. PickerTyped'
  <2>1. murky' \in BOOLEAN
    BY <1>1 DEF PickerInv, PickerTyped
  <2> QED
    BY <1>1, <1>2, <1>3, <1>4, <2>1 DEF PickerInv, PickerTyped
<1>6. RowsAppear'
  <2>1. \A j \in 1 .. n : /\ picks'[j].asDraft = picks[j].asDraft /\ picks'[j].dialog = picks[j].dialog
                          /\ picks'[j].alone = picks[j].alone /\ (Kept(picks'[j]) => Kept(picks[j]))
    BY <1>4 DEF SamePick, Kept
  <2> QED
    BY <1>1, <1>3, <1>4, <2>1 DEF PickerInv, RowsAppear
<1>7. ASSUME ~murky' PROVE LastKept' /\ ChoicesStand' /\ DraftsStand' /\ DraftShown' /\ DetailFresh'
  <2> DEFINE back == [seed |-> old.seed, value |-> old.previous, latest |-> old.previous,
                      draft |-> IF old.asDraft THEN old.previous ELSE picker.draft]
             Undone == ~old.dialog /\ picker.value = old.value
  <2>1. /\ ~murky /\ old.at = "sent"
        /\ \A j \in 1 .. n : i < j => picks[j].at \in {"done", "failed"}
        /\ Undone => \A j \in 1 .. n : i < j => picks[j].at = "failed"
        /\ ~Undone => picker' = picker
        /\ Undone => picker' = back
    BY <1>7, CalmFailure
  <2>2. LastKept /\ ChoicesStand /\ DraftsStand /\ DraftShown /\ DetailFresh
    BY <2>1 DEF PickerInv, CalmInv
  <2>3. back.seed = old.seed /\ back.value = old.previous /\ back.draft = (IF old.asDraft THEN old.previous ELSE picker.draft)
    OBVIOUS
  <2> HIDE DEF back
  <2>4. \A j \in 1 .. n : /\ Kept(picks'[j]) <=> Kept(picks[j])
                          /\ picks'[j].at = "sent" => picks[j].at = "sent" /\ j # i /\ ~(i < j)
                          /\ picks[j].at = "failed" => picks'[j].at = "failed"
    BY <1>4, <2>1 DEF Kept
  <2>5. LastKept'
    BY <1>1, <1>4, <2>2, <2>4 DEF LastKept, SamePick
  <2>6. IsPicks(picks)
    BY DEF PickerInv, PickerTyped
  <2>7. ASSUME NEW k, NEW m, StandsAs(picks, k, m), k # i
        PROVE  /\ StandsAs(picks', k, m) /\ picks'[k].seed = picks[k].seed /\ picks'[k].value = picks[k].value
               /\ picks'[k].dialog = picks[k].dialog
    <3>1. k \in 1 .. n /\ picks'[k].at # "failed"
      BY <1>4, <2>7 DEF StandsAs
    <3> QED
      BY <1>4, <2>4, <2>6, <2>7, <3>1, StandsOn DEF SamePick
  \* What the write brings back stands now.
  <2>8. ASSUME NEW k, StandsAs(picks, k, i), Undone
        PROVE  StandsAs(picks', k, n + 1) /\ picks'[k].seed = picks[k].seed /\ picks'[k].value = picks[k].value
    <3>1. k \in 1 .. n /\ k < i /\ picks'[k].at # "failed"
      BY <1>4, <2>8 DEF StandsAs
    <3>2. ASSUME NEW j \in 1 .. n, k < j PROVE picks'[j].at = "failed"
      <4>1. CASE j < i
        BY <2>4, <2>8, <3>2, <4>1 DEF StandsAs
      <4>2. CASE j = i
        BY <1>4, <4>2
      <4>3. CASE i < j
        BY <2>1, <2>4, <2>8, <4>3
      <4> QED
        BY <1>4, <4>1, <4>2, <4>3
    <3> QED
      BY <1>4, <3>1, <3>2 DEF StandsAs, SamePick
  \* And what a dialog left behind stays.
  <2>left. ASSUME NEW k, LeftBehind(picks, k)
         PROVE  LeftBehind(picks', k) /\ picks'[k].value = picks[k].value
    BY <1>4, <2>1, <2>4, <2>left DEF LeftBehind, SamePick
  <2>9. ChoicesStand'
    <3>1. LocalStands(picks', picker'.seed, picker'.value, n + 1)
      <4>1. CASE ~Undone
        <5>1. LocalStands(picks, picker.seed, picker.value, n + 1)
          BY <2>2 DEF ChoicesStand
        <5> QED
          BY <1>4, <2>1, <2>7, <4>1, <5>1 DEF LocalStands, StandsAs, SamePick
      <4>2. CASE Undone
        <5>1. LocalStands(picks, old.seed, old.previous, i)
          BY <2>1, <2>2 DEF ChoicesStand
        <5> QED
          BY <1>4, <2>1, <2>3, <2>8, <4>2, <5>1 DEF LocalStands, StandsAs, SamePick
      <4> QED
        BY <4>1, <4>2
    <3>2. ASSUME NEW k \in 1 .. n, picks'[k].at = "sent"
          PROVE  LocalStands(picks', picks'[k].seed, picks'[k].previous, k)
      <4>1. LocalStands(picks, picks[k].seed, picks[k].previous, k) /\ ~(i < k)
        BY <2>2, <2>4, <3>2 DEF ChoicesStand
      <4>2. picks'[k].seed = picks[k].seed /\ picks'[k].previous = picks[k].previous
        BY <1>4 DEF SamePick
      <4>3. \A m : StandsAs(picks, m, k) => m # i
        BY <4>1 DEF StandsAs
      <4> QED
        BY <1>4, <2>7, <4>1, <4>2, <4>3 DEF LocalStands, StandsAs, SamePick
    <3> QED
      BY <1>4, <3>1, <3>2 DEF ChoicesStand
  <2>10. ~row.has => ~cachedRow.has /\ old.asDraft
    BY DEF PickerInv, RowsAppear
  <2>11. DraftsStand'
    <3> SUFFICES ASSUME ~row.has PROVE /\ DraftStands(picks', picker'.draft, n + 1)
                                       /\ \A k \in 1 .. n : picks'[k].at = "sent" /\ ~picks'[k].dialog
                                              => DraftStands(picks', picks'[k].previous, k)
      BY <1>1, <1>4 DEF DraftsStand
    <3>1. DraftStands(picks', picker'.draft, n + 1)
      <4>1. CASE ~Undone
        <5>1. DraftStands(picks, picker.draft, n + 1) /\ picker' = picker
          BY <2>1, <2>2, <4>1 DEF DraftsStand
        <5>2. old.dialog \/ picker.draft # old.value
          <6>1. \/ picker.value = picker.draft
                \/ n = 1 /\ picks[1].dialog
            BY <2>2, <2>10 DEF DraftShown
          <6>2. n = 1 => i = 1
            OBVIOUS
          <6> QED
            BY <4>1, <6>1, <6>2
        <5>3. old.dialog => LeftBehind(picks', i) /\ picks'[i].value = old.value
          BY <1>4 DEF LeftBehind, SamePick
        <5> QED
          BY <2>7, <2>left, <5>1, <5>2, <5>3 DEF DraftStands
      <4>2. CASE Undone
        <5>1. DraftStands(picks, old.previous, i)
          BY <2>1, <2>2, <4>2 DEF DraftsStand
        <5>2. picker'.draft = old.previous
          BY <2>1, <2>3, <2>10, <4>2
        <5> QED
          BY <2>8, <2>left, <4>2, <5>1, <5>2 DEF DraftStands
      <4> QED
        BY <4>1, <4>2
    <3>2. ASSUME NEW k \in 1 .. n, picks'[k].at = "sent", ~picks'[k].dialog
          PROVE  DraftStands(picks', picks'[k].previous, k)
      <4>1. picks'[k].dialog = picks[k].dialog /\ picks'[k].previous = picks[k].previous
        BY <1>4 DEF SamePick
      <4>2. DraftStands(picks, picks[k].previous, k) /\ ~(i < k)
        BY <2>2, <2>4, <3>2, <4>1 DEF DraftsStand
      <4>3. \A m : StandsAs(picks, m, k) => m # i
        BY <4>2 DEF StandsAs
      <4> QED
        BY <2>7, <2>left, <4>1, <4>2, <4>3 DEF DraftStands
    <3> QED
      BY <3>1, <3>2
  <2>12. DraftShown'
    <3>1. ~cachedRow.has => old.asDraft
      BY DEF PickerInv, RowsAppear
    <3>2. n = 1 => picks'[1].dialog = picks[1].dialog
      BY <1>4 DEF SamePick
    <3> QED
      BY <1>3, <1>4, <2>1, <2>2, <2>3, <3>1, <3>2 DEF DraftShown
  <2>13. DetailFresh'
    <3>1. NoneStored(picks') => NoneStored(picks)
      BY <1>4, <2>1 DEF NoneStored
    <3> QED
      BY <1>1, <1>3, <2>2, <3>1 DEF DetailFresh
  <2> QED
    BY <2>5, <2>9, <2>11, <2>12, <2>13
<1> QED
  BY <1>5, <1>6, <1>7 DEF PickerInv, CalmInv

(* The steps that leave the choices alone. *)
LEMMA ChoicesAlone ==
  ASSUME UNCHANGED <<picker, picks, murky>>, row'.has \/ row'.has = row.has, row'.model = row.model
  PROVE  (LastKept => LastKept') /\ (ChoicesStand => ChoicesStand') /\ (DraftsStand => DraftsStand')
<1>1. LastKept => LastKept'
  BY DEF LastKept
<1>2. ChoicesStand => ChoicesStand'
  BY DEF ChoicesStand
<1>3. DraftsStand => DraftsStand'
  BY DEF DraftsStand
<1> QED
  BY <1>1, <1>2, <1>3

LEMMA SendChanged ==
  ASSUME IsSends(pickerSends), NEW k \in 1 .. Len(pickerSends), NEW s, IsSend(s),
         pickerSends' = [pickerSends EXCEPT ![k] = s]
  PROVE  /\ IsSends(pickerSends') /\ Len(pickerSends') = Len(pickerSends) /\ pickerSends'[k] = s
         /\ \A j \in 1 .. Len(pickerSends) : j # k => pickerSends'[j] = pickerSends[j]
<1> DEFINE S == Range(pickerSends) \cup {s}
<1>1. pickerSends \in Seq(Range(pickerSends)) /\ \A j \in 1 .. Len(pickerSends) : IsSend(pickerSends[j])
  BY DEF IsSends
<1>2. pickerSends \in Seq(S) /\ s \in S
  BY <1>1
<1> HIDE DEF S
<1>3. /\ pickerSends' \in Seq(S) /\ Len(pickerSends') = Len(pickerSends) /\ pickerSends'[k] = s
      /\ \A j \in 1 .. Len(pickerSends) : j # k => pickerSends'[j] = pickerSends[j]
  BY <1>2
<1>4. pickerSends' \in Seq(Range(pickerSends'))
  BY <1>3, SeqOfRange
<1>5. \A j \in 1 .. Len(pickerSends') : IsSend(pickerSends'[j])
  BY <1>1, <1>3
<1> QED
  BY <1>3, <1>4, <1>5 DEF IsSends

(* A send that is posted; a send that is finished. *)
LEMMA SendPosted ==
  ASSUME NEW s, IsSend(s), NEW value
  PROVE  [[s EXCEPT !.at = "posted"] EXCEPT !.body = value]
           = [at |-> "posted", gate |-> s.gate, body |-> value, used |-> s.used, seen |-> s.seen]
<1> DEFINE moved == [at |-> "posted", gate |-> s.gate, body |-> s.body, used |-> s.used, seen |-> s.seen]
<1>1. s = [at |-> s.at, gate |-> s.gate, body |-> s.body, used |-> s.used, seen |-> s.seen]
  BY DEF IsSend
<1>2. [s EXCEPT !.at = "posted"] = moved
  BY <1>1
<1>3. [moved EXCEPT !.body = value]
        = [at |-> "posted", gate |-> s.gate, body |-> value, used |-> s.used, seen |-> s.seen]
  OBVIOUS
<1> HIDE DEF moved
<1> QED
  BY <1>2, <1>3

LEMMA SendFinished ==
  ASSUME NEW s, IsSend(s), NEW value
  PROVE  [[s EXCEPT !.at = "finished"] EXCEPT !.used = value]
           = [at |-> "finished", gate |-> s.gate, body |-> s.body, used |-> value, seen |-> s.seen]
<1> DEFINE moved == [at |-> "finished", gate |-> s.gate, body |-> s.body, used |-> s.used, seen |-> s.seen]
<1>1. s = [at |-> s.at, gate |-> s.gate, body |-> s.body, used |-> s.used, seen |-> s.seen]
  BY DEF IsSend
<1>2. [s EXCEPT !.at = "finished"] = moved
  BY <1>1
<1>3. [moved EXCEPT !.used = value]
        = [at |-> "finished", gate |-> s.gate, body |-> s.body, used |-> value, seen |-> s.seen]
  OBVIOUS
<1> HIDE DEF moved
<1> QED
  BY <1>2, <1>3

LEMMA PostSendDoes ==
  ASSUME PickerTyped, NEW k \in 1 .. Len(pickerSends), PostSend(k)
  PROVE  /\ IsSends(pickerSends') /\ Len(pickerSends') = Len(pickerSends)
         /\ pickerSends[k].at = "gated" /\ pickerSends[k].gate \notin Unanswered(picks)
         /\ pickerSends'[k].at = "posted" /\ pickerSends'[k].body = Shown(cachedRow, picker)
         /\ pickerSends'[k].seen = pickerSends[k].seen
         /\ \A j \in 1 .. Len(pickerSends) : j # k => pickerSends'[j] = pickerSends[j]
<1> DEFINE old   == pickerSends[k]
           shown == Shown(cachedRow, picker)
           s     == [at |-> "posted", gate |-> old.gate, body |-> shown, used |-> old.used, seen |-> old.seen]
<1>1. IsSend(old)
  BY DEF PickerTyped, IsSends
<1>2. old.at = "gated" /\ old.gate \notin Unanswered(picks)
  BY DEF PostSend, GateOpen
<1>3. pickerSends' = [pickerSends EXCEPT ![k] = [[old EXCEPT !.at = "posted"] EXCEPT !.body = shown]]
  BY DEF PostSend, PickerTyped, IsSends
<1> HIDE DEF shown
<1> HIDE DEF old
<1>4. [[old EXCEPT !.at = "posted"] EXCEPT !.body = shown] = s
  BY <1>1, SendPosted
<1>5. IsSend(s) /\ s.at = "posted" /\ s.body = shown /\ s.seen = old.seen
  BY DEF IsSend
<1>6. pickerSends' = [pickerSends EXCEPT ![k] = s]
  BY <1>3, <1>4
<1> HIDE DEF s
<1>7. /\ IsSends(pickerSends') /\ Len(pickerSends') = Len(pickerSends) /\ pickerSends'[k] = s
      /\ \A j \in 1 .. Len(pickerSends) : j # k => pickerSends'[j] = pickerSends[j]
  BY <1>5, <1>6, SendChanged DEF PickerTyped
<1> QED
  BY <1>2, <1>5, <1>7 DEF shown, old

LEMMA ServeSendDoes ==
  ASSUME PickerTyped, NEW k \in 1 .. Len(pickerSends), ServeSend(k)
  PROVE  /\ IsSends(pickerSends') /\ Len(pickerSends') = Len(pickerSends)
         /\ pickerSends[k].at = "posted" /\ pickerSends'[k].at = "finished"
         /\ pickerSends'[k].used \in {row.model, pickerSends[k].body}
         /\ pickerSends'[k].seen = pickerSends[k].seen
         /\ \A j \in 1 .. Len(pickerSends) : j # k => pickerSends'[j] = pickerSends[j]
         /\ row' = [has |-> TRUE, model |-> row.model] /\ row'.has = TRUE /\ row'.model = row.model
         /\ rowFetch' = [at |-> "asked", answer |-> NoRow]
<1> DEFINE old  == pickerSends[k]
           used == IF row.has /\ row.model # Inherit THEN row.model ELSE old.body
           s    == [at |-> "finished", gate |-> old.gate, body |-> old.body, used |-> used, seen |-> old.seen]
<1>1. IsSend(old)
  BY DEF PickerTyped, IsSends
<1>2. old.at = "posted" /\ rowFetch' = [at |-> "asked", answer |-> NoRow] /\ row' = [row EXCEPT !.has = TRUE]
  BY DEF ServeSend, Refetches
<1>3. pickerSends' = [pickerSends EXCEPT ![k] = [[old EXCEPT !.at = "finished"] EXCEPT !.used = used]]
  BY DEF ServeSend, PickerTyped, IsSends
<1>4. used \in {row.model, old.body}
  OBVIOUS
<1> HIDE DEF used
<1> HIDE DEF old
<1>5. [[old EXCEPT !.at = "finished"] EXCEPT !.used = used] = s
  BY <1>1, SendFinished
<1>6. IsSend(s) /\ s.at = "finished" /\ s.used = used /\ s.seen = old.seen
  BY DEF IsSend
<1>7. pickerSends' = [pickerSends EXCEPT ![k] = s]
  BY <1>3, <1>5
<1> HIDE DEF s
<1>8. /\ IsSends(pickerSends') /\ Len(pickerSends') = Len(pickerSends) /\ pickerSends'[k] = s
      /\ \A j \in 1 .. Len(pickerSends) : j # k => pickerSends'[j] = pickerSends[j]
  BY <1>6, <1>7, SendChanged DEF PickerTyped
<1>9. row' = [has |-> TRUE, model |-> row.model]
  BY <1>2 DEF PickerTyped, IsDetail
<1>10. row'.has = TRUE /\ row'.model = row.model
  BY <1>9
<1> QED
  BY <1>2, <1>4, <1>6, <1>8, <1>9, <1>10 DEF old

(* A send that starts. *)
LEMMA PressSendDoes ==
  ASSUME PickerTyped, PressSend
  PROVE  LET n == Len(pickerSends)
         IN  /\ n \in Nat /\ IsSends(pickerSends') /\ Len(pickerSends') = n + 1
             /\ \A k \in 1 .. n : pickerSends[k].at = "finished"
             /\ \A k \in 1 .. n : /\ pickerSends'[k].at = pickerSends[k].at
                                  /\ pickerSends'[k].used = pickerSends[k].used
                                  /\ pickerSends'[k].seen = pickerSends[k].seen
             /\ pickerSends'[n + 1].at = "gated" /\ pickerSends'[n + 1].gate = LatestPick
             /\ Shown(cachedRow, picker) \in pickerSends'[n + 1].seen
             /\ UNCHANGED <<row, cachedRow, rowFetch, picker, picks, murky>>
<1> DEFINE n == Len(pickerSends)
           latest == LatestPick
           s == [at |-> "gated", gate |-> latest, body |-> Inherit, used |-> Inherit, seen |-> {}]
           more == Append(pickerSends, s)
           S == Range(pickerSends) \cup {s}
<1>1. Redraws(cachedRow, picker, more) /\ UNCHANGED <<row, rowFetch, picks, murky>>
      /\ \A k \in 1 .. n : pickerSends[k].at = "finished"
  BY DEF PressSend
<1> HIDE DEF latest
<1>2. IsSend(s) /\ s.at = "gated" /\ s.gate = latest
  BY DEF IsSend
<1>3. pickerSends \in Seq(Range(pickerSends)) /\ \A k \in 1 .. n : IsSend(pickerSends[k])
  BY DEF PickerTyped, IsSends
<1>4. pickerSends \in Seq(S) /\ s \in S
  BY <1>3
<1> HIDE DEF s, S
<1>5. /\ more \in Seq(S) /\ Len(more) = n + 1 /\ more[n + 1] = s
      /\ \A k \in 1 .. n : more[k] = pickerSends[k]
  BY <1>4, AppendProperties
<1>6. n \in Nat
  BY <1>3, LenProperties
<1> HIDE DEF more
<1>7. \A k \in 1 .. Len(more) : k \in 1 .. n \/ k = n + 1
  BY <1>5, <1>6
<1>8. IsSends(more)
  <2>1. \A k \in 1 .. Len(more) : IsSend(more[k])
    BY <1>2, <1>3, <1>5, <1>7
  <2>2. more \in Seq(Range(more))
    BY <1>5, SeqOfRange
  <2> QED
    BY <2>1, <2>2 DEF IsSends
<1>9. /\ cachedRow' = cachedRow /\ picker' = picker
      /\ IsSends(pickerSends') /\ Len(pickerSends') = Len(more)
      /\ \A k \in 1 .. Len(more) :
           /\ pickerSends'[k].at = more[k].at /\ pickerSends'[k].gate = more[k].gate
           /\ pickerSends'[k].body = more[k].body /\ pickerSends'[k].used = more[k].used
           /\ more[k].at = "finished" => pickerSends'[k].seen = more[k].seen
           /\ more[k].at # "finished" => pickerSends'[k].seen = more[k].seen \cup {Shown(cachedRow, picker)}
  BY <1>1, <1>8, Redrawn
<1>10. n + 1 \in 1 .. Len(more) /\ \A k \in 1 .. n : k \in 1 .. Len(more)
  BY <1>5, <1>6
<1>11. /\ pickerSends'[n + 1].at = "gated" /\ pickerSends'[n + 1].gate = latest
       /\ Shown(cachedRow, picker) \in pickerSends'[n + 1].seen
  BY <1>2, <1>5, <1>9, <1>10
<1>12. \A k \in 1 .. n : /\ pickerSends'[k].at = pickerSends[k].at /\ pickerSends'[k].used = pickerSends[k].used
                         /\ pickerSends'[k].seen = pickerSends[k].seen
  BY <1>1, <1>5, <1>9, <1>10
<1> QED
  BY <1>1, <1>5, <1>6, <1>9, <1>11, <1>12 DEF latest

LEMMA SendStep ==
  ASSUME PickerInv, PressSend \/ \E k \in 1 .. Len(pickerSends) : PostSend(k)
  PROVE  PickerInv'
<1>1. UNCHANGED <<row, cachedRow, rowFetch, picker, picks, murky>> /\ IsSends(pickerSends')
  <2>1. ASSUME PressSend PROVE UNCHANGED <<row, cachedRow, rowFetch, picker, picks, murky>> /\ IsSends(pickerSends')
    BY <2>1, PressSendDoes DEF PickerInv
  <2>2. ASSUME NEW k \in 1 .. Len(pickerSends), PostSend(k)
        PROVE  UNCHANGED <<row, cachedRow, rowFetch, picker, picks, murky>> /\ IsSends(pickerSends')
    <3>1. IsSends(pickerSends')
      BY <2>2, PostSendDoes DEF PickerInv
    <3> QED
      BY <2>2, <3>1 DEF PostSend
  <2> QED
    BY <2>1, <2>2
<1>2. PickerTyped' /\ RowsAppear'
  BY <1>1 DEF PickerInv, PickerTyped, RowsAppear
<1>3. (LastKept => LastKept') /\ (ChoicesStand => ChoicesStand') /\ (DraftsStand => DraftsStand')
  BY <1>1, ChoicesAlone
<1>4. (DraftShown => DraftShown') /\ (DetailFresh => DetailFresh')
  BY <1>1 DEF DraftShown, DetailFresh
<1> QED
  BY <1>1, <1>2, <1>3, <1>4 DEF PickerInv, CalmInv

LEMMA ServeSendStep ==
  ASSUME PickerInv, NEW k \in 1 .. Len(pickerSends), ServeSend(k)
  PROVE  PickerInv'
<1>1. /\ IsSends(pickerSends') /\ row'.has = TRUE /\ row'.model = row.model /\ row' = [has |-> TRUE, model |-> row.model]
      /\ rowFetch' = [at |-> "asked", answer |-> NoRow] /\ UNCHANGED <<cachedRow, picker, picks, murky>>
  BY ServeSendDoes DEF PickerInv, ServeSend
<1>2. PickerTyped'
  <2>1. IsDetail(row')
    BY <1>1 DEF IsDetail
  <2> QED
    BY <1>1, <2>1, NoRowIs DEF PickerInv, PickerTyped
<1>3. RowsAppear'
  BY <1>1 DEF PickerInv, RowsAppear
<1>4. (LastKept => LastKept') /\ (ChoicesStand => ChoicesStand') /\ (DraftsStand => DraftsStand')
  BY <1>1, ChoicesAlone
<1>5. (DraftShown => DraftShown') /\ DetailFresh'
  BY <1>1 DEF DraftShown, DetailFresh
<1> QED
  BY <1>1, <1>2, <1>3, <1>4, <1>5 DEF PickerInv, CalmInv

LEMMA AnswerRowStep ==
  ASSUME PickerInv, AnswerRow
  PROVE  PickerInv'
<1>1. /\ rowFetch' = [at |-> "answered", answer |-> row] /\ rowFetch'.at = "answered" /\ rowFetch'.answer = row
      /\ UNCHANGED <<row, cachedRow, picker, picks, pickerSends, murky>>
  BY DEF AnswerRow
<1>2. PickerTyped' /\ RowsAppear'
  BY <1>1 DEF PickerInv, PickerTyped, RowsAppear
<1>3. (LastKept => LastKept') /\ (ChoicesStand => ChoicesStand') /\ (DraftsStand => DraftsStand')
  BY <1>1, ChoicesAlone
<1>4. (DraftShown => DraftShown') /\ DetailFresh'
  BY <1>1 DEF DraftShown, DetailFresh
<1> QED
  BY <1>1, <1>2, <1>3, <1>4 DEF PickerInv, CalmInv

LEMMA LoadRowStep ==
  ASSUME PickerInv, LoadRow
  PROVE  PickerInv'
<1>1. /\ rowFetch.at = "answered" /\ rowFetch' = [at |-> "idle", answer |-> NoRow] /\ rowFetch'.at = "idle"
      /\ Redraws(rowFetch.answer, picker, pickerSends) /\ UNCHANGED <<row, picks, murky>>
  BY DEF LoadRow
<1>2. cachedRow' = rowFetch.answer /\ picker' = picker /\ IsSends(pickerSends')
  BY <1>1, Redrawn DEF PickerInv, PickerTyped
<1>3. PickerTyped'
  BY <1>1, <1>2, NoRowIs DEF PickerInv, PickerTyped
<1>4. RowsAppear'
  BY <1>1, <1>2 DEF PickerInv, RowsAppear
<1>5. (LastKept => LastKept') /\ (ChoicesStand => ChoicesStand') /\ (DraftsStand => DraftsStand')
  BY <1>1, <1>2, ChoicesAlone
<1>6. (DraftShown => DraftShown') /\ (DetailFresh => DetailFresh')
  BY <1>1, <1>2 DEF DraftShown, DetailFresh, PickerInv, RowsAppear
<1> QED
  BY <1>1, <1>3, <1>4, <1>5, <1>6 DEF PickerInv, CalmInv

LEMMA PickerInitially ==
  ASSUME OverridePickerInit
  PROVE  PickerInv
<1>1. /\ row \in [has: BOOLEAN, model: {Inherit}] /\ cachedRow = row
      /\ rowFetch = [at |-> "idle", answer |-> NoRow]
      /\ picker = [seed |-> Inherit, value |-> Inherit, latest |-> Inherit, draft |-> Inherit]
      /\ picks = <<>> /\ Len(picks) = 0 /\ pickerSends = <<>> /\ Len(pickerSends) = 0 /\ murky = FALSE
  BY DEF OverridePickerInit
<1>2. IsDetail(row) /\ row.model = Inherit
  BY <1>1 DEF IsDetail
<1>3. IsPicks(picks) /\ IsSends(pickerSends)
  BY <1>1 DEF IsPicks, IsSends
<1>4. PickerTyped
  BY <1>1, <1>2, <1>3, NoRowIs DEF PickerTyped
<1>5. RowsAppear
  BY <1>1 DEF RowsAppear
<1>6. LastKept /\ ChoicesStand
  BY <1>1, <1>2 DEF LastKept, ChoicesStand, LocalStands
<1>7. DraftsStand /\ DraftShown /\ DetailFresh
  BY <1>1 DEF DraftsStand, DraftStands, DraftShown, DetailFresh
<1> QED
  BY <1>4, <1>5, <1>6, <1>7 DEF PickerInv, CalmInv

LEMMA PickerStays ==
  ASSUME PickerInv, [OverridePickerNext]_pickerVars
  PROVE  PickerInv'
<1>1. ASSUME NEW choice, PickModel(choice) \/ CreateAdvanced(choice) PROVE PickerInv'
  BY <1>1, PickModelStep, CreateAdvancedStep
<1>2. ASSUME NEW i \in 1 .. Len(picks), StorePick(i) \/ PickSucceeds(i) \/ PickFails(i) PROVE PickerInv'
  BY <1>2, StorePickStep, PickSucceedsStep, PickFailsStep
<1>3. ASSUME NEW k \in 1 .. Len(pickerSends), PostSend(k) PROVE PickerInv'
  BY <1>3, SendStep
<1>4. ASSUME NEW k \in 1 .. Len(pickerSends), ServeSend(k) PROVE PickerInv'
  BY <1>4, ServeSendStep
<1>5. ASSUME PressSend \/ AnswerRow \/ LoadRow PROVE PickerInv'
  BY <1>5, SendStep, AnswerRowStep, LoadRowStep
<1>6. ASSUME UNCHANGED pickerVars PROVE PickerInv'
  <2>1. UNCHANGED <<row, cachedRow, rowFetch, picker, picks, pickerSends, murky>>
    BY <1>6 DEF pickerVars
  <2>2. PickerTyped' /\ RowsAppear'
    BY <2>1 DEF PickerInv, PickerTyped, RowsAppear
  <2>3. (LastKept => LastKept') /\ (ChoicesStand => ChoicesStand') /\ (DraftsStand => DraftsStand')
    BY <2>1, ChoicesAlone
  <2>4. (DraftShown => DraftShown') /\ (DetailFresh => DetailFresh')
    BY <2>1 DEF DraftShown, DetailFresh
  <2> QED
    BY <2>1, <2>2, <2>3, <2>4 DEF PickerInv, CalmInv
<1> QED
  BY <1>1, <1>2, <1>3, <1>4, <1>5, <1>6 DEF OverridePickerNext

(* The inductive invariant: the stored model is the last stored choice,    *)
(* and what is shown locally stands on a choice that has not failed, all   *)
(* later ones having failed; so does what each write would bring back.     *)
THEOREM PickerInvariant == OverridePickerSpec => []PickerInv
<1> QED
  BY PickerInitially, PickerStays, PTL DEF OverridePickerSpec

LEMMA QuietPicker == PickerInv => QuietPickerAgrees
<1> SUFFICES ASSUME PickerInv, PickerQuiet, ~murky
             PROVE  Shown(cachedRow, picker) = row.model \/ DialogLeft(Shown(cachedRow, picker))
  BY DEF QuietPickerAgrees
<1>1. LastKept /\ ChoicesStand /\ DraftsStand /\ DraftShown /\ DetailFresh
  BY DEF PickerInv, CalmInv
<1>2. \A i \in 1 .. Len(picks) : picks[i].at \in {"done", "failed"}
  <2>1. \A i \in 1 .. Len(picks) : picks[i].at \in PickStates /\ picks[i].at \notin {"sent", "stored"}
    BY PicksAre DEF PickerInv, PickerTyped, IsPick, PickerQuiet, Unanswered
  <2> QED
    BY <2>1 DEF PickStates
<1>3. cachedRow = row
  BY <1>1, <1>2 DEF DetailFresh, NoneStored, PickerQuiet
<1>4. Len(picks) \in Nat
  BY PicksAre DEF PickerInv, PickerTyped
<1>5. ASSUME NEW i, StandsAs(picks, i, Len(picks) + 1)
      PROVE  Kept(picks[i]) /\ row.has /\ row.model = picks[i].value
  <2>1. i \in 1 .. Len(picks) /\ Kept(picks[i])
    BY <1>2, <1>5 DEF StandsAs, Kept
  <2>2. \A j \in 1 .. Len(picks) : i < j => ~Kept(picks[j])
    BY <1>4, <1>5 DEF StandsAs, Kept
  <2> QED
    BY <1>1, <2>1, <2>2 DEF LastKept, PickerInv, RowsAppear
<1>6. CASE row.has
  <2>1. Seeded(cachedRow, picker) = row.model
    BY <1>3, <1>6 DEF Seeded
  <2>2. picker.seed = row.model => picker.value = row.model
    BY <1>1, <1>5 DEF ChoicesStand, LocalStands
  <2> QED
    BY <2>1, <2>2 DEF Shown
<1>7. CASE ~row.has
  <2>1. Shown(cachedRow, picker) = picker.draft
    BY <1>1, <1>3, <1>7, DraftIsShown
  <2>2. picker.draft = Inherit \/ DialogLeft(picker.draft)
    BY <1>1, <1>5, <1>7 DEF DraftsStand, DraftStands, LeftBehind, DialogLeft
  <2>3. row.model = Inherit
    BY <1>1, <1>7 DEF LastKept, PickerInv, RowsAppear
  <2> QED
    BY <2>1, <2>2, <2>3
<1> QED
  BY <1>6, <1>7

(* At rest the picker shows the stored model (useConversationModel), but   *)
(* where `murky' says that writes were stored out of order, an answer was  *)
(* lost, or a choice failed under a later one or after a stored one had    *)
(* overtaken it.  With no row it may also show the model that a failed     *)
(* write of the dialog has left in the draft (DialogLeft).                 *)
THEOREM QuietPickerShowsStored == OverridePickerSpec => []QuietPickerAgrees
BY QuietPicker, PickerInvariant, PTL

-----------------------------------------------------------------------------
(***************************************************************************)
(* The sends.  While each choice is made with nothing under way, at most   *)
(* the last one is unanswered, and what is wanted is that choice, or the   *)
(* stored model when there is none.                                        *)
(***************************************************************************)
AllAlone == ~murky /\ \A i \in 1 .. Len(picks) : picks[i].alone
Wanted   == IF Unanswered(picks) = {} THEN row.model ELSE picks[Len(picks)].value

ShowsWanted(d) == Shown(d, picker) = Wanted
RowMade        == [has |-> TRUE, model |-> row.model]

(* Whatever the refetches bring, the wanted model is shown; and a failure  *)
(* of the last choice brings the stored one back.                          *)
LastAlone ==
  /\ \A i \in Unanswered(picks) : i = Len(picks)
  /\ ShowsWanted(cachedRow) /\ ShowsWanted(row) /\ ShowsWanted(RowMade)
  /\ rowFetch.at = "answered" => ShowsWanted(rowFetch.answer)
  /\ \A i \in 1 .. Len(picks) :
       picks[i].at = "sent" =>
         /\ picks[i].previous = row.model /\ cachedRow.model = row.model
         /\ rowFetch.at = "answered" => rowFetch.answer.model = row.model
         /\ picker.value = picks[i].value /\ picker.seed = picks[i].seed

SendsSee ==
  \A k \in 1 .. Len(pickerSends) :
    /\ pickerSends[k].at # "finished" => Shown(cachedRow, picker) \in pickerSends[k].seen
    /\ pickerSends[k].at = "posted" => pickerSends[k].body \in pickerSends[k].seen

(* A send has seen the stored model, or waits for the choice under way. *)
WaitsForLast(k) == /\ pickerSends[k].at = "gated" /\ pickerSends[k].gate \in Unanswered(picks)
                   /\ pickerSends[k].gate = Len(picks) /\ picks[Len(picks)].at = "sent"
AloneSend(k) ==
  /\ pickerSends[k].at = "finished" => pickerSends[k].used \in pickerSends[k].seen
  /\ pickerSends[k].at # "finished" => row.model \in pickerSends[k].seen \/ WaitsForLast(k)
AloneSends == \A k \in 1 .. Len(pickerSends) : AloneSend(k)

SendsInv == PickerInv /\ SendsSee /\ (AllAlone => LastAlone /\ AloneSends)

-----------------------------------------------------------------------------
(* Nothing becomes alone again. *)
LEMMA AlonePicks ==
  ASSUME PickerInv, NEW i \in 1 .. Len(picks), NEW at \in PickStates, picks' = [picks EXCEPT ![i].at = at],
         AllAlone', murky => murky'
  PROVE  AllAlone
<1>1. Len(picks') = Len(picks) /\ \A j \in 1 .. Len(picks) : picks'[j].alone = picks[j].alone
  BY PickMoves DEF PickerInv, PickerTyped, SamePick
<1> QED
  BY <1>1 DEF AllAlone

(* The only unanswered write is the last. *)
LEMMA LastIs ==
  ASSUME PickerInv, LastAlone, NEW i \in 1 .. Len(picks), picks[i].at \in {"sent", "stored"}
  PROVE  i = Len(picks) /\ Len(picks) \in Nat /\ Wanted = picks[i].value
<1>1. i \in Unanswered(picks)
  BY DEF Unanswered
<1> QED
  BY <1>1, PicksAre DEF LastAlone, Wanted, PickerInv, PickerTyped

(* Once the last write is answered none is under way. *)
LEMMA NoneLeft ==
  ASSUME PickerInv, LastAlone, NEW i \in 1 .. Len(picks), picks[i].at \in {"sent", "stored"},
         NEW at \in {"done", "failed"}, picks' = [picks EXCEPT ![i].at = at]
  PROVE  /\ Unanswered(picks') = {} /\ Len(picks') = Len(picks)
         /\ \A j \in 1 .. Len(picks) : picks'[j].at \notin {"sent", "stored"}
         /\ Wanted' = row'.model
<1>1. at \in PickStates
  BY DEF PickStates
<1>2. /\ Len(picks') = Len(picks) /\ picks'[i].at = at
      /\ \A j \in 1 .. Len(picks) : j # i => picks'[j].at = picks[j].at
  BY <1>1, PickMoves DEF PickerInv, PickerTyped
<1>3. \A j \in 1 .. Len(picks) : picks[j].at \in {"sent", "stored"} => j = i
  BY LastIs
<1>4. \A j \in 1 .. Len(picks) : picks'[j].at \notin {"sent", "stored"}
  BY <1>2, <1>3
<1>5. Unanswered(picks') = {}
  BY <1>2, <1>4 DEF Unanswered
<1> QED
  BY <1>2, <1>4, <1>5 DEF Wanted

LEMMA PickModelAlone ==
  ASSUME PickerInv, NEW next, PickModel(next), AllAlone'
  PROVE  /\ AllAlone /\ Unanswered(picks) = {} /\ LastAlone'
<1> DEFINE seed == Seeded(cachedRow, picker)
           was  == Shown(cachedRow, picker)
           n    == Len(picks)
           w == [value |-> next, previous |-> was, seed |-> seed, asDraft |-> ~cachedRow.has, dialog |-> FALSE,
                 at |-> "sent", alone |-> PickerQuiet]
           p == [seed |-> seed, value |-> next, latest |-> next, draft |-> IF ~cachedRow.has THEN next ELSE picker.draft]
<1>1. picks' = Append(picks, w) /\ Redraws(cachedRow, p, pickerSends) /\ UNCHANGED <<row, rowFetch, murky>>
  BY DEF PickModel
<1>2. /\ IsPick(w) /\ w.at = "sent" /\ w.value = next /\ w.seed = seed /\ w.previous = was /\ w.alone = PickerQuiet
  <2>1. PickerQuiet \in BOOLEAN /\ (~cachedRow.has) \in BOOLEAN
    BY DEF PickerQuiet
  <2> HIDE DEF seed, was
  <2> QED
    BY <2>1 DEF IsPick, PickStates
<1>3. p.seed = seed /\ p.value = next /\ p.draft = (IF ~cachedRow.has THEN next ELSE picker.draft)
  OBVIOUS
<1> HIDE DEF w, p
<1>4. cachedRow' = cachedRow /\ picker' = p
  BY <1>1, Redrawn DEF PickerInv, PickerTyped
<1>5. /\ n \in Nat /\ Len(picks') = n + 1 /\ picks'[Len(picks')] = w
      /\ \A i \in 1 .. n : picks'[i] = picks[i]
      /\ \A i \in 1 .. Len(picks') : i \in 1 .. n \/ i = Len(picks')
  BY <1>1, <1>2, PickAdded, PicksAre DEF PickerInv, PickerTyped
<1>6. AllAlone /\ PickerQuiet
  <2>1. \A i \in 1 .. n + 1 : picks'[i].alone
    BY <1>5 DEF AllAlone
  <2>2. n + 1 \in 1 .. n + 1 /\ \A i \in 1 .. n : i \in 1 .. n + 1
    BY <1>5
  <2>3. ~murky
    BY <1>1 DEF AllAlone
  <2> QED
    BY <1>2, <1>5, <2>1, <2>2, <2>3 DEF AllAlone
<1>7. Unanswered(picks) = {} /\ rowFetch.at = "idle" /\ \A i \in 1 .. n : picks[i].at \notin {"sent", "stored"}
  BY <1>6 DEF PickerQuiet, Unanswered
<1>8. was = row.model /\ cachedRow = row /\ (~row.has => picker.draft = row.model)
  <2>1. was = row.model
    <3>1. \A i \in 1 .. n : ~picks[i].dialog
      BY <1>6 DEF AllAlone, PickerInv, RowsAppear
    <3>2. ~DialogLeft(was)
      BY <3>1 DEF DialogLeft
    <3> QED
      BY <1>6, <3>2, QuietPicker DEF QuietPickerAgrees, AllAlone
  <2>2. DetailFresh /\ DraftShown
    BY <1>6 DEF PickerInv, CalmInv, AllAlone
  <2>3. cachedRow = row
    BY <1>7, <2>2 DEF DetailFresh, NoneStored
  <2> QED
    BY <2>1, <2>2, <2>3, DraftIsShown
<1>9. seed = row.model
  BY <1>8 DEF Seeded
<1>10. \A i \in 1 .. Len(picks') : picks'[i].at \in {"sent", "stored"} => i = Len(picks')
  BY <1>5, <1>7
<1>11. Len(picks') \in Unanswered(picks') /\ \A i \in Unanswered(picks') : i = Len(picks')
  BY <1>2, <1>5, <1>10 DEF Unanswered
<1>12. Wanted' = next
  BY <1>2, <1>5, <1>11 DEF Wanted
<1>13. ShowsWanted(row)' /\ ShowsWanted(RowMade)' /\ ShowsWanted(cachedRow)'
  <2>1. Shown(row, p) = next
    BY <1>3, <1>8, <1>9 DEF Shown, Seeded
  <2>2. Shown(RowMade, p) = next
    BY <1>3, <1>9 DEF Shown, Seeded, RowMade
  <2> QED
    BY <1>1, <1>4, <1>8, <1>12, <2>1, <2>2 DEF ShowsWanted, RowMade
<1>14. rowFetch'.at # "answered"
  BY <1>1, <1>7
<1>15. ASSUME NEW i \in 1 .. Len(picks'), picks'[i].at = "sent"
       PROVE  /\ picks'[i].previous = row'.model /\ cachedRow'.model = row'.model
              /\ picker'.value = picks'[i].value /\ picker'.seed = picks'[i].seed
  BY <1>1, <1>2, <1>3, <1>4, <1>5, <1>8, <1>10, <1>15
<1>16. LastAlone'
  BY <1>11, <1>13, <1>14, <1>15 DEF LastAlone
<1> QED
  BY <1>6, <1>7, <1>16

LEMMA StorePickAlone ==
  ASSUME PickerInv, NEW i \in 1 .. Len(picks), StorePick(i), LastAlone, AllAlone'
  PROVE  /\ AllAlone /\ LastAlone' /\ row'.model = Wanted
         /\ UNCHANGED <<cachedRow, picker, pickerSends>>
<1> DEFINE n == Len(picks)
<1>1. /\ picks[i].at = "sent" /\ picks' = [picks EXCEPT ![i].at = "stored"]
      /\ row' = [has |-> TRUE, model |-> picks[i].value] /\ (murky => murky')
      /\ UNCHANGED <<cachedRow, rowFetch, picker, pickerSends>>
  BY DEF StorePick
<1>2. i = n /\ n \in Nat /\ Wanted = picks[i].value
  BY <1>1, LastIs
<1>3. /\ Len(picks') = n /\ picks'[i].at = "stored" /\ picks'[i].value = picks[i].value
      /\ \A j \in 1 .. n : j # i => picks'[j].at = picks[j].at
  BY <1>1, PickMoves DEF PickerInv, PickerTyped, PickStates, SamePick
<1>4. i \in Unanswered(picks') /\ \A j \in Unanswered(picks') : j = n
  BY <1>2, <1>3 DEF Unanswered, LastAlone
<1>5. Wanted' = Wanted /\ row'.model = Wanted /\ row'.has = TRUE
  BY <1>1, <1>2, <1>3, <1>4 DEF Wanted
<1>6. picker.value = Wanted
  BY <1>1, <1>2 DEF LastAlone
<1>7. ShowsWanted(row)' /\ ShowsWanted(RowMade)'
  <2>1. Shown(row', picker) = Wanted
    BY <1>5, <1>6 DEF Shown, Seeded
  <2>2. Shown(RowMade', picker) = Wanted
    BY <1>5, <1>6 DEF Shown, Seeded, RowMade
  <2> QED
    BY <1>1, <1>5, <2>1, <2>2 DEF ShowsWanted
<1>8. ShowsWanted(cachedRow)' /\ (rowFetch'.at = "answered" => ShowsWanted(rowFetch.answer)')
  BY <1>1, <1>5 DEF LastAlone, ShowsWanted
<1>9. \A j \in 1 .. n : picks'[j].at # "sent"
  BY <1>2, <1>3 DEF LastAlone, Unanswered
<1>10. LastAlone'
  BY <1>3, <1>4, <1>7, <1>8, <1>9 DEF LastAlone
<1>11. AllAlone
  BY <1>1, AlonePicks DEF PickStates
<1> QED
  BY <1>1, <1>5, <1>10, <1>11

(* A stored choice is the stored model. *)
LEMMA StoredIsWanted ==
  ASSUME PickerInv, AllAlone, LastAlone, NEW i \in 1 .. Len(picks), picks[i].at = "stored"
  PROVE  row.model = Wanted
<1>1. i = Len(picks) /\ Wanted = picks[i].value /\ Len(picks) \in Nat
  BY LastIs
<1>2. \A j \in 1 .. Len(picks) : ~(i < j)
  BY <1>1
<1>3. LastKept
  BY DEF PickerInv, CalmInv, AllAlone
<1> QED
  BY <1>1, <1>2, <1>3 DEF LastKept, Kept

LEMMA PickSucceedsAlone ==
  ASSUME PickerInv, NEW i \in 1 .. Len(picks), PickSucceeds(i), LastAlone, AllAlone'
  PROVE  AllAlone /\ LastAlone'
<1>1. /\ picks[i].at = "stored" /\ picks' = [picks EXCEPT ![i].at = "done"]
      /\ rowFetch' = [at |-> "asked", answer |-> NoRow] /\ rowFetch'.at = "asked"
      /\ UNCHANGED <<row, cachedRow, picker, pickerSends, murky>>
  BY DEF PickSucceeds, Refetches
<1>2. AllAlone
  BY <1>1, AlonePicks DEF PickStates
<1>3. /\ Unanswered(picks') = {} /\ Len(picks') = Len(picks) /\ Wanted' = row'.model
      /\ \A j \in 1 .. Len(picks) : picks'[j].at \notin {"sent", "stored"}
  BY <1>1, NoneLeft
<1>4. Wanted' = Wanted
  BY <1>1, <1>2, <1>3, StoredIsWanted
<1>5. ShowsWanted(cachedRow)' /\ ShowsWanted(row)' /\ ShowsWanted(RowMade)'
  BY <1>1, <1>4 DEF LastAlone, ShowsWanted, RowMade
<1> QED
  BY <1>1, <1>2, <1>3, <1>5 DEF LastAlone

LEMMA PickFailsAlone ==
  ASSUME PickerInv, NEW i \in 1 .. Len(picks), PickFails(i), LastAlone, AllAlone'
  PROVE  AllAlone /\ LastAlone' /\ UNCHANGED row /\ Wanted' = row.model
<1> DEFINE old  == picks[i]
           back == [seed |-> old.seed, value |-> old.previous, latest |-> old.previous,
                    draft |-> IF old.asDraft THEN old.previous ELSE picker.draft]
<1>1. /\ picks' = [picks EXCEPT ![i].at = "failed"] /\ UNCHANGED <<row, rowFetch>> /\ (murky => murky')
      /\ Redraws(cachedRow, PickRolledBack(old), pickerSends)
  BY DEF PickFails
<1>2. AllAlone
  BY <1>1, AlonePicks DEF PickStates
<1>3. old.at = "sent" /\ (picker.value = old.value => picker' = back)
  <2>1. ~old.dialog
    BY <1>2 DEF AllAlone, PickerInv, RowsAppear
  <2> QED
    BY <2>1, CalmFailure DEF AllAlone
<1>4. picker.value = old.value /\ old.previous = row.model /\ cachedRow.model = row.model
      /\ (rowFetch.at = "answered" => rowFetch.answer.model = row.model)
  BY <1>3 DEF LastAlone
<1>5. /\ Unanswered(picks') = {} /\ Len(picks') = Len(picks) /\ Wanted' = row'.model
      /\ \A j \in 1 .. Len(picks) : picks'[j].at \notin {"sent", "stored"}
  BY <1>1, <1>3, NoneLeft
<1>6. back.value = row.model /\ back.draft = (IF old.asDraft THEN row.model ELSE picker.draft)
  BY <1>4
<1> HIDE DEF back
<1>7. ~cachedRow.has => back.draft = row.model
  BY <1>6 DEF PickerInv, RowsAppear
<1>8. ASSUME NEW d, d.model = row.model, cachedRow.has => d.has
      PROVE  Shown(d, back) = row.model
  BY <1>6, <1>7, <1>8 DEF Shown, Seeded
<1>9. cachedRow' = cachedRow
  BY <1>1 DEF Redraws
<1>10. ShowsWanted(cachedRow)' /\ ShowsWanted(row)' /\ ShowsWanted(RowMade)'
  <2>1. RowMade.model = row.model /\ RowMade.has = TRUE /\ RowMade' = RowMade
    BY <1>1 DEF RowMade
  <2>2. /\ Shown(cachedRow, back) = row.model /\ Shown(row, back) = row.model /\ Shown(RowMade, back) = row.model
    BY <1>4, <1>8, <2>1 DEF PickerInv, RowsAppear
  <2> QED
    BY <1>1, <1>3, <1>4, <1>5, <1>9, <2>1, <2>2 DEF ShowsWanted
<1>11. rowFetch'.at = "answered" => ShowsWanted(rowFetch.answer)'
  BY <1>1, <1>3, <1>4, <1>5, <1>8 DEF ShowsWanted, PickerInv, RowsAppear
<1>12. LastAlone'
  BY <1>5, <1>10, <1>11 DEF LastAlone
<1> QED
  BY <1>1, <1>2, <1>5, <1>12

(* The server's turn makes a row, and the refetches read it. *)
LEMMA RowReadAlone ==
  ASSUME PickerInv, LastAlone,
         AnswerRow \/ LoadRow \/ \E k \in 1 .. Len(pickerSends) : ServeSend(k)
  PROVE  LastAlone' /\ row'.model = row.model /\ UNCHANGED <<picker, picks, murky>>
<1>1. CASE AnswerRow
  <2>1. /\ rowFetch'.answer = row /\ UNCHANGED <<row, cachedRow, picker, picks, murky>>
    BY <1>1 DEF AnswerRow
  <2>2. Wanted' = Wanted /\ RowMade' = RowMade
    BY <2>1 DEF Wanted, RowMade
  <2>3. \A d : ShowsWanted(d) => Shown(d, picker') = Wanted'
    BY <2>1, <2>2 DEF ShowsWanted
  <2>4. ShowsWanted(cachedRow)' /\ ShowsWanted(row)' /\ ShowsWanted(RowMade)' /\ ShowsWanted(rowFetch.answer)'
    BY <2>1, <2>2, <2>3 DEF LastAlone, ShowsWanted
  <2> QED
    BY <2>1, <2>4 DEF LastAlone
<1>2. CASE LoadRow
  <2>1. /\ rowFetch.at = "answered" /\ rowFetch' = [at |-> "idle", answer |-> NoRow] /\ rowFetch'.at = "idle"
        /\ cachedRow' = rowFetch.answer /\ UNCHANGED <<row, picker, picks, murky>>
    BY <1>2 DEF LoadRow, Redraws
  <2>2. Wanted' = Wanted /\ RowMade' = RowMade
    BY <2>1 DEF Wanted, RowMade
  <2>3. ShowsWanted(cachedRow)' /\ ShowsWanted(row)' /\ ShowsWanted(RowMade)'
    BY <2>1, <2>2 DEF LastAlone, ShowsWanted
  <2> QED
    BY <2>1, <2>3 DEF LastAlone
<1>3. ASSUME NEW k \in 1 .. Len(pickerSends), ServeSend(k)
      PROVE  LastAlone' /\ row'.model = row.model /\ UNCHANGED <<picker, picks, murky>>
  <2>1. row' = RowMade /\ row'.model = row.model /\ rowFetch'.at = "asked"
    <3>1. /\ row' = [has |-> TRUE, model |-> row.model] /\ row'.model = row.model
          /\ rowFetch' = [at |-> "asked", answer |-> NoRow]
      BY <1>3, ServeSendDoes DEF PickerInv
    <3> QED
      BY <3>1 DEF RowMade
  <2>2. UNCHANGED <<cachedRow, picker, picks, murky>>
    BY <1>3 DEF ServeSend
  <2>3. Wanted' = Wanted /\ RowMade' = RowMade
    BY <2>1, <2>2 DEF Wanted, RowMade
  <2>4. ShowsWanted(cachedRow)' /\ ShowsWanted(row)' /\ ShowsWanted(RowMade)'
    BY <2>1, <2>2, <2>3 DEF LastAlone, ShowsWanted
  <2> QED
    BY <2>1, <2>2, <2>4 DEF LastAlone
<1> QED
  BY <1>1, <1>2, <1>3

-----------------------------------------------------------------------------
(* The steps that neither start, post nor serve a send leave it where it   *)
(* is, and let it see what is shown.                                       *)
SendsGrow ==
  /\ Len(pickerSends') = Len(pickerSends)
  /\ \A k \in 1 .. Len(pickerSends) :
       /\ pickerSends'[k].at = pickerSends[k].at /\ pickerSends'[k].gate = pickerSends[k].gate
       /\ pickerSends'[k].body = pickerSends[k].body /\ pickerSends'[k].used = pickerSends[k].used
       /\ \A value \in pickerSends[k].seen : value \in pickerSends'[k].seen
       /\ pickerSends[k].at # "finished" => Shown(cachedRow', picker') \in pickerSends'[k].seen

LEMMA SendsGrowWhen ==
  ASSUME PickerInv, SendsSee,
         (\E d, p : Redraws(d, p, pickerSends)) \/ UNCHANGED <<cachedRow, picker, pickerSends>>
  PROVE  SendsGrow
<1>1. ASSUME NEW d, NEW p, Redraws(d, p, pickerSends) PROVE SendsGrow
  <2>1. /\ cachedRow' = d /\ picker' = p /\ Len(pickerSends') = Len(pickerSends)
        /\ \A k \in 1 .. Len(pickerSends) :
             /\ pickerSends'[k].at = pickerSends[k].at /\ pickerSends'[k].gate = pickerSends[k].gate
             /\ pickerSends'[k].body = pickerSends[k].body /\ pickerSends'[k].used = pickerSends[k].used
             /\ pickerSends[k].at = "finished" => pickerSends'[k].seen = pickerSends[k].seen
             /\ pickerSends[k].at # "finished" =>
                  pickerSends'[k].seen = pickerSends[k].seen \cup {Shown(d, p)}
    BY <1>1, Redrawn DEF PickerInv, PickerTyped
  <2> QED
    BY <2>1 DEF SendsGrow
<1>2. ASSUME UNCHANGED <<cachedRow, picker, pickerSends>> PROVE SendsGrow
  BY <1>2 DEF SendsGrow, SendsSee
<1> QED
  BY <1>1, <1>2

LEMMA SendsStillSee ==
  ASSUME SendsSee, SendsGrow
  PROVE  SendsSee'
BY DEF SendsSee, SendsGrow

(* A send that is alone stays it while the stored model is the same, or    *)
(* once that is what is shown; and while the write it waits for is sent.   *)
LEMMA SendsStayAlone ==
  ASSUME SendsGrow, AloneSends,
         \/ row'.model = row.model /\ \A k : WaitsForLast(k) => picks' = picks
         \/ row'.model = Shown(cachedRow', picker')
  PROVE  AloneSends'
<1> SUFFICES ASSUME NEW k \in 1 .. Len(pickerSends)
             PROVE  AloneSend(k)'
  BY DEF AloneSends, SendsGrow
<1>1. AloneSend(k)
  BY DEF AloneSends
<1>2. WaitsForLast(k) /\ picks' = picks => WaitsForLast(k)'
  BY DEF WaitsForLast, SendsGrow, Unanswered
<1> QED
  BY <1>1, <1>2 DEF AloneSend, SendsGrow

(* Choices and their writes. *)
LEMMA ChoiceSends ==
  ASSUME SendsInv,
         \/ \E choice : PickModel(choice) \/ CreateAdvanced(choice)
         \/ \E i \in 1 .. Len(picks) : StorePick(i) \/ PickSucceeds(i) \/ PickFails(i)
  PROVE  SendsSee' /\ (AllAlone' => LastAlone' /\ AloneSends')
<1>1. SendsGrow
  <2>1. (\E d, p : Redraws(d, p, pickerSends)) \/ UNCHANGED <<cachedRow, picker, pickerSends>>
    BY DEF PickModel, CreateAdvanced, StorePick, PickSucceeds, PickFails
  <2> QED
    BY <2>1, SendsGrowWhen DEF SendsInv
<1>2. SendsSee'
  BY <1>1, SendsStillSee DEF SendsInv
<1>3. ASSUME NEW choice, PickModel(choice), AllAlone' PROVE LastAlone' /\ AloneSends'
  <2>1. AllAlone /\ Unanswered(picks) = {} /\ LastAlone'
    BY <1>3, PickModelAlone DEF SendsInv
  <2>2. row' = row /\ \A k : ~WaitsForLast(k)
    BY <1>3, <2>1 DEF PickModel, WaitsForLast
  <2> QED
    BY <1>1, <2>1, <2>2, SendsStayAlone DEF SendsInv
<1>4. ASSUME NEW choice, CreateAdvanced(choice) PROVE ~AllAlone'
  <2>1. /\ Len(picks') = 1 /\ picks'[1].alone = FALSE
    BY <1>4 DEF CreateAdvanced
  <2> QED
    BY <2>1 DEF AllAlone
<1>5. ASSUME NEW i \in 1 .. Len(picks), StorePick(i), AllAlone' PROVE LastAlone' /\ AloneSends'
  <2>1. AllAlone
    <3>1. picks' = [picks EXCEPT ![i].at = "stored"] /\ (murky => murky')
      BY <1>5 DEF StorePick
    <3> QED
      BY <1>5, <3>1, AlonePicks DEF SendsInv, PickStates
  <2>2. LastAlone /\ AloneSends
    BY <2>1 DEF SendsInv
  <2>3. LastAlone' /\ row'.model = Wanted /\ UNCHANGED <<cachedRow, picker>>
    BY <1>5, <2>2, StorePickAlone DEF SendsInv
  <2>4. row'.model = Shown(cachedRow', picker')
    BY <2>2, <2>3 DEF LastAlone, ShowsWanted
  <2> QED
    BY <1>1, <2>2, <2>3, <2>4, SendsStayAlone
<1>6. ASSUME NEW i \in 1 .. Len(picks), PickSucceeds(i), AllAlone' PROVE LastAlone' /\ AloneSends'
  <2>1. AllAlone
    <3>1. picks' = [picks EXCEPT ![i].at = "done"] /\ (murky => murky')
      BY <1>6 DEF PickSucceeds
    <3> QED
      BY <1>6, <3>1, AlonePicks DEF SendsInv, PickStates
  <2>2. LastAlone /\ AloneSends
    BY <2>1 DEF SendsInv
  <2>3. LastAlone'
    BY <1>6, <2>2, PickSucceedsAlone DEF SendsInv
  <2>4. picks[i].at = "stored" /\ row' = row
    BY <1>6 DEF PickSucceeds
  <2>5. i = Len(picks)
    BY <2>2, <2>4, LastIs DEF SendsInv
  <2>6. \A k : ~WaitsForLast(k)
    BY <2>4, <2>5 DEF WaitsForLast
  <2> QED
    BY <1>1, <2>2, <2>3, <2>4, <2>6, SendsStayAlone
<1>7. ASSUME NEW i \in 1 .. Len(picks), PickFails(i), AllAlone' PROVE LastAlone' /\ AloneSends'
  <2>1. AllAlone
    <3>1. picks' = [picks EXCEPT ![i].at = "failed"] /\ (murky => murky')
      BY <1>7 DEF PickFails
    <3> QED
      BY <1>7, <3>1, AlonePicks DEF SendsInv, PickStates
  <2>2. LastAlone /\ AloneSends
    BY <2>1 DEF SendsInv
  <2>3. LastAlone' /\ row' = row /\ Wanted' = row.model
    BY <1>7, <2>2, PickFailsAlone DEF SendsInv
  <2>4. row'.model = Shown(cachedRow', picker')
    BY <2>3 DEF LastAlone, ShowsWanted
  <2> QED
    BY <1>1, <2>2, <2>3, <2>4, SendsStayAlone
<1> QED
  BY <1>2, <1>3, <1>4, <1>5, <1>6, <1>7

(* The refetch. *)
LEMMA ReadSends ==
  ASSUME SendsInv, AnswerRow \/ LoadRow
  PROVE  SendsSee' /\ (AllAlone' => LastAlone' /\ AloneSends')
<1>1. SendsGrow /\ picks' = picks /\ murky' = murky
  <2>1. (\E d, p : Redraws(d, p, pickerSends)) \/ UNCHANGED <<cachedRow, picker, pickerSends>>
    BY DEF AnswerRow, LoadRow
  <2> QED
    BY <2>1, SendsGrowWhen DEF SendsInv, AnswerRow, LoadRow
<1>2. SendsSee'
  BY <1>1, SendsStillSee DEF SendsInv
<1>3. ASSUME AllAlone' PROVE LastAlone' /\ AloneSends'
  <2>1. LastAlone /\ AloneSends
    BY <1>1, <1>3 DEF SendsInv, AllAlone
  <2>2. LastAlone' /\ row'.model = row.model
    BY <2>1, RowReadAlone DEF SendsInv
  <2> QED
    BY <1>1, <2>1, <2>2, SendsStayAlone
<1> QED
  BY <1>2, <1>3

(* Without the dialog the latest write of the picker is the last. *)
LEMMA LatestIsLast ==
  ASSUME PickerInv, AllAlone, Len(picks) > 0
  PROVE  LatestPick = Len(picks)
<1> DEFINE own == {i \in 1 .. Len(picks) : ~picks[i].dialog}
<1>1. Len(picks) \in Nat
  BY PicksAre DEF PickerInv, PickerTyped
<1>2. \A i \in 1 .. Len(picks) : i \in own
  BY DEF PickerInv, RowsAppear, AllAlone
<1>3. Len(picks) \in own /\ \A j \in own : j <= Len(picks)
  BY <1>1, <1>2
<1>4. \A i \in own : (\A j \in own : j <= i) => i = Len(picks)
  BY <1>1, <1>3
<1>5. own # {} /\ LatestPick = (CHOOSE i \in own : \A j \in own : j <= i)
  BY <1>3 DEF LatestPick
<1> HIDE DEF own
<1> QED
  BY <1>3, <1>4, <1>5

(* A send that starts. *)
LEMMA PressSends ==
  ASSUME SendsInv, PressSend
  PROVE  SendsSee' /\ (AllAlone' => LastAlone' /\ AloneSends')
<1> DEFINE n == Len(pickerSends)
<1>1. /\ n \in Nat /\ Len(pickerSends') = n + 1
      /\ \A k \in 1 .. n : pickerSends[k].at = "finished"
      /\ \A k \in 1 .. n : /\ pickerSends'[k].at = pickerSends[k].at
                           /\ pickerSends'[k].used = pickerSends[k].used
                           /\ pickerSends'[k].seen = pickerSends[k].seen
      /\ pickerSends'[n + 1].at = "gated" /\ pickerSends'[n + 1].gate = LatestPick
      /\ Shown(cachedRow, picker) \in pickerSends'[n + 1].seen
      /\ UNCHANGED <<row, cachedRow, rowFetch, picker, picks, murky>>
  BY PressSendDoes DEF SendsInv, PickerInv
<1>2. \A k \in 1 .. n + 1 : k \in 1 .. n \/ k = n + 1
  BY <1>1
<1>3. SendsSee'
  BY <1>1, <1>2 DEF SendsSee
<1>4. ASSUME AllAlone' PROVE LastAlone' /\ AloneSends'
  <2>0. PICK m : m = n + 1
    OBVIOUS
  <2>1. AllAlone /\ LastAlone /\ AloneSends
    BY <1>1, <1>4 DEF SendsInv, AllAlone
  <2>2. LastAlone'
    BY <1>1, <2>1 DEF LastAlone, ShowsWanted, Wanted, RowMade
  <2>3. Wanted \in pickerSends'[n + 1].seen
    BY <1>1, <2>1 DEF LastAlone, ShowsWanted
  <2>4. row.model \in pickerSends'[m].seen \/ WaitsForLast(m)'
    <3>1. CASE Unanswered(picks) = {}
      BY <2>3, <3>1, <2>0 DEF Wanted
    <3>2. ASSUME NEW i \in Unanswered(picks) PROVE row.model \in pickerSends'[m].seen \/ WaitsForLast(m)'
      <4>1. i \in 1 .. Len(picks) /\ picks[i].at \in {"sent", "stored"}
        BY <3>2 DEF Unanswered
      <4>2. CASE picks[i].at = "stored"
        BY <2>1, <2>3, <4>1, <4>2, <2>0, StoredIsWanted DEF SendsInv
      <4>3. CASE picks[i].at = "sent"
        <5>1. i = Len(picks) /\ Len(picks) \in Nat
          BY <2>1, <4>1, LastIs DEF SendsInv
        <5>2. LatestPick = i
          BY <2>1, <4>1, <5>1, LatestIsLast DEF SendsInv
        <5>3. pickerSends'[m].gate = i /\ i \in Unanswered(picks')
          BY <1>1, <3>2, <5>2, <2>0
        <5> QED
          BY <1>1, <2>0, <4>3, <5>1, <5>3 DEF WaitsForLast
      <4> QED
        BY <4>1, <4>2, <4>3
    <3> QED
      BY <3>1, <3>2
  <2>5. ASSUME NEW k \in 1 .. n + 1 PROVE AloneSend(k)'
    <3>1. CASE k \in 1 .. n
      BY <1>1, <2>1, <3>1 DEF AloneSends, AloneSend
    <3>2. CASE k = n + 1
      BY <1>1, <2>0, <2>4, <3>2 DEF AloneSend
    <3> QED
      BY <1>2, <3>1, <3>2
  <2> QED
    BY <1>1, <2>2, <2>5 DEF AloneSends
<1> QED
  BY <1>3, <1>4

(* The request goes out, with the model shown. *)
LEMMA PostSends ==
  ASSUME SendsInv, NEW k \in 1 .. Len(pickerSends), PostSend(k)
  PROVE  SendsSee' /\ (AllAlone' => LastAlone' /\ AloneSends')
<1>1. /\ Len(pickerSends') = Len(pickerSends)
      /\ pickerSends[k].at = "gated" /\ pickerSends[k].gate \notin Unanswered(picks)
      /\ pickerSends'[k].at = "posted" /\ pickerSends'[k].body = Shown(cachedRow, picker)
      /\ pickerSends'[k].seen = pickerSends[k].seen
      /\ \A j \in 1 .. Len(pickerSends) : j # k => pickerSends'[j] = pickerSends[j]
  BY PostSendDoes DEF SendsInv, PickerInv
<1>2. UNCHANGED <<row, cachedRow, rowFetch, picker, picks, murky>>
  BY DEF PostSend
<1>3. SendsSee'
  BY <1>1, <1>2 DEF SendsInv, SendsSee
<1>4. ASSUME AllAlone' PROVE LastAlone' /\ AloneSends'
  <2>1. LastAlone /\ AloneSends
    BY <1>2, <1>4 DEF SendsInv, AllAlone
  <2>2. LastAlone'
    BY <1>2, <2>1 DEF LastAlone, ShowsWanted, Wanted, RowMade
  <2>3. ASSUME NEW j \in 1 .. Len(pickerSends) PROVE AloneSend(j)'
    <3>1. CASE j = k
      <4>1. row.model \in pickerSends[k].seen
        BY <1>1, <2>1 DEF AloneSends, AloneSend, WaitsForLast
      <4> QED
        BY <1>1, <1>2, <3>1, <4>1 DEF AloneSend
    <3>2. CASE j # k
      <4>1. AloneSend(j) /\ pickerSends'[j] = pickerSends[j]
        BY <1>1, <2>1, <3>2 DEF AloneSends
      <4> QED
        BY <1>2, <4>1 DEF AloneSend, WaitsForLast
    <3> QED
      BY <3>1, <3>2
  <2> QED
    BY <1>1, <2>2, <2>3 DEF AloneSends
<1> QED
  BY <1>3, <1>4

(* The server reads the stored model, or takes the request's. *)
LEMMA ServeSends ==
  ASSUME SendsInv, NEW k \in 1 .. Len(pickerSends), ServeSend(k)
  PROVE  SendsSee' /\ (AllAlone' => LastAlone' /\ AloneSends')
<1>1. /\ Len(pickerSends') = Len(pickerSends)
      /\ pickerSends[k].at = "posted" /\ pickerSends'[k].at = "finished"
      /\ pickerSends'[k].used \in {row.model, pickerSends[k].body}
      /\ pickerSends'[k].seen = pickerSends[k].seen
      /\ \A j \in 1 .. Len(pickerSends) : j # k => pickerSends'[j] = pickerSends[j]
  BY ServeSendDoes DEF SendsInv, PickerInv
<1>2. UNCHANGED <<cachedRow, picker, picks, murky>>
  BY DEF ServeSend
<1>3. SendsSee'
  BY <1>1, <1>2 DEF SendsInv, SendsSee
<1>4. ASSUME AllAlone' PROVE LastAlone' /\ AloneSends'
  <2>1. LastAlone /\ AloneSends
    BY <1>2, <1>4 DEF SendsInv, AllAlone
  <2>2. LastAlone' /\ row'.model = row.model
    BY <2>1, RowReadAlone DEF SendsInv
  <2>3. ASSUME NEW j \in 1 .. Len(pickerSends) PROVE AloneSend(j)'
    <3>1. CASE j = k
      <4>1. row.model \in pickerSends[k].seen /\ pickerSends[k].body \in pickerSends[k].seen
        BY <1>1, <2>1 DEF AloneSends, AloneSend, WaitsForLast, SendsInv, SendsSee
      <4> QED
        BY <1>1, <3>1, <4>1 DEF AloneSend
    <3>2. CASE j # k
      <4>1. AloneSend(j) /\ pickerSends'[j] = pickerSends[j]
        BY <1>1, <2>1, <3>2 DEF AloneSends
      <4> QED
        BY <1>2, <2>2, <4>1 DEF AloneSend, WaitsForLast
    <3> QED
      BY <3>1, <3>2
  <2> QED
    BY <1>1, <2>2, <2>3 DEF AloneSends
<1> QED
  BY <1>3, <1>4

LEMMA SendsInitially ==
  ASSUME OverridePickerInit
  PROVE  SendsInv
<1>1. /\ row \in [has: BOOLEAN, model: {Inherit}] /\ cachedRow = row /\ rowFetch.at = "idle"
      /\ picker = [seed |-> Inherit, value |-> Inherit, latest |-> Inherit, draft |-> Inherit]
      /\ Len(picks) = 0 /\ Len(pickerSends) = 0
  BY DEF OverridePickerInit
<1>2. Unanswered(picks) = {} /\ row.model = Inherit
  BY <1>1 DEF Unanswered
<1>3. ShowsWanted(row) /\ ShowsWanted(RowMade)
  BY <1>1, <1>2 DEF ShowsWanted, Wanted, RowMade, Shown, Seeded
<1>4. LastAlone
  BY <1>1, <1>2, <1>3 DEF LastAlone
<1>5. SendsSee /\ AloneSends
  BY <1>1 DEF SendsSee, AloneSends
<1> QED
  BY <1>4, <1>5, PickerInitially DEF SendsInv

LEMMA SendsStay ==
  ASSUME SendsInv, [OverridePickerNext]_pickerVars
  PROVE  SendsInv'
<1>1. PickerInv'
  BY PickerStays DEF SendsInv
<1>2. ASSUME OverridePickerNext PROVE SendsSee' /\ (AllAlone' => LastAlone' /\ AloneSends')
  BY <1>2, ChoiceSends, ReadSends, PressSends, PostSends, ServeSends DEF OverridePickerNext
<1>3. ASSUME UNCHANGED pickerVars PROVE SendsSee' /\ (AllAlone' => LastAlone' /\ AloneSends')
  BY <1>3 DEF pickerVars, SendsInv, SendsSee, AllAlone, LastAlone, ShowsWanted, Wanted, RowMade,
              AloneSends, AloneSend, WaitsForLast
<1> QED
  BY <1>1, <1>2, <1>3 DEF SendsInv

(* The turn a send starts uses a model shown since it was pressed          *)
(* (beforeSend): a send that started over an unanswered choice waits for   *)
(* it, and any other has seen the stored model.                            *)
THEOREM SendsUseShown == OverridePickerSpec => []SendUsesShownModel
<1>1. SendsInv => SendUsesShownModel
  BY DEF SendsInv, AllAlone, AloneSends, AloneSend, SendUsesShownModel
<1> QED
  BY <1>1, SendsInitially, SendsStay, PTL DEF OverridePickerSpec

-----------------------------------------------------------------------------
(* The types of the picker, its writes and its sends. *)
PickerState == [seed: PickerChoices, value: PickerChoices, latest: PickerChoices, draft: PickerChoices]
PickerTypesInv == OverridePickerTypeOK /\ Len(picks) \in Nat /\ Len(picks) <= MaxPicks

LEMMA ShownTyped ==
  ASSUME NEW d \in StoredRow, NEW p \in PickerState
  PROVE  Shown(d, p) \in PickerChoices /\ Seeded(d, p) \in PickerChoices
BY DEF Shown, Seeded, StoredRow, PickerState

LEMMA RedrawsTyped ==
  ASSUME NEW d \in StoredRow, NEW p \in PickerState, NEW sends \in Seq(PickerSend), Redraws(d, p, sends)
  PROVE  cachedRow' \in StoredRow /\ picker' \in PickerState /\ pickerSends' \in Seq(PickerSend)
<1> DEFINE shown == Shown(d, p)
           new(k) == IF sends[k].at = "finished" THEN sends[k] ELSE [sends[k] EXCEPT !.seen = @ \cup {shown}]
<1>1. shown \in PickerChoices
  BY ShownTyped
<1>2. pickerSends' = [k \in 1 .. Len(sends) |-> new(k)]
  BY DEF Redraws
<1> HIDE DEF shown
<1>3. ASSUME NEW k \in 1 .. Len(sends) PROVE new(k) \in PickerSend
  <2>1. sends[k] \in PickerSend
    OBVIOUS
  <2>2. [sends[k] EXCEPT !.seen = sends[k].seen \cup {shown}] \in PickerSend
    BY <1>1, <2>1 DEF PickerSend
  <2> QED
    BY <2>1, <2>2
<1> HIDE DEF new
<1>4. pickerSends' \in [1 .. Len(sends) -> PickerSend] /\ Len(sends) \in Nat
  BY <1>2, <1>3, LenProperties
<1>5. pickerSends' \in Seq(PickerSend)
  BY <1>4, IsASeq
<1> QED
  BY <1>5 DEF Redraws

LEMMA LatestPickTyped ==
  ASSUME PickerTypesInv
  PROVE  LatestPick \in 0 .. MaxPicks
<1> DEFINE own == {i \in 1 .. Len(picks) : ~picks[i].dialog}
<1>1. MaxPicks \in Nat /\ own \in SUBSET Nat /\ \A i \in own : i <= MaxPicks
  BY OverridePickerAssumption DEF PickerTypesInv
<1>2. LatestPick = IF own = {} THEN 0 ELSE CHOOSE i \in own : \A j \in own : j <= i
  BY DEF LatestPick
<1> HIDE DEF own
<1>3. CASE own = {}
  BY <1>1, <1>2, <1>3
<1>4. CASE own # {}
  <2>1. \E i \in own : \A j \in own : j <= i
    BY <1>1, <1>4, LargestIs
  <2>2. LatestPick \in own
    BY <1>2, <1>4, <2>1
  <2> QED
    BY <1>1, <2>2
<1> QED
  BY <1>3, <1>4

LEMMA PickWritten ==
  ASSUME PickerTypesInv, NEW i \in 1 .. Len(picks), NEW at \in {"sent", "stored", "done", "failed"},
         picks' = [picks EXCEPT ![i].at = at]
  PROVE  picks' \in Seq(PickWrite) /\ Len(picks') = Len(picks) /\ picks[i] \in PickWrite
<1>1. picks[i] \in PickWrite /\ picks \in Seq(PickWrite)
  BY DEF PickerTypesInv, OverridePickerTypeOK
<1>2. [picks[i] EXCEPT !.at = at] \in PickWrite
  BY <1>1 DEF PickWrite
<1> QED
  BY <1>1, <1>2

LEMMA PickerParts ==
  ASSUME PickerTypesInv
  PROVE  /\ row \in StoredRow /\ cachedRow \in StoredRow /\ rowFetch.answer \in StoredRow
         /\ picker \in PickerState /\ picks \in Seq(PickWrite) /\ pickerSends \in Seq(PickerSend)
         /\ murky \in BOOLEAN /\ Inherit \in PickerChoices /\ NoRow \in StoredRow
BY DEF PickerTypesInv, OverridePickerTypeOK, PickerState, PickerChoices, NoRow, StoredRow

LEMMA ChoosingTyped ==
  ASSUME PickerTypesInv, NEW choice \in PickerChoices, PickModel(choice) \/ CreateAdvanced(choice)
  PROVE  PickerTypesInv'
<1>1. /\ row \in StoredRow /\ cachedRow \in StoredRow /\ rowFetch.answer \in StoredRow
      /\ picker \in PickerState /\ picks \in Seq(PickWrite) /\ pickerSends \in Seq(PickerSend)
      /\ murky \in BOOLEAN /\ Inherit \in PickerChoices
  BY PickerParts
<1>2. CASE PickModel(choice)
  <2> DEFINE seed == Seeded(cachedRow, picker)
             asDraft == ~cachedRow.has
             p == [seed |-> seed, value |-> choice, latest |-> choice,
                   draft |-> IF asDraft THEN choice ELSE picker.draft]
             w == [value |-> choice, previous |-> Shown(cachedRow, picker), seed |-> seed, asDraft |-> asDraft,
                   dialog |-> FALSE, at |-> "sent", alone |-> PickerQuiet]
  <2>1. /\ picks' = Append(picks, w) /\ Redraws(cachedRow, p, pickerSends) /\ Len(picks) < MaxPicks
        /\ UNCHANGED <<row, rowFetch, murky>>
    BY <1>2 DEF PickModel
  <2>2. seed \in PickerChoices /\ Shown(cachedRow, picker) \in PickerChoices
    BY <1>1, ShownTyped
  <2>3. w \in PickWrite
    BY <2>2 DEF PickWrite, PickerQuiet
  <2>4. p \in PickerState
    BY <1>1, <2>2 DEF PickerState
  <2> HIDE DEF w, p
  <2>5. cachedRow' \in StoredRow /\ picker' \in PickerState /\ pickerSends' \in Seq(PickerSend)
    BY <1>1, <2>1, <2>4, RedrawsTyped
  <2>6. picks' \in Seq(PickWrite) /\ Len(picks') = Len(picks) + 1
    BY <1>1, <2>1, <2>3, AppendProperties
  <2>7. Len(picks') \in Nat /\ Len(picks') <= MaxPicks
    BY <2>1, <2>6, OverridePickerAssumption DEF PickerTypesInv
  <2> QED
    BY <2>1, <2>5, <2>6, <2>7 DEF PickerTypesInv, OverridePickerTypeOK, PickerState
<1>3. CASE CreateAdvanced(choice)
  <2> DEFINE p == [picker EXCEPT !.draft = choice]
             w == [value |-> choice, previous |-> Inherit, seed |-> Inherit, asDraft |-> TRUE, dialog |-> TRUE,
                   at |-> "sent", alone |-> FALSE]
  <2>1. /\ picks' = <<w>> /\ Redraws(cachedRow, p, pickerSends) /\ MaxPicks > 0
        /\ UNCHANGED <<row, rowFetch, murky>>
    BY <1>3 DEF CreateAdvanced
  <2>2. w \in PickWrite /\ p \in PickerState
    BY <1>1 DEF PickWrite, PickerState
  <2> HIDE DEF w, p
  <2>3. cachedRow' \in StoredRow /\ picker' \in PickerState /\ pickerSends' \in Seq(PickerSend)
    BY <1>1, <2>1, <2>2, RedrawsTyped
  <2>4. picks' \in Seq(PickWrite) /\ Len(picks') = 1
    BY <2>1, <2>2
  <2>5. Len(picks') <= MaxPicks
    BY <2>1, <2>4, OverridePickerAssumption
  <2> QED
    BY <2>1, <2>3, <2>4, <2>5 DEF PickerTypesInv, OverridePickerTypeOK, PickerState
<1> QED
  BY <1>2, <1>3

LEMMA WritingTyped ==
  ASSUME PickerTypesInv, NEW i \in 1 .. Len(picks), StorePick(i) \/ PickSucceeds(i) \/ PickFails(i)
  PROVE  PickerTypesInv'
<1>1. /\ row \in StoredRow /\ cachedRow \in StoredRow /\ rowFetch.answer \in StoredRow
      /\ picker \in PickerState /\ picks \in Seq(PickWrite) /\ pickerSends \in Seq(PickerSend)
      /\ murky \in BOOLEAN /\ NoRow \in StoredRow
  BY PickerParts
<1>2. picks[i] \in PickWrite
  BY <1>1
<1>3. CASE StorePick(i)
  <2>1. picks' \in Seq(PickWrite) /\ Len(picks') = Len(picks)
    BY <1>3, PickWritten DEF StorePick
  <2>2. row' \in StoredRow /\ murky' \in BOOLEAN
    BY <1>1, <1>2, <1>3 DEF StorePick, StoredRow, PickWrite
  <2>3. UNCHANGED <<cachedRow, rowFetch, picker, pickerSends>>
    BY <1>3 DEF StorePick
  <2> QED
    BY <2>1, <2>2, <2>3 DEF PickerTypesInv, OverridePickerTypeOK
<1>4. CASE PickSucceeds(i)
  <2>1. picks' \in Seq(PickWrite) /\ Len(picks') = Len(picks)
    BY <1>4, PickWritten DEF PickSucceeds
  <2>2. rowFetch' = [at |-> "asked", answer |-> NoRow] /\ UNCHANGED <<row, cachedRow, picker, pickerSends, murky>>
    BY <1>4 DEF PickSucceeds, Refetches
  <2>3. rowFetch'.at \in {"idle", "asked", "answered"} /\ rowFetch'.answer \in StoredRow
    BY <1>1, <2>2
  <2> QED
    BY <2>1, <2>2, <2>3 DEF PickerTypesInv, OverridePickerTypeOK
<1>5. CASE PickFails(i)
  <2>1. picks' \in Seq(PickWrite) /\ Len(picks') = Len(picks)
    BY <1>5, PickWritten DEF PickFails
  <2>2. PickRolledBack(picks[i]) \in PickerState
    BY <1>1, <1>2 DEF PickRolledBack, PickWrite, PickerState
  <2>3. Redraws(cachedRow, PickRolledBack(picks[i]), pickerSends)
    BY <1>5 DEF PickFails
  <2>4. cachedRow' \in StoredRow /\ picker' \in PickerState /\ pickerSends' \in Seq(PickerSend)
    BY <1>1, <2>2, <2>3, RedrawsTyped
  <2>5. murky' = (murky \/ (picks[i].at = "stored" \/ Outrun(i))) /\ UNCHANGED <<row, rowFetch>>
    BY <1>5 DEF PickFails
  <2>6. murky' \in BOOLEAN
    BY <1>1, <2>5
  <2> QED
    BY <2>1, <2>4, <2>5, <2>6 DEF PickerTypesInv, OverridePickerTypeOK, PickerState
<1> QED
  BY <1>3, <1>4, <1>5

LEMMA SendingsTyped ==
  ASSUME PickerTypesInv, PressSend \/ \E k \in 1 .. Len(pickerSends) : PostSend(k) \/ ServeSend(k)
  PROVE  PickerTypesInv'
<1>1. /\ row \in StoredRow /\ cachedRow \in StoredRow /\ rowFetch.answer \in StoredRow
      /\ picker \in PickerState /\ picks \in Seq(PickWrite) /\ pickerSends \in Seq(PickerSend)
      /\ murky \in BOOLEAN /\ Inherit \in PickerChoices /\ NoRow \in StoredRow
  BY PickerParts
<1>2. CASE PressSend
  <2> DEFINE s == [at |-> "gated", gate |-> LatestPick, body |-> Inherit, used |-> Inherit, seen |-> {}]
  <2>1. Redraws(cachedRow, picker, Append(pickerSends, s)) /\ UNCHANGED <<row, rowFetch, picks, murky>>
    BY <1>2 DEF PressSend
  <2>2. s \in PickerSend
    BY <1>1, LatestPickTyped DEF PickerSend
  <2> HIDE DEF s
  <2>3. Append(pickerSends, s) \in Seq(PickerSend)
    BY <1>1, <2>2, AppendProperties
  <2>4. cachedRow' \in StoredRow /\ picker' \in PickerState /\ pickerSends' \in Seq(PickerSend)
    BY <1>1, <2>1, <2>3, RedrawsTyped
  <2> QED
    BY <2>1, <2>4 DEF PickerTypesInv, OverridePickerTypeOK, PickerState
<1>3. ASSUME NEW k \in 1 .. Len(pickerSends), PostSend(k) PROVE PickerTypesInv'
  <2> DEFINE s == pickerSends[k]
             shown == Shown(cachedRow, picker)
             posted == [[s EXCEPT !.at = "posted"] EXCEPT !.body = shown]
  <2>1. s \in PickerSend /\ shown \in PickerChoices
    BY <1>1, ShownTyped
  <2>2. pickerSends' = [pickerSends EXCEPT ![k] = posted] /\ UNCHANGED <<row, cachedRow, rowFetch, picker, picks, murky>>
    BY <1>1, <1>3 DEF PostSend
  <2> HIDE DEF s, shown
  <2>3. posted \in PickerSend
    BY <2>1 DEF PickerSend
  <2>4. pickerSends' \in Seq(PickerSend)
    BY <1>1, <2>2, <2>3
  <2> QED
    BY <2>2, <2>4 DEF PickerTypesInv, OverridePickerTypeOK
<1>4. ASSUME NEW k \in 1 .. Len(pickerSends), ServeSend(k) PROVE PickerTypesInv'
  <2> DEFINE s == pickerSends[k]
             used == IF row.has /\ row.model # Inherit THEN row.model ELSE s.body
             served == [[s EXCEPT !.at = "finished"] EXCEPT !.used = used]
  <2>1. s \in PickerSend
    BY <1>1
  <2>2. used \in PickerChoices /\ row' \in StoredRow
    BY <1>1, <1>4, <2>1 DEF StoredRow, PickerSend, ServeSend
  <2>3. /\ pickerSends' = [pickerSends EXCEPT ![k] = served] /\ UNCHANGED <<cachedRow, picker, picks, murky>>
        /\ rowFetch' = [at |-> "asked", answer |-> NoRow]
    BY <1>1, <1>4 DEF ServeSend, Refetches
  <2> HIDE DEF s, used
  <2>4. served \in PickerSend
    BY <2>1, <2>2 DEF PickerSend
  <2>5. pickerSends' \in Seq(PickerSend)
    BY <1>1, <2>3, <2>4
  <2>6. rowFetch'.at \in {"idle", "asked", "answered"} /\ rowFetch'.answer \in StoredRow
    BY <1>1, <2>3
  <2> QED
    BY <2>2, <2>3, <2>5, <2>6 DEF PickerTypesInv, OverridePickerTypeOK
<1> QED
  BY <1>2, <1>3, <1>4

LEMMA ReadingTyped ==
  ASSUME PickerTypesInv, AnswerRow \/ LoadRow PROVE PickerTypesInv'
<1>1. /\ row \in StoredRow /\ cachedRow \in StoredRow /\ rowFetch.answer \in StoredRow
      /\ picker \in PickerState /\ pickerSends \in Seq(PickerSend) /\ NoRow \in StoredRow
  BY PickerParts
<1>2. CASE AnswerRow
  <2>1. rowFetch' = [at |-> "answered", answer |-> row] /\ UNCHANGED <<row, cachedRow, picker, picks, pickerSends, murky>>
    BY <1>2 DEF AnswerRow
  <2>2. rowFetch'.at \in {"idle", "asked", "answered"} /\ rowFetch'.answer \in StoredRow
    BY <1>1, <2>1
  <2> QED
    BY <2>1, <2>2 DEF PickerTypesInv, OverridePickerTypeOK
<1>3. CASE LoadRow
  <2>1. /\ Redraws(rowFetch.answer, picker, pickerSends) /\ rowFetch' = [at |-> "idle", answer |-> NoRow]
        /\ UNCHANGED <<row, picks, murky>>
    BY <1>3 DEF LoadRow
  <2>2. cachedRow' \in StoredRow /\ picker' \in PickerState /\ pickerSends' \in Seq(PickerSend)
    BY <1>1, <2>1, RedrawsTyped
  <2>3. rowFetch'.at \in {"idle", "asked", "answered"} /\ rowFetch'.answer \in StoredRow
    BY <1>1, <2>1
  <2> QED
    BY <2>1, <2>2, <2>3 DEF PickerTypesInv, OverridePickerTypeOK, PickerState
<1> QED
  BY <1>2, <1>3

(* The picker, its writes and its sends have their types, for any models:  *)
(* what a send waits for is a write there is, or none.                     *)
THEOREM OverridePickerTypes == OverridePickerSpec => []OverridePickerTypeOK
<1>1. OverridePickerInit => PickerTypesInv
  <2> SUFFICES ASSUME OverridePickerInit PROVE PickerTypesInv
    OBVIOUS
  <2>1. Inherit \in PickerChoices /\ NoRow \in StoredRow
    BY DEF PickerChoices, NoRow, StoredRow
  <2>2. /\ row \in [has: BOOLEAN, model: {Inherit}] /\ cachedRow = row
        /\ rowFetch = [at |-> "idle", answer |-> NoRow]
        /\ picker = [seed |-> Inherit, value |-> Inherit, latest |-> Inherit, draft |-> Inherit]
        /\ picks = <<>> /\ pickerSends = <<>> /\ murky = FALSE
    BY DEF OverridePickerInit
  <2>3. row \in StoredRow /\ cachedRow \in StoredRow
    BY <2>1, <2>2 DEF StoredRow
  <2>4. rowFetch.at = "idle" /\ rowFetch.answer \in StoredRow
    BY <2>1, <2>2
  <2>5. picker \in PickerState
    BY <2>1, <2>2 DEF PickerState
  <2>6. picks \in Seq(PickWrite) /\ Len(picks) = 0 /\ pickerSends \in Seq(PickerSend)
    BY <2>2
  <2>7. /\ {row, cachedRow, rowFetch.answer} \subseteq StoredRow /\ rowFetch.at \in {"idle", "asked", "answered"}
        /\ murky \in BOOLEAN
    BY <2>2, <2>3, <2>4
  <2>8. OverridePickerTypeOK
    BY <2>5, <2>6, <2>7 DEF OverridePickerTypeOK, PickerState
  <2> QED
    BY <2>6, <2>8, OverridePickerAssumption DEF PickerTypesInv
<1>2. PickerTypesInv /\ [OverridePickerNext]_pickerVars => PickerTypesInv'
  <2> SUFFICES ASSUME PickerTypesInv, [OverridePickerNext]_pickerVars PROVE PickerTypesInv'
    OBVIOUS
  <2>1. CASE UNCHANGED pickerVars
    BY <2>1 DEF pickerVars, PickerTypesInv, OverridePickerTypeOK
  <2>2. CASE OverridePickerNext
    BY <2>2, ChoosingTyped, WritingTyped, SendingsTyped, ReadingTyped DEF OverridePickerNext
  <2> QED
    BY <2>1, <2>2
<1>3. PickerTypesInv => OverridePickerTypeOK
  BY DEF PickerTypesInv
<1> QED
  BY <1>1, <1>2, <1>3, PTL DEF OverridePickerSpec
=============================================================================

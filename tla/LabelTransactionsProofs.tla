---------------------- MODULE LabelTransactionsProofs -----------------------
(***************************************************************************)
(* What the label tables guarantee for any number of requests, films and   *)
(* labels.  In every interleaving: types, one label per name, and no link  *)
(* without its two ends.  While requests do not overlap, or overlap only   *)
(* in creating films: no label without a film, no film without a label,    *)
(* and an edit leaves exactly the labels of its payload.                   *)
(*                                                                         *)
(* The uniqueness of the names rests on the unique index and on the order  *)
(* of the statements in a transaction: one that looks a label up has not   *)
(* deleted any yet.  The ends of the links rest on the key-share locks: a  *)
(* link is inserted by a transaction that both ends outlive, and whoever   *)
(* deletes an end deletes the link with it.                                *)
(*                                                                         *)
(* The last three rest on what a request sees of its own transaction: at   *)
(* its commit that is what becomes the committed state.  SerialView says   *)
(* how far each statement is from a state in which every label is carried, *)
(* every film labelled and the payload assigned.  Requests beside it only  *)
(* create films: they delete nothing, and link no film but their own.      *)
(***************************************************************************)
EXTENDS LabelTransactions, TLAPS

\* A label row that is deleted but not yet committed is so by a sweep.
CutByReaper ==
    \A l \in LabelIds :
        labels[l] # NoRow /\ labels[l].cut # None
            => req[labels[l].cut].pc \in {"reap", "save", "commit"}

\* An end is there as long as the link, in the eyes of the link's own transaction, and is
\* deleted only together with the link.
EndHolds(link, end) ==
    /\ end # NoRow
    /\ end.by \in {None, link.by}
    /\ end.cut # None => link.cut = end.cut

LinkEndsHold ==
    \A f \in Films, l \in LabelIds :
        links[<<f, l>>] # NoRow => /\ EndHolds(links[<<f, l>>], films[f])
                                   /\ EndHolds(links[<<f, l>>], labels[l])

-----------------------------------------------------------------------------
(* Rows *)

LEMMA RowsTyped ==
  ASSUME NEW r \in Requests, NEW row \in Row \cup {NoRow}
  PROVE  /\ Cut(r, row) \in Row \cup {NoRow}
         /\ RowCommitted(r, row) \in Row \cup {NoRow}
         /\ RowRolledBack(r, row) \in Row \cup {NoRow}
  BY RowAssumption DEF Cut, RowCommitted, RowRolledBack, Row, Txn

LEMMA LabelRowsTyped ==
  ASSUME NEW r \in Requests, NEW row \in LabelRow \cup {NoRow}
  PROVE  /\ Cut(r, row) \in LabelRow \cup {NoRow}
         /\ RowCommitted(r, row) \in LabelRow \cup {NoRow}
         /\ RowRolledBack(r, row) \in LabelRow \cup {NoRow}
  BY RowAssumption DEF Cut, RowCommitted, RowRolledBack, LabelRow, Txn

\* Deleting, committing and rolling back leave the name of a row, and who may have cut it.
LEMMA NamesStay ==
  ASSUME NEW r \in Requests, NEW row \in LabelRow \cup {NoRow},
         NEW op \in {Cut(r, row), RowCommitted(r, row), RowRolledBack(r, row)}, op # NoRow
  PROVE  row # NoRow /\ op.name = row.name
  BY RowAssumption DEF Cut, RowCommitted, RowRolledBack, LabelRow, Txn

LEMMA CutsStay ==
  ASSUME NEW r \in Requests, NEW row \in LabelRow \cup {NoRow}
  PROVE  /\ Cut(r, row) # NoRow => Cut(r, row).cut = r
         /\ RowCommitted(r, row) # NoRow
              => RowCommitted(r, row).cut = row.cut /\ row.cut # r
         /\ RowRolledBack(r, row) # NoRow
              => RowRolledBack(r, row).cut = IF row.cut = r THEN None ELSE row.cut
  BY RowAssumption DEF Cut, RowCommitted, RowRolledBack, LabelRow, Txn

-----------------------------------------------------------------------------
(* Types *)

LEMMA IdleTyped == Idle \in Request
  BY DEF Idle, Request, Pc

LEMMA FinishTyped ==
  ASSUME TypeOK, NEW r \in Requests, Finish(r)
  PROVE  req' \in [Requests -> Request]
  BY IdleTyped DEF TypeOK, Finish

LEMMA GotoTyped ==
  ASSUME TypeOK, NEW r \in Requests, NEW pc \in Pc, Goto(r, pc)
  PROVE  req' \in [Requests -> Request]
<1>1. req \in [Requests -> Request] /\ req[r] \in Request BY DEF TypeOK
<1>2. [req[r] EXCEPT !.pc = pc] \in Request BY <1>1 DEF Request
<1>3. req' = [req EXCEPT ![r] = [req[r] EXCEPT !.pc = pc]] BY DEF Goto
<1> QED BY <1>1, <1>2, <1>3

\* A step of any request keeps the types.
LEMMA TypeStep ==
  ASSUME TypeOK, [Next]_vars
  PROVE  TypeOK'
<1> SUFFICES ASSUME Next PROVE TypeOK'
  BY DEF TypeOK, vars
<1>1. crossed' \in BOOLEAN
  BY DEF Next, TypeOK
<1> SUFFICES ASSUME NEW r \in Requests, Begin(r) \/ Serve(r)
             PROVE  /\ films' \in [Films -> Row \cup {NoRow}]
                    /\ labels' \in [LabelIds -> LabelRow \cup {NoRow}]
                    /\ links' \in [Films \X LabelIds -> Row \cup {NoRow}]
                    /\ req' \in [Requests -> Request]
  BY <1>1 DEF Next, TypeOK
<1> USE DEF TypeOK
<1>2. CASE Begin(r)
  <2>1. PICK f \in Films, W \in (SUBSET Names) \ {{}} :
          \/ req' = [req EXCEPT ![r] = [Idle EXCEPT !.pc = "create", !.film = f,
                                                    !.wish = W, !.todo = W]]
          \/ req' = [req EXCEPT ![r] = [Idle EXCEPT !.pc = "list", !.film = f,
                                                    !.wish = W, !.todo = W]]
          \/ req' = [req EXCEPT ![r] = [Idle EXCEPT !.pc = "delete_find", !.film = f]]
    BY <1>2 DEF Begin
  <2>2. /\ [Idle EXCEPT !.pc = "create", !.film = f, !.wish = W, !.todo = W] \in Request
        /\ [Idle EXCEPT !.pc = "list", !.film = f, !.wish = W, !.todo = W] \in Request
        /\ [Idle EXCEPT !.pc = "delete_find", !.film = f] \in Request
    BY DEF Idle, Request, Pc
  <2> QED BY <1>2, <2>1, <2>2 DEF Begin
<1>3. CASE CreateFilm(r)
  <2>1. [by |-> r, cut |-> None] \in Row
    BY DEF Row, Txn
  <2>2. req' \in [Requests -> Request]
    BY <1>3, GotoTyped DEF CreateFilm, Pc
  <2> QED BY <1>3, <2>1, <2>2 DEF CreateFilm
<1>4. CASE ListForFilm(r)
  <2>1. [req[r] EXCEPT !.pc = "unlink", !.doomed = Unwanted(r, req[r].film)] \in Request
    BY DEF Request, Pc, Unwanted, LinksSeen, LabelsSeen
  <2> QED BY <1>4, <2>1, IdleTyped DEF ListForFilm
<1>5. CASE UnlinkFilm(r)
  <2> DEFINE f == req[r].film
             own == req[r].doomed
  <2>1. CASE Goto(r, "assign") /\ UNCHANGED links
    BY <1>5, <2>1, GotoTyped DEF UnlinkFilm, Pc
  <2>2. ASSUME NEW l \in own,
               req' = [req EXCEPT ![r].doomed = @ \ {l}],
               links' \in {links, [links EXCEPT ![<<f, l>>] = Cut(r, @)]}
        PROVE  /\ req' \in [Requests -> Request]
               /\ links' \in [Films \X LabelIds -> Row \cup {NoRow}]
    <3>1. [req[r] EXCEPT !.doomed = @ \ {l}] \in Request
      BY DEF Request
    <3>2. \A fl \in Films \X LabelIds : Cut(r, links[fl]) \in Row \cup {NoRow}
      BY RowsTyped
    <3> QED BY <2>2, <3>1, <3>2
  <2> QED BY <1>5, <2>1, <2>2 DEF UnlinkFilm
<1>6. CASE GetOrCreate(r)
  <2>1. ASSUME NEW n \in Names, NEW l \in LabelIds
        PROVE  /\ [req[r] EXCEPT !.pc = "link", !.picked = l, !.todo = @ \ {n}] \in Request
               /\ [name |-> n, by |-> r, cut |-> None] \in LabelRow
    BY DEF Request, Pc, LabelRow, Txn
  <2>2. req[r].todo \subseteq Names /\ LabelsSeen(r) \subseteq LabelIds
    BY DEF Request, LabelsSeen
  <2>3. PICK n \in req[r].todo, l \in LabelIds :
          /\ req' = [req EXCEPT ![r].pc = "link", ![r].picked = l, ![r].todo = @ \ {n}]
          /\ \/ UNCHANGED labels
             \/ labels' = [labels EXCEPT ![l] = [name |-> n, by |-> r, cut |-> None]]
    BY <1>6, <2>2 DEF GetOrCreate
  <2>4. UNCHANGED <<films, links>>
    BY <1>6 DEF GetOrCreate
  <2>5. n \in Names
    BY <2>2
  <2>6. req' \in [Requests -> Request]
    BY <2>1, <2>3, <2>5
  <2>7. labels' \in [LabelIds -> LabelRow \cup {NoRow}]
    BY <2>1, <2>3, <2>5
  <2> QED BY <2>4, <2>6, <2>7
<1>7. CASE LinkFilm(r)
  <2>1. [req[r] EXCEPT !.pc = "assign", !.picked = NoLabel] \in Request
    BY DEF Request, Pc
  <2>2. [by |-> r, cut |-> None] \in Row
    BY DEF Row, Txn
  <2> QED BY <1>7, <2>1, <2>2 DEF LinkFilm
<1>8. CASE AllAssigned(r)
  BY <1>8, GotoTyped DEF AllAssigned, Pc
<1>9. CASE Sweep(r)
  <2>1. [req[r] EXCEPT !.pc = "reap", !.doomed = Orphans(r)] \in Request
    BY DEF Request, Pc, Orphans, LabelsSeen
  <2> QED BY <1>9, <2>1 DEF Sweep
<1>10. CASE Reap(r)
  <2> DEFINE own == req[r].doomed
  <2>1. CASE Goto(r, "save") /\ UNCHANGED <<labels, links>>
    BY <1>10, <2>1, GotoTyped DEF Reap, Pc
  <2>2. ASSUME NEW l \in own,
               labels' = [labels EXCEPT ![l] = Cut(r, @)],
               links' = [fl \in Films \X LabelIds |->
                           IF fl[2] = l THEN Cut(r, links[fl]) ELSE links[fl]],
               req' = [req EXCEPT ![r].doomed = @ \ {l}]
        PROVE  /\ req' \in [Requests -> Request]
               /\ labels' \in [LabelIds -> LabelRow \cup {NoRow}]
               /\ links' \in [Films \X LabelIds -> Row \cup {NoRow}]
    <3>1. [req[r] EXCEPT !.doomed = @ \ {l}] \in Request
      BY DEF Request
    <3>2. \A fl \in Films \X LabelIds : Cut(r, links[fl]) \in Row \cup {NoRow}
      BY RowsTyped
    <3>3. l \in LabelIds
      BY DEF Request
    <3>4. Cut(r, labels[l]) \in LabelRow \cup {NoRow}
      BY <3>3, LabelRowsTyped
    <3> QED BY <2>2, <3>1, <3>2, <3>3, <3>4
  <2> QED BY <1>10, <2>1, <2>2 DEF Reap
<1>11. CASE Save(r)
  BY <1>11, GotoTyped DEF Save, Pc
<1>12. CASE FindFilm(r)
  BY <1>12, GotoTyped, FinishTyped DEF FindFilm, Pc
<1>13. CASE DeleteFilm(r)
  <2>1. req' \in [Requests -> Request]
    BY <1>13, GotoTyped DEF DeleteFilm, Pc
  <2>2. \A fl \in Films \X LabelIds : Cut(r, links[fl]) \in Row \cup {NoRow}
    BY RowsTyped
  <2>3. \A f \in Films : Cut(r, films[f]) \in Row \cup {NoRow}
    BY RowsTyped
  <2> QED BY <1>13, <2>1, <2>2, <2>3 DEF DeleteFilm
<1>14. CASE Commit(r)
  BY <1>14, FinishTyped, RowsTyped, LabelRowsTyped DEF Commit
<1>15. CASE Abort(r)
  BY <1>15, FinishTyped, RowsTyped, LabelRowsTyped DEF Abort
<1> QED
  BY <1>2, <1>3, <1>4, <1>5, <1>6, <1>7, <1>8, <1>9, <1>10, <1>11, <1>12, <1>13, <1>14, <1>15
  DEF Serve

\* The tables and the handlers' locals have their types, whatever runs beside what.
THEOREM LabelsTyped == Spec => []TypeOK
<1>1. Init => TypeOK
  BY IdleTyped DEF Init, TypeOK
<1>2. TypeOK /\ [Next]_vars => TypeOK'
  BY TypeStep
<1> QED BY <1>1, <1>2, PTL DEF Spec

-----------------------------------------------------------------------------
(* One label per name *)

NamesInv == TypeOK /\ CutByReaper /\ LabelNamesUnique

\* A step that leaves the label rows alone, and whose request had none cut or goes on
\* reaping, keeps the invariant.
LEMMA LabelsUntouched ==
  ASSUME NamesInv, NEW r \in Requests, UNCHANGED labels,
         \A s \in Requests \ {r} : req'[s].pc = req[s].pc,
         req[r].pc \in {"reap", "save", "commit"} => req'[r].pc \in {"reap", "save", "commit"}
  PROVE  CutByReaper' /\ LabelNamesUnique'
<1>1. \A l \in LabelIds : labels[l] # NoRow /\ labels[l].cut # None => labels[l].cut \in Requests
  BY DEF NamesInv, TypeOK, LabelRow, Txn
<1> QED BY <1>1 DEF NamesInv, CutByReaper, LabelNamesUnique

\* The invariant of the names is inductive.
LEMMA NamesStep ==
  ASSUME NamesInv, [Next]_vars
  PROVE  NamesInv'
<1>1. TypeOK'
  BY TypeStep DEF NamesInv
<1> SUFFICES CutByReaper' /\ LabelNamesUnique'
  BY <1>1 DEF NamesInv
<1>2. CASE UNCHANGED vars
  BY <1>2 DEF NamesInv, CutByReaper, LabelNamesUnique, vars
<1> SUFFICES ASSUME NEW r \in Requests, Begin(r) \/ Serve(r)
             PROVE  CutByReaper' /\ LabelNamesUnique'
  BY <1>2 DEF Next
<1> DEFINE reaping == {"reap", "save", "commit"}
<1>3. \A l \in LabelIds : labels[l] # NoRow /\ labels[l].cut # None => labels[l].cut \in Requests
  BY DEF NamesInv, TypeOK, LabelRow, Txn
<1>4. req \in [Requests -> Request] /\ labels \in [LabelIds -> LabelRow \cup {NoRow}]
  BY DEF NamesInv, TypeOK
<1>5. CASE Begin(r)
  BY <1>4, <1>5, LabelsUntouched DEF Begin, Request
<1>6. CASE CreateFilm(r)
  BY <1>4, <1>6, LabelsUntouched DEF CreateFilm, Goto
<1>7. CASE ListForFilm(r)
  BY <1>4, <1>7, LabelsUntouched DEF ListForFilm
<1>8. CASE UnlinkFilm(r)
  <2>1. /\ UNCHANGED labels
        /\ req[r].pc = "unlink"
        /\ \A s \in Requests \ {r} : req'[s] = req[s]
    BY <1>4, <1>8 DEF UnlinkFilm, Goto
  <2> QED BY <2>1, LabelsUntouched
<1>9. CASE GetOrCreate(r)
  <2>1. req[r].pc = "assign"
    BY <1>9 DEF GetOrCreate
  <2>2. \A s \in Requests \ {r} : req'[s] = req[s]
    BY <1>4, <1>9 DEF GetOrCreate
  <2>3. CASE UNCHANGED labels
    BY <2>1, <2>2, <2>3, LabelsUntouched
  <2>4. ASSUME NEW n \in req[r].todo, NEW l \in LabelIds, NameFree(r, n), labels[l] = NoRow,
               {m \in LabelsSeen(r) : labels[m].name = n} = {},
               labels' = [labels EXCEPT ![l] = [name |-> n, by |-> r, cut |-> None]]
        PROVE  CutByReaper' /\ LabelNamesUnique'
    <3>1. \A m \in LabelIds : labels[m] # NoRow => labels[m].name # n
      <4> SUFFICES ASSUME NEW m \in LabelIds, labels[m] # NoRow, labels[m].name = n
                   PROVE  FALSE
        OBVIOUS
      <4>1. labels[m].cut # r
        BY <1>3, <2>1, RowAssumption DEF NamesInv, CutByReaper
      <4>2. ~Sees(r, labels[m])
        BY <2>4 DEF LabelsSeen
      <4>3. InsertedByOther(r, labels[m])
        BY <4>1, <4>2 DEF Sees, InsertedByOther
      <4> QED BY <2>4, <4>3 DEF NameFree
    <3>2. LabelNamesUnique'
      BY <1>4, <2>4, <3>1 DEF NamesInv, LabelNamesUnique
    <3>3. CutByReaper'
      BY <1>3, <1>4, <2>1, <2>2, <2>4 DEF NamesInv, CutByReaper
    <3> QED BY <3>2, <3>3
  <2> QED BY <1>9, <2>3, <2>4 DEF GetOrCreate
<1>10. CASE LinkFilm(r)
  BY <1>4, <1>10, LabelsUntouched DEF LinkFilm
<1>11. CASE AllAssigned(r)
  BY <1>4, <1>11, LabelsUntouched DEF AllAssigned, Goto
<1>12. CASE Sweep(r)
  BY <1>4, <1>12, LabelsUntouched DEF Sweep
<1>13. CASE Reap(r)
  <2>1. /\ req[r].pc = "reap"
        /\ req'[r].pc \in reaping
        /\ \A s \in Requests \ {r} : req'[s] = req[s]
    BY <1>4, <1>13 DEF Reap, Goto, Request
  <2>2. CASE UNCHANGED labels
    BY <2>1, <2>2, LabelsUntouched
  <2>3. ASSUME NEW l \in LabelIds, labels' = [labels EXCEPT ![l] = Cut(r, @)]
        PROVE  CutByReaper' /\ LabelNamesUnique'
    <3>1. labels'[l] # NoRow => /\ labels[l] # NoRow
                                /\ labels'[l].name = labels[l].name
                                /\ labels'[l].cut = r
      BY <1>4, <2>3, NamesStay, CutsStay
    <3>2. \A m \in LabelIds \ {l} : labels'[m] = labels[m]
      BY <1>4, <2>3
    <3>3. LabelNamesUnique'
      BY <3>1, <3>2 DEF NamesInv, LabelNamesUnique
    <3>4. CutByReaper'
      BY <1>3, <2>1, <3>1, <3>2 DEF NamesInv, CutByReaper
    <3> QED BY <3>3, <3>4
  <2>4. req[r].doomed \subseteq LabelIds
    BY <1>4 DEF Request
  <2> QED BY <1>13, <2>2, <2>3, <2>4 DEF Reap
<1>14. CASE Save(r)
  BY <1>4, <1>14, LabelsUntouched DEF Save, Goto, Request
<1>15. CASE FindFilm(r)
  BY <1>4, <1>15, LabelsUntouched DEF FindFilm, Goto, Finish
<1>16. CASE DeleteFilm(r)
  BY <1>4, <1>16, LabelsUntouched DEF DeleteFilm, Goto
<1>17. CASE Commit(r) \/ Abort(r)
  <2>1. \A s \in Requests \ {r} : req'[s] = req[s]
    BY <1>4, <1>17 DEF Commit, Abort, Finish
  <2>2. \A l \in LabelIds :
          labels'[l] \in {RowCommitted(r, labels[l]), RowRolledBack(r, labels[l])}
    BY <1>17 DEF Commit, Abort
  <2>3. \A l \in LabelIds : labels'[l] # NoRow =>
          /\ labels[l] # NoRow
          /\ labels'[l].name = labels[l].name
          /\ labels'[l].cut # None => labels'[l].cut = labels[l].cut /\ labels[l].cut # r
    BY <1>4, <2>2, NamesStay, CutsStay
  <2>4. LabelNamesUnique'
    BY <2>3 DEF NamesInv, LabelNamesUnique
  <2>5. CutByReaper'
    BY <1>3, <2>1, <2>3 DEF NamesInv, CutByReaper
  <2> QED BY <2>4, <2>5
<1> QED
  BY <1>5, <1>6, <1>7, <1>8, <1>9, <1>10, <1>11, <1>12, <1>13, <1>14, <1>15, <1>16, <1>17
  DEF Serve

\* FR-TAG-02: two transactions that create the same label at once leave one row of it, for
\* any number of them.
THEOREM NamesUnique == Spec => []LabelNamesUnique
<1>1. Init => NamesInv
  BY IdleTyped DEF Init, NamesInv, TypeOK, CutByReaper, LabelNamesUnique
<1>2. NamesInv /\ [Next]_vars => NamesInv'
  BY NamesStep
<1>3. NamesInv => LabelNamesUnique
  BY DEF NamesInv
<1> QED BY <1>1, <1>2, <1>3, PTL DEF Spec

-----------------------------------------------------------------------------
(* Both ends of every link *)

EndsInv == TypeOK /\ LinkEndsHold

\* A link that is inserted holds on to an end that its transaction sees.
LEMMA NewLinkHolds ==
  ASSUME NEW r \in Requests, NEW end \in Row \cup LabelRow \cup {NoRow},
         Sees(r, end), ~DeletedByOther(r, end)
  PROVE  EndHolds([by |-> r, cut |-> None], end)
  BY DEF Sees, DeletedByOther, EndHolds

\* A link is deleted once no other transaction has deleted it, its ends may stay ...
LEMMA CutLinkHolds ==
  ASSUME NEW r \in Requests, NEW link \in Row, NEW end \in Row \cup LabelRow \cup {NoRow},
         EndHolds(link, end), ~DeletedByOther(r, link), Cut(r, link) # NoRow
  PROVE  EndHolds(Cut(r, link), end)
  BY RowAssumption DEF Cut, DeletedByOther, EndHolds, Row, LabelRow, Txn

\* ... or go with it, when no other transaction has inserted it.
LEMMA CutEndHolds ==
  ASSUME NEW r \in Requests, NEW link \in Row, NEW end \in Row \cup LabelRow \cup {NoRow},
         EndHolds(link, end), ~DeletedByOther(r, link), ~InsertedByOther(r, link),
         Cut(r, link) # NoRow
  PROVE  EndHolds(Cut(r, link), Cut(r, end))
<1>1. link.by = None /\ end.by = None /\ end # NoRow
  BY RowAssumption DEF Cut, InsertedByOther, EndHolds, Row, Txn
<1>2. Cut(r, link).by = None /\ Cut(r, link).cut = r
  BY <1>1, RowAssumption DEF Cut, Row, Txn
<1>3. Cut(r, end) # NoRow /\ Cut(r, end).by = None /\ Cut(r, end).cut = r
  BY <1>1, RowAssumption DEF Cut, Row, LabelRow, Txn
<1> QED BY <1>2, <1>3 DEF EndHolds

\* A link that survives the end of a transaction keeps its ends.
LEMMA EndOfTransactionHolds ==
  ASSUME NEW r \in Requests, NEW link \in Row, NEW end \in Row \cup LabelRow \cup {NoRow},
         EndHolds(link, end)
  PROVE  /\ RowCommitted(r, link) # NoRow
              => EndHolds(RowCommitted(r, link), RowCommitted(r, end))
         /\ RowRolledBack(r, link) # NoRow
              => EndHolds(RowRolledBack(r, link), RowRolledBack(r, end))
<1>1. CASE end \in Row
  BY <1>1, RowAssumption DEF RowCommitted, RowRolledBack, EndHolds, Row, Txn
<1>2. CASE end \in LabelRow
  BY <1>2, RowAssumption DEF RowCommitted, RowRolledBack, EndHolds, Row, LabelRow, Txn
<1> QED BY <1>1, <1>2 DEF EndHolds

LEMMA EndsStep ==
  ASSUME EndsInv, [Next]_vars
  PROVE  EndsInv'
<1>1. TypeOK'
  BY TypeStep DEF EndsInv
<1> SUFFICES LinkEndsHold'
  BY <1>1 DEF EndsInv
<1>2. CASE UNCHANGED <<films, labels, links>>
  BY <1>2 DEF EndsInv, LinkEndsHold
<1> SUFFICES ASSUME NEW r \in Requests, Serve(r)
             PROVE  LinkEndsHold'
  BY <1>2 DEF Next, Begin, vars
<1>3. /\ films \in [Films -> Row \cup {NoRow}]
      /\ labels \in [LabelIds -> LabelRow \cup {NoRow}]
      /\ links \in [Films \X LabelIds -> Row \cup {NoRow}]
      /\ req \in [Requests -> Request]
  BY DEF EndsInv, TypeOK
<1>4. \A f \in Films, l \in LabelIds : links[<<f, l>>] # NoRow =>
        /\ links[<<f, l>>] \in Row
        /\ EndHolds(links[<<f, l>>], films[f])
        /\ EndHolds(links[<<f, l>>], labels[l])
  BY <1>3 DEF EndsInv, LinkEndsHold
<1>5. CASE CreateFilm(r)
  <2>1. /\ UNCHANGED <<labels, links>>
        /\ \A f \in Films : films[f] # NoRow => films'[f] = films[f]
    BY <1>3, <1>5 DEF CreateFilm
  <2>2. \A f \in Films, l \in LabelIds : links[<<f, l>>] # NoRow => films[f] # NoRow
    BY <1>4 DEF EndHolds
  <2> QED BY <1>4, <2>1, <2>2 DEF LinkEndsHold
<1>6. CASE GetOrCreate(r)
  <2>1. /\ UNCHANGED <<films, links>>
        /\ \A l \in LabelIds : labels[l] # NoRow => labels'[l] = labels[l]
    BY <1>3, <1>6 DEF GetOrCreate
  <2>2. \A f \in Films, l \in LabelIds : links[<<f, l>>] # NoRow => labels[l] # NoRow
    BY <1>4 DEF EndHolds
  <2> QED BY <1>4, <2>1, <2>2 DEF LinkEndsHold
<1>7. CASE UnlinkFilm(r)
  <2> DEFINE f == req[r].film
  <2>1. SUFFICES ASSUME NEW l \in LabelIds, ~DeletedByOther(r, links[<<f, l>>]),
                        links' = [links EXCEPT ![<<f, l>>] = Cut(r, @)], f \in Films
                 PROVE  LinkEndsHold'
    <3>1. UNCHANGED <<films, labels>> /\ req[r].doomed \subseteq LabelIds
      BY <1>3, <1>7 DEF UnlinkFilm, Request
    <3>2. CASE UNCHANGED links
      BY <1>2, <3>1, <3>2
    <3>3. CASE f \notin Films
      <4>1. \A l \in LabelIds : <<f, l>> \notin Films \X LabelIds
        BY <3>3
      <4>2. UNCHANGED links
        BY <1>3, <1>7, <3>1, <4>1 DEF UnlinkFilm
      <4> QED BY <1>2, <3>1, <4>2
    <3> QED BY <1>7, <2>1, <3>1, <3>2, <3>3 DEF UnlinkFilm
  <2>2. UNCHANGED <<films, labels>>
    BY <1>7 DEF UnlinkFilm
  <2>3. links[<<f, l>>] # NoRow /\ Cut(r, links[<<f, l>>]) # NoRow =>
          /\ EndHolds(Cut(r, links[<<f, l>>]), films[f])
          /\ EndHolds(Cut(r, links[<<f, l>>]), labels[l])
    BY <1>3, <1>4, <2>1, CutLinkHolds
  <2>4. links[<<f, l>>] = NoRow => Cut(r, links[<<f, l>>]) = NoRow
    BY DEF Cut
  <2>5. \A g \in Films, m \in LabelIds :
          links'[<<g, m>>] = IF g = f /\ m = l THEN Cut(r, links[<<g, m>>]) ELSE links[<<g, m>>]
    BY <1>3, <2>1
  <2> QED BY <1>4, <2>2, <2>3, <2>4, <2>5 DEF LinkEndsHold
<1>8. CASE LinkFilm(r)
  <2> DEFINE f == req[r].film
             l == req[r].picked
  <2>1. CASE UNCHANGED links
    BY <1>2, <1>8, <2>1 DEF LinkFilm
  <2>2. CASE /\ ReferenceHolds(r, f, l)
             /\ links' = [links EXCEPT ![<<f, l>>] = [by |-> r, cut |-> None]]
    <3>1. UNCHANGED <<films, labels>>
      BY <1>8 DEF LinkFilm
    <3>2. ASSUME NEW g \in Films, NEW m \in LabelIds, g = f, m = l
          PROVE  /\ EndHolds([by |-> r, cut |-> None], films[g])
                 /\ EndHolds([by |-> r, cut |-> None], labels[m])
      BY <1>3, <2>2, <3>2, NewLinkHolds DEF ReferenceHolds
    <3>3. \A g \in Films, m \in LabelIds :
            links'[<<g, m>>] = IF g = f /\ m = l THEN [by |-> r, cut |-> None]
                                                 ELSE links[<<g, m>>]
      BY <1>3, <2>2
    <3> QED BY <1>4, <3>1, <3>2, <3>3 DEF LinkEndsHold
  <2> QED BY <1>8, <2>1, <2>2 DEF LinkFilm
<1>9. CASE Reap(r)
  <2>1. CASE UNCHANGED <<labels, links>>
    BY <1>2, <1>9, <2>1 DEF Reap
  <2>2. ASSUME NEW l \in LabelIds, ~LabelShared(r, l),
               \A f \in Films : ~DeletedByOther(r, links[<<f, l>>]),
               labels' = [labels EXCEPT ![l] = Cut(r, @)],
               links' = [fl \in Films \X LabelIds |->
                           IF fl[2] = l THEN Cut(r, links[fl]) ELSE links[fl]]
        PROVE  LinkEndsHold'
    <3>1. UNCHANGED films
      BY <1>9 DEF Reap
    <3>2. ASSUME NEW f \in Films, links'[<<f, l>>] # NoRow
          PROVE  EndHolds(links'[<<f, l>>], films[f]) /\ EndHolds(links'[<<f, l>>], labels'[l])
      <4>1. links'[<<f, l>>] = Cut(r, links[<<f, l>>]) /\ labels'[l] = Cut(r, labels[l])
        BY <1>3, <2>2
      <4>2. links[<<f, l>>] # NoRow
        BY <3>2, <4>1 DEF Cut
      <4>3. ~InsertedByOther(r, links[<<f, l>>])
        BY <2>2 DEF LabelShared
      <4> QED BY <1>3, <1>4, <2>2, <3>2, <4>1, <4>2, <4>3, CutLinkHolds, CutEndHolds
    <3>3. \A f \in Films, m \in LabelIds \ {l} :
            links'[<<f, m>>] = links[<<f, m>>] /\ labels'[m] = labels[m]
      BY <1>3, <2>2
    <3> QED BY <1>4, <3>1, <3>2, <3>3 DEF LinkEndsHold
  <2>3. req[r].doomed \subseteq LabelIds
    BY <1>3 DEF Request
  <2> QED BY <1>9, <2>1, <2>2, <2>3 DEF Reap
<1>10. CASE DeleteFilm(r)
  <2> DEFINE f == req[r].film
  <2>1. CASE UNCHANGED <<films, links>>
    BY <1>2, <1>10, <2>1 DEF DeleteFilm
  <2>2. CASE /\ films' = [films EXCEPT ![f] = Cut(r, @)]
             /\ links' = [fl \in Films \X LabelIds |->
                            IF fl[1] = f THEN Cut(r, links[fl]) ELSE links[fl]]
    <3>1. /\ UNCHANGED labels
          /\ ~FilmShared(r, f)
          /\ \A l \in LabelIds : ~DeletedByOther(r, links[<<f, l>>])
      BY <1>10 DEF DeleteFilm
    <3>2. ASSUME NEW l \in LabelIds, f \in Films, links'[<<f, l>>] # NoRow
          PROVE  EndHolds(links'[<<f, l>>], films'[f]) /\ EndHolds(links'[<<f, l>>], labels[l])
      <4>1. links'[<<f, l>>] = Cut(r, links[<<f, l>>]) /\ films'[f] = Cut(r, films[f])
        BY <1>3, <2>2, <3>2
      <4>2. links[<<f, l>>] # NoRow
        BY <3>2, <4>1 DEF Cut
      <4>3. ~InsertedByOther(r, links[<<f, l>>])
        BY <3>1 DEF FilmShared
      <4> QED BY <1>3, <1>4, <3>1, <3>2, <4>1, <4>2, <4>3, CutLinkHolds, CutEndHolds
    <3>3. \A g \in Films \ {f}, l \in LabelIds :
            links'[<<g, l>>] = links[<<g, l>>] /\ films'[g] = films[g]
      BY <1>3, <2>2
    <3> QED BY <1>4, <3>1, <3>2, <3>3 DEF LinkEndsHold
  <2> QED BY <1>10, <2>1, <2>2 DEF DeleteFilm
<1>11. CASE Commit(r)
  <2>1. \A f \in Films, l \in LabelIds :
          /\ links'[<<f, l>>] = RowCommitted(r, links[<<f, l>>])
          /\ films'[f] = RowCommitted(r, films[f])
          /\ labels'[l] = RowCommitted(r, labels[l])
    BY <1>11 DEF Commit
  <2>2. \A f \in Films, l \in LabelIds : links'[<<f, l>>] # NoRow => links[<<f, l>>] # NoRow
    BY <2>1 DEF RowCommitted
  <2> QED BY <1>3, <1>4, <2>1, <2>2, EndOfTransactionHolds DEF LinkEndsHold
<1>12. CASE Abort(r)
  <2>1. \A f \in Films, l \in LabelIds :
          /\ links'[<<f, l>>] = RowRolledBack(r, links[<<f, l>>])
          /\ films'[f] = RowRolledBack(r, films[f])
          /\ labels'[l] = RowRolledBack(r, labels[l])
    BY <1>12 DEF Abort
  <2>2. \A f \in Films, l \in LabelIds : links'[<<f, l>>] # NoRow => links[<<f, l>>] # NoRow
    BY <2>1 DEF RowRolledBack
  <2> QED BY <1>3, <1>4, <2>1, <2>2, EndOfTransactionHolds DEF LinkEndsHold
<1>13. CASE ListForFilm(r) \/ AllAssigned(r) \/ Sweep(r) \/ Save(r) \/ FindFilm(r)
  BY <1>2, <1>13 DEF ListForFilm, AllAssigned, Sweep, Save, FindFilm
<1> QED
  BY <1>5, <1>6, <1>7, <1>8, <1>9, <1>10, <1>11, <1>12, <1>13 DEF Serve

\* A committed link has its film and its label, however linking, sweeping and deleting
\* interleave: what the key-share locks of the foreign keys are for.
THEOREM LinksKeepTheirEnds == Spec => []LinksHaveBothEnds
<1>1. Init => EndsInv
  BY IdleTyped DEF Init, EndsInv, TypeOK, LinkEndsHold
<1>2. EndsInv /\ [Next]_vars => EndsInv'
  BY EndsStep
<1>3. EndsInv => LinksHaveBothEnds
  BY DEF EndsInv, LinkEndsHold, LinksHaveBothEnds, EndHolds, Committed
<1> QED BY <1>1, <1>2, <1>3, PTL DEF Spec

-----------------------------------------------------------------------------
(* Requests that do not overlap, or overlap only in creating films *)

Active(r) == req[r].pc # "idle"

\* The states of a request in which it has written nothing.
Fresh == {"idle", "create", "list", "delete_find", "delete"}

\* What a request in flight has inserted and deleted: a creator its film, and only others
\* delete rows; links are inserted for the request's film alone.
Inserts(r, row) == row # NoRow /\ row.by = r
Deletes(r, row) == row # NoRow /\ row.cut = r

FilmsOwned(r) ==
    \A f \in Films :
        /\ Inserts(r, films[f]) => /\ f = req[r].film /\ films[f].cut = None
                                  /\ req[r].pc \in {"assign", "link", "commit"}
        /\ Deletes(r, films[f]) => req[r].pc \notin Fresh /\ ~Creating(r)
LabelsOwned(r) ==
    \A l \in LabelIds :
        /\ Inserts(r, labels[l]) => req[r].pc \notin Fresh
        /\ Deletes(r, labels[l]) => req[r].pc \notin Fresh /\ ~Creating(r)
LinksOwned(r) ==
    \A f \in Films, l \in LabelIds :
        /\ Inserts(r, links[<<f, l>>]) => f = req[r].film /\ req[r].pc \notin Fresh
        /\ Deletes(r, links[<<f, l>>]) => req[r].pc \notin Fresh /\ ~Creating(r)
Owned(r) == FilmsOwned(r) /\ LabelsOwned(r) /\ LinksOwned(r)

\* What a request works on: a film, and an edit or a creation assigns at least one label.
WishKept(r) ==
    /\ Active(r) => req[r].film \in Films
    /\ req[r].pc \in {"create", "list", "unlink", "assign", "link"} => req[r].wish # {}
    /\ req[r].pc \in {"create", "list", "unlink"} => req[r].todo = req[r].wish
    /\ req[r].pc \in {"assign", "link"} => req[r].todo \subseteq req[r].wish
    /\ req[r].pc \in {"delete_find", "delete"} => req[r].wish = {}

\* While nothing crosses, two requests in flight are both creating a film.
OnlyCreators ==
    \A r, s \in Requests : r # s /\ Active(r) /\ Active(s) => Creating(r) /\ Creating(s)

\* What request r sees: every label has a film, but those its own statements still have to
\* link or to sweep ...
Carried(r, l) == \E f \in Films : Sees(r, links[<<f, l>>])
LabelsCarried(r) ==
    \A l \in LabelIds : Sees(r, labels[l]) =>
        \/ Carried(r, l)
        \/ req[r].pc \in {"unlink", "assign", "link", "sweep"} /\ ~Creating(r)
        \/ req[r].pc = "link" /\ l = req[r].picked
        \/ req[r].pc = "reap" /\ l \in req[r].doomed

\* ... every film has a label, but the one it is labelling ...
FilmsCarry(r) ==
    \A f \in Films : Sees(r, films[f]) =>
        \/ LinksSeen(r, f) # {}
        \/ req[r].pc \in {"unlink", "assign", "link"} /\ f = req[r].film

\* ... and that one carries what the payload names, once its labels are assigned.
NamesCarried(r) == {labels[l].name : l \in LinksSeen(r, req[r].film)}
WishCarried(r) ==
    LET wish == req[r].wish
        names == NamesCarried(r)
    IN  /\ req[r].pc = "unlink"
             => \A l \in LinksSeen(r, req[r].film) : labels[l].name \in wish \/ l \in req[r].doomed
        /\ req[r].pc = "assign" => names \subseteq wish /\ wish \subseteq names \cup req[r].todo
        /\ req[r].pc = "link"
             => /\ req[r].picked \in LabelsSeen(r) /\ labels[req[r].picked].name \in wish
                /\ names \subseteq wish
                /\ wish \subseteq names \cup req[r].todo \cup {labels[req[r].picked].name}
        /\ req[r].pc \in {"sweep", "reap", "save", "commit"} /\ wish # {} => names = wish
        /\ req[r].pc = "reap" => \A l \in req[r].doomed : ~Carried(r, l)

ViewHolds(r) == LabelsCarried(r) /\ FilmsCarry(r) /\ WishCarried(r)

EveryLabelCarried ==
    \A l \in LabelIds : Committed(labels[l]) => \E f \in Films : Committed(links[<<f, l>>])

-----------------------------------------------------------------------------
(* Rows as the requests see them *)

AnyRow == Row \cup LabelRow \cup {NoRow}

\* What deleting, committing and rolling back do to who sees a row.
LEMMA RowsSeen ==
  ASSUME NEW r \in Requests, NEW row \in AnyRow
  PROVE  /\ ~Sees(r, Cut(r, row))
         /\ Committed(Cut(r, row)) <=> Committed(row)
         /\ Committed(RowCommitted(r, row)) <=> Sees(r, row)
         /\ Committed(RowRolledBack(r, row)) <=> Committed(row)
<1>1. CASE row \in Row
  BY <1>1, RowAssumption
  DEF Cut, RowCommitted, RowRolledBack, Sees, Committed, Row, Txn
<1>2. CASE row \in LabelRow
  BY <1>2, RowAssumption
  DEF Cut, RowCommitted, RowRolledBack, Sees, Committed, LabelRow, Txn
<1>3. CASE row = NoRow
  BY <1>3 DEF Cut, RowCommitted, RowRolledBack, Sees, Committed
<1> QED BY <1>1, <1>2, <1>3 DEF AnyRow

\* They put no row into another's name, and what a transaction did to a row ends with it.
LEMMA RowsOwned ==
  ASSUME NEW r \in Requests, NEW q \in Requests, NEW row \in AnyRow
  PROVE  /\ Inserts(q, Cut(r, row)) => q # r /\ Inserts(q, row)
         /\ Deletes(q, Cut(r, row)) => q = r
         /\ Inserts(q, RowCommitted(r, row)) => q # r /\ Inserts(q, row)
         /\ Deletes(q, RowCommitted(r, row)) => q # r /\ Deletes(q, row)
         /\ Inserts(q, RowRolledBack(r, row)) => q # r /\ Inserts(q, row)
         /\ Deletes(q, RowRolledBack(r, row)) => q # r /\ Deletes(q, row)
<1>1. CASE row \in Row
  BY <1>1, RowAssumption
  DEF Cut, RowCommitted, RowRolledBack, Inserts, Deletes, Row, Txn
<1>2. CASE row \in LabelRow
  BY <1>2, RowAssumption
  DEF Cut, RowCommitted, RowRolledBack, Inserts, Deletes, LabelRow, Txn
<1>3. CASE row = NoRow
  BY <1>3 DEF Cut, RowCommitted, RowRolledBack, Inserts, Deletes
<1> QED BY <1>1, <1>2, <1>3 DEF AnyRow

\* A row that nobody in flight has deleted, seen by a request that another's transaction ends
\* beside.
LEMMA RowsBeside ==
  ASSUME NEW r \in Requests, NEW q \in Requests, q # r, NEW row \in AnyRow,
         row # NoRow => row.cut = None
  PROVE  /\ Sees(q, row) => RowCommitted(r, row) = row /\ RowRolledBack(r, row) = row
         /\ Sees(q, RowCommitted(r, row)) => Sees(q, row) \/ Inserts(r, row)
         /\ Sees(r, row) => Sees(q, RowCommitted(r, row))
         /\ Sees(q, RowRolledBack(r, row)) => Sees(q, row)
<1>1. CASE row \in Row
  BY <1>1, RowAssumption
  DEF RowCommitted, RowRolledBack, Sees, Inserts, Row, Txn
<1>2. CASE row \in LabelRow
  BY <1>2, RowAssumption
  DEF RowCommitted, RowRolledBack, Sees, Inserts, LabelRow, Txn
<1>3. CASE row = NoRow
  BY <1>3 DEF RowCommitted, RowRolledBack, Sees, Inserts
<1> QED BY <1>1, <1>2, <1>3 DEF AnyRow

LEMMA TablesTyped ==
  ASSUME TypeOK
  PROVE  /\ \A f \in Films : films[f] \in AnyRow
         /\ \A l \in LabelIds : labels[l] \in AnyRow
         /\ \A f \in Films, l \in LabelIds : links[<<f, l>>] \in AnyRow
         /\ films \in [Films -> Row \cup {NoRow}]
         /\ labels \in [LabelIds -> LabelRow \cup {NoRow}]
         /\ links \in [Films \X LabelIds -> Row \cup {NoRow}]
         /\ req \in [Requests -> Request]
  BY DEF TypeOK, AnyRow

\* A fresh row.
LEMMA NewRow ==
  ASSUME NEW r \in Requests, NEW q \in Requests, NEW row,
         row # NoRow, row.by = r, row.cut = None
  PROVE  /\ Inserts(q, row) => q = r
         /\ ~Deletes(q, row) /\ ~Committed(row)
         /\ Sees(q, row) <=> q = r
  BY RowAssumption DEF Inserts, Deletes, Committed, Sees

LEMMA NewRowsTyped ==
  ASSUME NEW r \in Requests, NEW n \in Names
  PROVE  /\ [by |-> r, cut |-> None] \in Row /\ [by |-> r, cut |-> None] # NoRow
         /\ [name |-> n, by |-> r, cut |-> None] \in LabelRow
         /\ [name |-> n, by |-> r, cut |-> None] # NoRow
<1>1. [by |-> r, cut |-> None] \in Row /\ [name |-> n, by |-> r, cut |-> None] \in LabelRow
  BY DEF Row, LabelRow, Txn
<1> QED BY <1>1, RowAssumption

-----------------------------------------------------------------------------
(* What one step does to one row *)

\* A statement of a transaction in flight, or its beginning; the rest are its two ends.
Moves(r) ==
    \/ Begin(r) \/ CreateFilm(r) \/ ListForFilm(r) \/ UnlinkFilm(r) \/ GetOrCreate(r)
    \/ LinkFilm(r) \/ AllAssigned(r) \/ Sweep(r) \/ Reap(r) \/ Save(r) \/ FindFilm(r)
    \/ DeleteFilm(r)
Ends(r, row, new) ==
    \/ Commit(r) /\ new = RowCommitted(r, row)
    \/ Abort(r) /\ new = RowRolledBack(r, row)
FilmChange(r, f) ==
    \/ Moves(r) /\ films'[f] = films[f]
    \/ /\ CreateFilm(r) /\ f = req[r].film
       /\ films[f] = NoRow /\ films'[f] = [by |-> r, cut |-> None]
    \/ DeleteFilm(r) /\ Sees(r, films[f]) /\ films'[f] = Cut(r, films[f])
    \/ Ends(r, films[f], films'[f])
LabelChange(r, l) ==
    \/ Moves(r) /\ labels'[l] = labels[l]
    \/ /\ GetOrCreate(r) /\ labels[l] = NoRow
       /\ \E n \in Names : labels'[l] = [name |-> n, by |-> r, cut |-> None]
    \/ Reap(r) /\ labels'[l] = Cut(r, labels[l])
    \/ Ends(r, labels[l], labels'[l])
LinkChange(r, f, l) ==
    \/ Moves(r) /\ links'[<<f, l>>] = links[<<f, l>>]
    \/ /\ LinkFilm(r) /\ f = req[r].film /\ l = req[r].picked
       /\ links[<<f, l>>] = NoRow /\ links'[<<f, l>>] = [by |-> r, cut |-> None]
    \/ /\ UnlinkFilm(r) \/ Reap(r) \/ DeleteFilm(r)
       /\ links'[<<f, l>>] = Cut(r, links[<<f, l>>])
    \/ Ends(r, links[<<f, l>>], links'[<<f, l>>])

LEMMA FilmsChange ==
  ASSUME TypeOK, NEW r \in Requests, Begin(r) \/ Serve(r), NEW f \in Films
  PROVE  FilmChange(r, f)
<1>0. films \in [Films -> Row \cup {NoRow}]
  BY DEF TypeOK
<1>1. CASE Moves(r) /\ UNCHANGED films
  BY <1>1 DEF FilmChange
<1>2. CASE CreateFilm(r)
  BY <1>0, <1>2 DEF CreateFilm, FilmChange, Moves
<1>3. CASE DeleteFilm(r)
  BY <1>0, <1>1, <1>3 DEF DeleteFilm, FilmChange, Moves
<1>4. CASE Commit(r)
  BY <1>4 DEF Commit, FilmChange, Ends
<1>5. CASE Abort(r)
  BY <1>5 DEF Abort, FilmChange, Ends
<1>6. CASE \/ Begin(r) \/ ListForFilm(r) \/ UnlinkFilm(r) \/ GetOrCreate(r) \/ LinkFilm(r)
           \/ AllAssigned(r) \/ Sweep(r) \/ Reap(r) \/ Save(r) \/ FindFilm(r)
  BY <1>1, <1>6 DEF Begin, ListForFilm, UnlinkFilm, GetOrCreate, LinkFilm, AllAssigned, Sweep,
                    Reap, Save, FindFilm, Moves
<1> QED BY <1>2, <1>3, <1>4, <1>5, <1>6 DEF Serve

LEMMA LabelsChange ==
  ASSUME TypeOK, NEW r \in Requests, Begin(r) \/ Serve(r), NEW l \in LabelIds
  PROVE  LabelChange(r, l)
<1>0. labels \in [LabelIds -> LabelRow \cup {NoRow}] /\ req[r].todo \subseteq Names
  BY DEF TypeOK, Request
<1>1. CASE Moves(r) /\ UNCHANGED labels
  BY <1>1 DEF LabelChange
<1>2. CASE GetOrCreate(r)
  BY <1>0, <1>1, <1>2 DEF GetOrCreate, LabelChange, Moves
<1>3. CASE Reap(r)
  <2>1. PICK m : UNCHANGED labels \/ labels' = [labels EXCEPT ![m] = Cut(r, @)]
    BY <1>3 DEF Reap
  <2> QED BY <1>0, <1>1, <1>3, <2>1 DEF LabelChange, Moves
<1>4. CASE Commit(r)
  BY <1>4 DEF Commit, LabelChange, Ends
<1>5. CASE Abort(r)
  BY <1>5 DEF Abort, LabelChange, Ends
<1>6. CASE \/ Begin(r) \/ CreateFilm(r) \/ ListForFilm(r) \/ UnlinkFilm(r) \/ LinkFilm(r)
           \/ AllAssigned(r) \/ Sweep(r) \/ Save(r) \/ FindFilm(r) \/ DeleteFilm(r)
  BY <1>1, <1>6 DEF Begin, CreateFilm, ListForFilm, UnlinkFilm, LinkFilm, AllAssigned, Sweep,
                    Save, FindFilm, DeleteFilm, Moves
<1> QED BY <1>2, <1>3, <1>4, <1>5, <1>6 DEF Serve

LEMMA LinksChange ==
  ASSUME TypeOK, NEW r \in Requests, Begin(r) \/ Serve(r), NEW f \in Films, NEW l \in LabelIds
  PROVE  LinkChange(r, f, l)
<1>0. links \in [Films \X LabelIds -> Row \cup {NoRow}] /\ <<f, l>> \in Films \X LabelIds
  BY DEF TypeOK
<1>1. CASE Moves(r) /\ UNCHANGED links
  BY <1>1 DEF LinkChange
<1>2. CASE LinkFilm(r)
  <2> DEFINE g == req[r].film
             m == req[r].picked
  <2>0. Moves(r) BY <1>2 DEF Moves
  <2>1. CASE /\ links[<<g, m>>] = NoRow
             /\ links' = [links EXCEPT ![<<g, m>>] = [by |-> r, cut |-> None]]
    <3>1. CASE g = f /\ m = l BY <1>0, <1>2, <2>1, <3>1 DEF LinkChange
    <3>2. CASE ~(g = f /\ m = l)
      <4>1. <<g, m>> # <<f, l>> BY <3>2
      <4>2. links'[<<f, l>>] = links[<<f, l>>] BY <1>0, <2>1, <4>1
      <4> QED BY <2>0, <4>2 DEF LinkChange
    <3> QED BY <3>1, <3>2
  <2> QED BY <1>1, <1>2, <2>0, <2>1 DEF LinkFilm
<1>3. CASE UnlinkFilm(r)
  <2>1. PICK m : \/ UNCHANGED links
                 \/ links' = [links EXCEPT ![<<req[r].film, m>>] = Cut(r, @)]
    BY <1>3 DEF UnlinkFilm
  <2> QED BY <1>0, <1>1, <1>3, <2>1 DEF LinkChange, Moves
<1>4. CASE Reap(r)
  <2>1. \/ UNCHANGED links
        \/ \E m \in req[r].doomed :
             links' = [fl \in Films \X LabelIds |->
                         IF fl[2] = m THEN Cut(r, links[fl]) ELSE links[fl]]
    BY <1>4, Zenon DEF Reap
  <2>2. CASE UNCHANGED links BY <1>4, <2>2 DEF LinkChange, Moves
  <2>3. ASSUME NEW m \in req[r].doomed,
               links' = [fl \in Films \X LabelIds |->
                           IF fl[2] = m THEN Cut(r, links[fl]) ELSE links[fl]]
        PROVE  LinkChange(r, f, l)
    <3>1. links'[<<f, l>>] = IF l = m THEN Cut(r, links[<<f, l>>]) ELSE links[<<f, l>>]
      BY <1>0, <2>3
    <3> QED BY <1>4, <3>1 DEF LinkChange, Moves
  <2> QED BY <2>1, <2>2, <2>3
<1>5. CASE DeleteFilm(r)
  <2>1. \/ UNCHANGED links
        \/ links' = [fl \in Films \X LabelIds |->
                       IF fl[1] = req[r].film THEN Cut(r, links[fl]) ELSE links[fl]]
    BY <1>5 DEF DeleteFilm
  <2> QED BY <1>0, <1>1, <1>5, <2>1 DEF LinkChange, Moves
<1>6. CASE Commit(r)
  BY <1>0, <1>6 DEF Commit, LinkChange, Ends
<1>7. CASE Abort(r)
  BY <1>0, <1>7 DEF Abort, LinkChange, Ends
<1>8. CASE \/ Begin(r) \/ CreateFilm(r) \/ ListForFilm(r) \/ GetOrCreate(r)
           \/ AllAssigned(r) \/ Sweep(r) \/ Save(r) \/ FindFilm(r)
  BY <1>1, <1>8 DEF Begin, CreateFilm, ListForFilm, GetOrCreate, AllAssigned, Sweep, Save, FindFilm,
      Moves
<1> QED BY <1>2, <1>3, <1>4, <1>5, <1>6, <1>7, <1>8 DEF Serve

\* A step moves its own request alone, along the statements of its transaction.
LEMMA RequestStep ==
  ASSUME TypeOK, NEW r \in Requests, Begin(r) \/ Serve(r)
  PROVE  \A q \in Requests \ {r} : req'[q] = req[q]
  BY DEF TypeOK, Serve, Begin, CreateFilm, ListForFilm, UnlinkFilm, GetOrCreate, LinkFilm,
         AllAssigned, Sweep, Reap, Save, FindFilm, DeleteFilm, Commit, Abort, Goto, Finish

-----------------------------------------------------------------------------
(* Who has inserted and deleted what *)

OwnedInv == TypeOK /\ \A r \in Requests : Owned(r) /\ WishKept(r)

\* A step of another request neither inserts nor deletes in this one's name, and takes back
\* neither.
LEMMA OthersOwn ==
  ASSUME TypeOK, NEW r \in Requests, Begin(r) \/ Serve(r), NEW q \in Requests, q # r
  PROVE  /\ \A f \in Films : /\ Inserts(q, films'[f]) => Inserts(q, films[f])
                             /\ Deletes(q, films'[f]) => Deletes(q, films[f])
         /\ \A l \in LabelIds : /\ Inserts(q, labels'[l]) => Inserts(q, labels[l])
                                /\ Deletes(q, labels'[l]) => Deletes(q, labels[l])
         /\ \A f \in Films, l \in LabelIds :
              /\ Inserts(q, links'[<<f, l>>]) => Inserts(q, links[<<f, l>>])
              /\ Deletes(q, links'[<<f, l>>]) => Deletes(q, links[<<f, l>>])
<1>1. ASSUME NEW f \in Films
      PROVE  /\ Inserts(q, films'[f]) => Inserts(q, films[f])
             /\ Deletes(q, films'[f]) => Deletes(q, films[f])
  <2>1. FilmChange(r, f) /\ films[f] \in AnyRow BY FilmsChange, TablesTyped
  <2>2. CASE films'[f] = [by |-> r, cut |-> None]
    <3>1. [by |-> r, cut |-> None] # NoRow BY RowAssumption DEF Row, Txn
    <3> QED BY <2>2, <3>1, NewRow
  <2> QED BY <2>1, <2>2, RowsOwned DEF FilmChange, Ends
<1>2. ASSUME NEW l \in LabelIds
      PROVE  /\ Inserts(q, labels'[l]) => Inserts(q, labels[l])
             /\ Deletes(q, labels'[l]) => Deletes(q, labels[l])
  <2>1. LabelChange(r, l) /\ labels[l] \in AnyRow BY LabelsChange, TablesTyped
  <2>2. ASSUME NEW n \in Names, labels'[l] = [name |-> n, by |-> r, cut |-> None]
        PROVE  ~Inserts(q, labels'[l]) /\ ~Deletes(q, labels'[l])
    <3>1. [name |-> n, by |-> r, cut |-> None] # NoRow BY NewRowsTyped
    <3> QED BY <2>2, <3>1, NewRow
  <2>3. CASE \E n \in Names : labels'[l] = [name |-> n, by |-> r, cut |-> None]
    BY <2>2, <2>3
  <2>4. CASE labels'[l] = labels[l] BY <2>4
  <2>5. CASE \/ labels'[l] = Cut(r, labels[l])
             \/ labels'[l] = RowCommitted(r, labels[l])
             \/ labels'[l] = RowRolledBack(r, labels[l])
    BY <2>1, <2>5, RowsOwned
  <2> QED BY <2>1, <2>3, <2>4, <2>5 DEF LabelChange, Ends
<1>3. ASSUME NEW f \in Films, NEW l \in LabelIds
      PROVE  /\ Inserts(q, links'[<<f, l>>]) => Inserts(q, links[<<f, l>>])
             /\ Deletes(q, links'[<<f, l>>]) => Deletes(q, links[<<f, l>>])
  <2>1. LinkChange(r, f, l) /\ links[<<f, l>>] \in AnyRow BY LinksChange, TablesTyped
  <2>2. CASE links'[<<f, l>>] = [by |-> r, cut |-> None]
    <3>1. [by |-> r, cut |-> None] # NoRow BY RowAssumption DEF Row, Txn
    <3> QED BY <2>2, <3>1, NewRow
  <2> QED BY <2>1, <2>2, RowsOwned DEF LinkChange, Ends
<1> QED BY <1>1, <1>2, <1>3

\* What a request inserts and deletes itself.
LEMMA OwnRows ==
  ASSUME TypeOK, NEW r \in Requests, Begin(r) \/ Serve(r)
  PROVE  /\ \A f \in Films :
              /\ Inserts(r, films'[f]) =>
                   (Inserts(r, films[f]) /\ Moves(r)) \/ (CreateFilm(r) /\ f = req[r].film)
              /\ Deletes(r, films'[f]) => (Deletes(r, films[f]) /\ Moves(r)) \/ DeleteFilm(r)
         /\ \A l \in LabelIds :
              /\ Inserts(r, labels'[l]) => (Inserts(r, labels[l]) /\ Moves(r)) \/ GetOrCreate(r)
              /\ Deletes(r, labels'[l]) => (Deletes(r, labels[l]) /\ Moves(r)) \/ Reap(r)
         /\ \A f \in Films, l \in LabelIds :
              /\ Inserts(r, links'[<<f, l>>]) =>
                   \/ Inserts(r, links[<<f, l>>]) /\ Moves(r)
                   \/ LinkFilm(r) /\ f = req[r].film
              /\ Deletes(r, links'[<<f, l>>]) =>
                   \/ Deletes(r, links[<<f, l>>]) /\ Moves(r)
                   \/ UnlinkFilm(r) \/ Reap(r) \/ DeleteFilm(r)
<1>0. [by |-> r, cut |-> None] # NoRow BY RowAssumption DEF Row, Txn
<1>1. ASSUME NEW f \in Films
      PROVE  /\ Inserts(r, films'[f]) =>
                  (Inserts(r, films[f]) /\ Moves(r)) \/ (CreateFilm(r) /\ f = req[r].film)
             /\ Deletes(r, films'[f]) => (Deletes(r, films[f]) /\ Moves(r)) \/ DeleteFilm(r)
  <2>1. FilmChange(r, f) /\ films[f] \in AnyRow BY FilmsChange, TablesTyped
  <2>2. CASE films'[f] = [by |-> r, cut |-> None] /\ CreateFilm(r) /\ f = req[r].film
    BY <1>0, <2>2, NewRow
  <2>3. CASE DeleteFilm(r) /\ films'[f] = Cut(r, films[f])
    BY <2>1, <2>3, RowsOwned
  <2> QED BY <2>1, <2>2, <2>3, RowsOwned DEF FilmChange, Ends
<1>2. ASSUME NEW l \in LabelIds
      PROVE  /\ Inserts(r, labels'[l]) => (Inserts(r, labels[l]) /\ Moves(r)) \/ GetOrCreate(r)
             /\ Deletes(r, labels'[l]) => (Deletes(r, labels[l]) /\ Moves(r)) \/ Reap(r)
  <2>1. LabelChange(r, l) /\ labels[l] \in AnyRow BY LabelsChange, TablesTyped
  <2>2. ASSUME NEW n \in Names, labels'[l] = [name |-> n, by |-> r, cut |-> None]
        PROVE  ~Deletes(r, labels'[l])
    <3>1. [name |-> n, by |-> r, cut |-> None] # NoRow BY NewRowsTyped
    <3> QED BY <2>2, <3>1, NewRow
  <2>3. CASE /\ GetOrCreate(r)
             /\ \E n \in Names : labels'[l] = [name |-> n, by |-> r, cut |-> None]
    BY <2>2, <2>3
  <2>4. CASE Moves(r) /\ labels'[l] = labels[l] BY <2>4
  <2>5. CASE Reap(r) /\ labels'[l] = Cut(r, labels[l])
    BY <2>1, <2>5, RowsOwned
  <2>6. CASE Ends(r, labels[l], labels'[l])
    BY <2>1, <2>6, RowsOwned DEF Ends
  <2> QED BY <2>1, <2>3, <2>4, <2>5, <2>6 DEF LabelChange
<1>3. ASSUME NEW f \in Films, NEW l \in LabelIds
      PROVE  /\ Inserts(r, links'[<<f, l>>]) =>
                  \/ Inserts(r, links[<<f, l>>]) /\ Moves(r)
                  \/ LinkFilm(r) /\ f = req[r].film
             /\ Deletes(r, links'[<<f, l>>]) =>
                  \/ Deletes(r, links[<<f, l>>]) /\ Moves(r)
                  \/ UnlinkFilm(r) \/ Reap(r) \/ DeleteFilm(r)
  <2>1. LinkChange(r, f, l) /\ links[<<f, l>>] \in AnyRow BY LinksChange, TablesTyped
  <2>2. CASE links'[<<f, l>>] = [by |-> r, cut |-> None] /\ LinkFilm(r) /\ f = req[r].film
    BY <1>0, <2>2, NewRow
  <2>3. CASE /\ UnlinkFilm(r) \/ Reap(r) \/ DeleteFilm(r)
             /\ links'[<<f, l>>] = Cut(r, links[<<f, l>>])
    BY <2>1, <2>3, RowsOwned
  <2> QED BY <2>1, <2>2, <2>3, RowsOwned DEF LinkChange, Ends
<1> QED BY <1>1, <1>2, <1>3

\* Where the statements of a transaction lead.
LEMMA Statements ==
  ASSUME TypeOK, NEW r \in Requests
  PROVE  /\ Moves(r) /\ req[r].pc \notin Fresh => req'[r].pc \notin Fresh /\ ~CreateFilm(r)
         /\ Moves(r) /\ req[r].pc # "idle" =>
              \/ req'[r] = Idle
              \/ req'[r].film = req[r].film /\ req'[r].wish = req[r].wish
         /\ CreateFilm(r) => req[r].pc = "create" /\ req'[r].pc = "assign"
         /\ UnlinkFilm(r) => req[r].pc = "unlink" /\ req'[r].pc \in {"unlink", "assign"}
         /\ GetOrCreate(r) => req[r].pc = "assign" /\ req'[r].pc = "link"
         /\ LinkFilm(r) => req[r].pc = "link" /\ req'[r].pc = "assign"
         /\ AllAssigned(r) => req[r].pc = "assign" /\ req'[r].pc \in {"commit", "sweep"}
         /\ Sweep(r) => req[r].pc = "sweep" /\ req'[r].pc = "reap"
         /\ Reap(r) => req[r].pc = "reap" /\ req'[r].pc \in {"reap", "save"}
         /\ Save(r) => req[r].pc = "save" /\ req'[r].pc = "commit"
         /\ DeleteFilm(r) => req[r].pc = "delete" /\ req'[r].pc = "sweep"
         /\ ListForFilm(r) => req[r].pc = "list" /\ req'[r].pc \in {"idle", "unlink"}
         /\ FindFilm(r) => req[r].pc = "delete_find" /\ req'[r].pc \in {"idle", "delete"}
         /\ Begin(r) => req[r].pc = "idle" /\ req'[r].pc \in {"create", "list", "delete_find"}
<1>0. req \in [Requests -> Request] BY DEF TypeOK
<1> DEFINE Kept == req'[r].film = req[r].film /\ req'[r].wish = req[r].wish
<1>1. CreateFilm(r) => req[r].pc = "create" /\ req'[r].pc = "assign" /\ Kept
  BY <1>0 DEF CreateFilm, Goto, Request
<1>2. UnlinkFilm(r) => req[r].pc = "unlink" /\ req'[r].pc \in {"unlink", "assign"} /\ Kept
  <2> SUFFICES ASSUME UnlinkFilm(r)
               PROVE  req[r].pc = "unlink" /\ req'[r].pc \in {"unlink", "assign"} /\ Kept
    OBVIOUS
  <2>1. CASE Goto(r, "assign") BY <1>0, <2>1 DEF UnlinkFilm, Goto, Request
  <2>2. ASSUME NEW l, req' = [req EXCEPT ![r].doomed = @ \ {l}]
        PROVE  req[r].pc = "unlink" /\ req'[r].pc \in {"unlink", "assign"} /\ Kept
    BY <1>0, <2>2 DEF UnlinkFilm, Request
  <2>3. Goto(r, "assign") \/ \E l : req' = [req EXCEPT ![r].doomed = @ \ {l}]
    BY DEF UnlinkFilm
  <2> QED BY <2>1, <2>2, <2>3
<1>3. GetOrCreate(r) => req[r].pc = "assign" /\ req'[r].pc = "link" /\ Kept
  <2> SUFFICES ASSUME GetOrCreate(r)
               PROVE  req[r].pc = "assign" /\ req'[r].pc = "link" /\ Kept
    OBVIOUS
  <2>1. PICK n, l : req' = [req EXCEPT ![r].pc = "link", ![r].picked = l, ![r].todo = @ \ {n}]
    BY DEF GetOrCreate
  <2>2. req[r].pc = "assign" BY DEF GetOrCreate
  <2> QED BY <1>0, <2>1, <2>2 DEF Request
<1>4. LinkFilm(r) => req[r].pc = "link" /\ req'[r].pc = "assign" /\ Kept
  BY <1>0 DEF LinkFilm, Request
<1>5. AllAssigned(r) => req[r].pc = "assign" /\ req'[r].pc \in {"commit", "sweep"} /\ Kept
  BY <1>0 DEF AllAssigned, Goto, Request
<1>6. Sweep(r) => req[r].pc = "sweep" /\ req'[r].pc = "reap" /\ Kept
  BY <1>0 DEF Sweep, Request
<1>7. Reap(r) => req[r].pc = "reap" /\ req'[r].pc \in {"reap", "save"} /\ Kept
  BY <1>0 DEF Reap, Goto, Request
<1>8. Save(r) => req[r].pc = "save" /\ req'[r].pc = "commit" /\ Kept
  BY <1>0 DEF Save, Goto, Request
<1>9. DeleteFilm(r) => req[r].pc = "delete" /\ req'[r].pc = "sweep" /\ Kept
  BY <1>0 DEF DeleteFilm, Goto, Request
<1>10. ListForFilm(r) =>
         /\ req[r].pc = "list" /\ req'[r].pc \in {"idle", "unlink"}
         /\ req'[r] = Idle \/ Kept
  BY <1>0 DEF ListForFilm, Request, Idle
<1>11. FindFilm(r) =>
         /\ req[r].pc = "delete_find" /\ req'[r].pc \in {"idle", "delete"}
         /\ req'[r] = Idle \/ Kept
  <2>1. ASSUME Goto(r, "delete") PROVE req'[r].pc = "delete" /\ Kept
    BY <1>0, <2>1 DEF Goto, Request
  <2>2. ASSUME Finish(r) PROVE req'[r] = Idle /\ req'[r].pc = "idle"
    BY <1>0, <2>2 DEF Finish, Idle
  <2> QED BY <2>1, <2>2 DEF FindFilm
<1>12. Begin(r) => req[r].pc = "idle" /\ req'[r].pc \in {"create", "list", "delete_find"}
  <2> SUFFICES ASSUME Begin(r)
               PROVE  req[r].pc = "idle" /\ req'[r].pc \in {"create", "list", "delete_find"}
    OBVIOUS
  <2>1. PICK f \in Films, W \in SUBSET Names :
          \/ req' = [req EXCEPT ![r] = [Idle EXCEPT !.pc = "create", !.film = f,
                                                    !.wish = W, !.todo = W]]
          \/ req' = [req EXCEPT ![r] = [Idle EXCEPT !.pc = "list", !.film = f,
                                                    !.wish = W, !.todo = W]]
          \/ req' = [req EXCEPT ![r] = [Idle EXCEPT !.pc = "delete_find", !.film = f]]
    BY DEF Begin
  <2>2. req[r].pc = "idle" BY DEF Begin
  <2> QED BY <1>0, <2>1, <2>2 DEF Idle
<1> HIDE DEF Kept
<1>13. Moves(r) /\ req[r].pc \notin Fresh => req'[r].pc \notin Fresh /\ ~CreateFilm(r)
  BY <1>1, <1>2, <1>3, <1>4, <1>5, <1>6, <1>7, <1>8, <1>9, <1>10, <1>11, <1>12 DEF Moves, Fresh
<1>14. Moves(r) /\ req[r].pc # "idle" => req'[r] = Idle \/ Kept
  BY <1>1, <1>2, <1>3, <1>4, <1>5, <1>6, <1>7, <1>8, <1>9, <1>10, <1>11, <1>12 DEF Moves
<1> QED
  BY <1>1, <1>2, <1>3, <1>4, <1>5, <1>6, <1>7, <1>8, <1>9, <1>10, <1>11, <1>12, <1>13, <1>14
  DEF Kept

\* The film that a request has inserted waits for its transaction to end.
LEMMA OwnFilmStays ==
  ASSUME OwnedInv, NEW r \in Requests, Begin(r) \/ Serve(r), NEW q \in Requests, q # r,
         NEW f \in Films, Inserts(q, films[f])
  PROVE  films'[f] = films[f]
<1>1. FilmChange(r, f) /\ films[f] \in Row /\ films[f].by = q /\ films[f].cut = None
  BY FilmsChange DEF OwnedInv, TypeOK, Inserts, Owned, FilmsOwned
<1>2. \/ films'[f] = films[f]
      \/ films'[f] = RowCommitted(r, films[f]) \/ films'[f] = RowRolledBack(r, films[f])
  BY <1>1, RowAssumption DEF FilmChange, Ends, Inserts, Sees
<1>3. RowCommitted(r, films[f]) = films[f] /\ RowRolledBack(r, films[f]) = films[f]
  BY <1>1, RowAssumption DEF RowCommitted, RowRolledBack
<1> QED BY <1>2, <1>3

\* A request that creates a film goes on doing so until its transaction ends, and one that
\* does not begins nothing of the kind.
LEMMA CreatorsStay ==
  ASSUME OwnedInv, NEW r \in Requests, Begin(r) \/ Serve(r), NEW q \in Requests
  PROVE  /\ Creating(q) /\ ~(q = r /\ (Commit(r) \/ Abort(r))) => Creating(q)'
         /\ req[q].pc \notin Fresh /\ ~Creating(q) => ~Creating(q)' \/ (q = r /\ ~Moves(r))
         /\ Creating(q) => req[q].pc \in {"create", "assign", "link", "commit"}
<1> USE DEF OwnedInv
<1>1. ASSUME NEW s \in Requests, Creating(s)
      PROVE  req[s].pc \in {"create", "assign", "link", "commit"}
  BY <1>1 DEF Creating, Owned, FilmsOwned, Inserts
<1>2. CASE q # r
  <2>1. req'[q] = req[q] BY <1>2, RequestStep
  <2>2. \A f \in Films : Inserts(q, films'[f]) => Inserts(q, films[f])
    BY <1>2, OthersOwn
  <2>3. ASSUME NEW f \in Films, Inserts(q, films[f]) PROVE Inserts(q, films'[f])
    BY <1>2, <2>3, OwnFilmStays
  <2>4. Creating(q)' = Creating(q) BY <2>1, <2>2, <2>3 DEF Creating, Inserts
  <2> QED BY <1>1, <1>2, <2>4
<1>3. CASE q = r
  <2>1. ASSUME Creating(r), Moves(r) PROVE Creating(r)'
    <3>1. CASE CreateFilm(r)
      <4>1. req[r].film \in Films /\ req'[r].film = req[r].film
        BY <3>1 DEF CreateFilm, WishKept, Active, Goto, TypeOK, Request
      <4>2. films'[req[r].film] = [by |-> r, cut |-> None]
        BY <3>1, <4>1 DEF CreateFilm, TypeOK
      <4>3. [by |-> r, cut |-> None] # NoRow BY RowAssumption DEF Row, Txn
      <4> QED BY <4>1, <4>2, <4>3 DEF Creating
    <3>2. CASE ~CreateFilm(r)
      <4>0. req[r].pc \in {"create", "assign", "link", "commit"} BY <1>1, <2>1
      <4>1. GetOrCreate(r) \/ LinkFilm(r) \/ AllAssigned(r)
        BY <2>1, <3>2, <4>0, Statements DEF Moves
      <4>2. UNCHANGED films BY <4>1 DEF GetOrCreate, LinkFilm, AllAssigned
      <4>3. req[r].pc # "create" /\ req[r].pc # "idle" /\ req'[r].pc # "idle"
        BY <4>1, Statements
      <4>4. req'[r].film = req[r].film BY <2>1, <4>3, Statements DEF Idle
      <4> QED BY <2>1, <4>2, <4>3, <4>4 DEF Creating
    <3> QED BY <3>1, <3>2
  <2>2. ASSUME req[r].pc \notin Fresh, ~Creating(r), Moves(r) PROVE ~Creating(r)'
    <3>1. req'[r].pc \notin Fresh /\ ~CreateFilm(r) BY <2>2, Statements
    <3>2. req'[r].film = req[r].film BY <2>2, <3>1, Statements DEF Fresh, Idle
    <3>3. \A f \in Films : Inserts(r, films'[f]) => Inserts(r, films[f]) BY <3>1, OwnRows
    <3>4. req'[r].pc # "create" BY <3>1 DEF Fresh
    <3> QED BY <2>2, <3>2, <3>3, <3>4 DEF Creating, Inserts
  <2>3. Moves(r) \/ Commit(r) \/ Abort(r) BY DEF Serve, Moves
  <2> QED BY <1>1, <1>3, <2>1, <2>2, <2>3
<1> QED BY <1>2, <1>3

LEMMA FilmsOwnedStep ==
  ASSUME OwnedInv, NEW r \in Requests, Begin(r) \/ Serve(r), NEW q \in Requests
  PROVE  FilmsOwned(q)'
<1> USE DEF OwnedInv
<1>0. FilmsOwned(q) BY DEF Owned
<1> SUFFICES ASSUME NEW f \in Films
             PROVE  /\ Inserts(q, films'[f]) =>
                         /\ f = req'[q].film /\ films'[f].cut = None
                         /\ req'[q].pc \in {"assign", "link", "commit"}
                    /\ Deletes(q, films'[f]) => req'[q].pc \notin Fresh /\ ~Creating(q)'
  BY DEF FilmsOwned, Inserts, Deletes
<1>1. CASE q # r
  <2>1. req'[q] = req[q] BY <1>1, RequestStep
  <2>2. /\ Inserts(q, films'[f]) => Inserts(q, films[f])
        /\ Deletes(q, films'[f]) => Deletes(q, films[f])
    BY <1>1, OthersOwn
  <2>3. Inserts(q, films[f]) => films'[f] = films[f] BY <1>1, OwnFilmStays
  <2>4. req[q].pc \notin Fresh /\ ~Creating(q) => ~Creating(q)' BY <1>1, CreatorsStay
  <2> QED BY <1>0, <2>1, <2>2, <2>3, <2>4 DEF FilmsOwned
<1>2. CASE q = r
  <2>1. ASSUME Inserts(r, films[f]), Moves(r)
        PROVE  /\ f = req'[r].film /\ films'[f].cut = None
               /\ req'[r].pc \in {"assign", "link", "commit"}
    <3>1. /\ f = req[r].film /\ films[f].cut = None /\ Creating(r)
          /\ req[r].pc \in {"assign", "link", "commit"}
      BY <1>0, <1>2, <2>1 DEF FilmsOwned, Creating, Inserts
    <3>2. GetOrCreate(r) \/ LinkFilm(r) \/ AllAssigned(r)
      BY <2>1, <3>1, Statements DEF Moves
    <3>3. UNCHANGED films BY <3>2 DEF GetOrCreate, LinkFilm, AllAssigned
    <3>4. AllAssigned(r) => req'[r].pc = "commit"
      BY <2>1, <3>1 DEF AllAssigned, Goto, Inserts, TypeOK, Request
    <3>5. req'[r].pc \in {"assign", "link", "commit"} /\ req[r].pc # "idle"
      BY <3>2, <3>4, Statements
    <3>6. req'[r].film = req[r].film BY <2>1, <3>5, Statements DEF Idle
    <3> QED BY <3>1, <3>3, <3>5, <3>6
  <2>2. ASSUME CreateFilm(r), f = req[r].film
        PROVE  /\ f = req'[r].film /\ films'[f].cut = None
               /\ req'[r].pc \in {"assign", "link", "commit"}
    <3>1. req'[r].film = req[r].film BY <2>2 DEF CreateFilm, Goto, TypeOK, Request
    <3>2. films'[f] = [by |-> r, cut |-> None] BY <2>2 DEF CreateFilm, TypeOK
    <3> QED BY <2>2, <3>1, <3>2, Statements
  <2>3. ASSUME Deletes(r, films[f]), Moves(r)
        PROVE  req'[r].pc \notin Fresh /\ ~Creating(r)'
    BY <1>0, <1>2, <2>3, Statements, CreatorsStay DEF FilmsOwned
  <2>4. ASSUME DeleteFilm(r) PROVE req'[r].pc \notin Fresh /\ ~Creating(r)'
    <3>1. req[r].pc = "delete" /\ req'[r].pc = "sweep" BY <2>4, Statements
    <3>2. \A g \in Films : ~Inserts(r, films[g]) BY <3>1 DEF Owned, FilmsOwned
    <3>3. \A g \in Films : ~Inserts(r, films'[g]) BY <3>1, <3>2, OwnRows, Statements
    <3> QED BY <3>1, <3>3 DEF Fresh, Creating, Inserts
  <2> QED BY <1>2, <2>1, <2>2, <2>3, <2>4, OwnRows
<1> QED BY <1>1, <1>2

LEMMA LabelsOwnedStep ==
  ASSUME OwnedInv, NEW r \in Requests, Begin(r) \/ Serve(r), NEW q \in Requests
  PROVE  LabelsOwned(q)'
<1> USE DEF OwnedInv
<1>0. LabelsOwned(q) BY DEF Owned
<1> SUFFICES ASSUME NEW l \in LabelIds
             PROVE  /\ Inserts(q, labels'[l]) => req'[q].pc \notin Fresh
                    /\ Deletes(q, labels'[l]) => req'[q].pc \notin Fresh /\ ~Creating(q)'
  BY DEF LabelsOwned, Inserts, Deletes
<1>1. CASE q # r
  <2>1. req'[q] = req[q] BY <1>1, RequestStep
  <2>2. /\ Inserts(q, labels'[l]) => Inserts(q, labels[l])
        /\ Deletes(q, labels'[l]) => Deletes(q, labels[l])
    BY <1>1, OthersOwn
  <2>3. req[q].pc \notin Fresh /\ ~Creating(q) => ~Creating(q)' BY <1>1, CreatorsStay
  <2> QED BY <1>0, <2>1, <2>2, <2>3 DEF LabelsOwned
<1>2. CASE q = r
  <2>1. ASSUME Inserts(r, labels[l]), Moves(r) PROVE req'[r].pc \notin Fresh
    BY <1>0, <1>2, <2>1, Statements DEF LabelsOwned
  <2>2. ASSUME GetOrCreate(r) PROVE req'[r].pc \notin Fresh BY <2>2, Statements DEF Fresh
  <2>3. ASSUME Deletes(r, labels[l]), Moves(r)
        PROVE  req'[r].pc \notin Fresh /\ ~Creating(r)'
    BY <1>0, <1>2, <2>3, Statements, CreatorsStay DEF LabelsOwned
  <2>4. ASSUME Reap(r) PROVE req'[r].pc \notin Fresh /\ ~Creating(r)'
    <3>1. req[r].pc = "reap" /\ req'[r].pc \in {"reap", "save"} BY <2>4, Statements
    <3>2. req[r].pc \notin Fresh /\ ~Creating(r) /\ Moves(r)
      BY <2>4, <3>1, CreatorsStay DEF Fresh, Moves
    <3> QED BY <3>1, <3>2, CreatorsStay DEF Fresh
  <2> QED BY <1>2, <2>1, <2>2, <2>3, <2>4, OwnRows
<1> QED BY <1>1, <1>2

LEMMA LinksOwnedStep ==
  ASSUME OwnedInv, NEW r \in Requests, Begin(r) \/ Serve(r), NEW q \in Requests
  PROVE  LinksOwned(q)'
<1> USE DEF OwnedInv
<1>0. LinksOwned(q) BY DEF Owned
<1> SUFFICES ASSUME NEW f \in Films, NEW l \in LabelIds
             PROVE  /\ Inserts(q, links'[<<f, l>>]) => f = req'[q].film /\ req'[q].pc \notin Fresh
                    /\ Deletes(q, links'[<<f, l>>]) => req'[q].pc \notin Fresh /\ ~Creating(q)'
  BY DEF LinksOwned, Inserts, Deletes
<1>1. CASE q # r
  <2>1. req'[q] = req[q] BY <1>1, RequestStep
  <2>2. /\ Inserts(q, links'[<<f, l>>]) => Inserts(q, links[<<f, l>>])
        /\ Deletes(q, links'[<<f, l>>]) => Deletes(q, links[<<f, l>>])
    BY <1>1, OthersOwn
  <2>3. req[q].pc \notin Fresh /\ ~Creating(q) => ~Creating(q)' BY <1>1, CreatorsStay
  <2> QED BY <1>0, <2>1, <2>2, <2>3 DEF LinksOwned
<1>2. CASE q = r
  <2>1. ASSUME Inserts(r, links[<<f, l>>]), Moves(r)
        PROVE  f = req'[r].film /\ req'[r].pc \notin Fresh
    <3>1. f = req[r].film /\ req[r].pc \notin Fresh BY <1>0, <1>2, <2>1 DEF LinksOwned
    <3>2. req'[r].pc \notin Fresh BY <2>1, <3>1, Statements
    <3>3. req'[r].film = req[r].film BY <2>1, <3>1, <3>2, Statements DEF Fresh, Idle
    <3> QED BY <3>1, <3>2, <3>3
  <2>2. ASSUME LinkFilm(r), f = req[r].film PROVE f = req'[r].film /\ req'[r].pc \notin Fresh
    BY <2>2, Statements DEF Fresh, Moves, Idle
  <2>3. ASSUME Deletes(r, links[<<f, l>>]), Moves(r)
        PROVE  req'[r].pc \notin Fresh /\ ~Creating(r)'
    BY <1>0, <1>2, <2>3, Statements, CreatorsStay DEF LinksOwned
  <2>4. ASSUME UnlinkFilm(r) \/ Reap(r) PROVE req'[r].pc \notin Fresh /\ ~Creating(r)'
    <3>1. req[r].pc \in {"unlink", "reap"} BY <2>4, Statements
    <3>2. req[r].pc \notin Fresh /\ ~Creating(r) /\ Moves(r)
      BY <2>4, <3>1, CreatorsStay DEF Fresh, Moves
    <3> QED BY <3>2, CreatorsStay, Statements
  <2>5. ASSUME DeleteFilm(r) PROVE req'[r].pc \notin Fresh /\ ~Creating(r)'
    <3>1. req[r].pc = "delete" /\ req'[r].pc = "sweep" BY <2>5, Statements
    <3>2. \A g \in Films : ~Inserts(r, films[g]) BY <3>1 DEF Owned, FilmsOwned
    <3>3. \A g \in Films : ~Inserts(r, films'[g]) BY <3>1, <3>2, OwnRows, Statements
    <3> QED BY <3>1, <3>3 DEF Fresh, Creating, Inserts
  <2> QED BY <1>2, <2>1, <2>2, <2>3, <2>4, <2>5, OwnRows
<1> QED BY <1>1, <1>2

LEMMA WishStep ==
  ASSUME OwnedInv, NEW r \in Requests, Begin(r) \/ Serve(r), NEW q \in Requests
  PROVE  WishKept(q)'
<1> USE DEF OwnedInv, Active
<1>0. req \in [Requests -> Request] /\ WishKept(q) BY DEF TypeOK
<1>1. CASE q # r
  <2>1. req'[q] = req[q] BY <1>1, RequestStep
  <2> QED BY <1>0, <2>1 DEF WishKept
<1>2. CASE q = r /\ req'[r] = Idle
  BY <1>2 DEF WishKept, Idle
<1>3. CASE q = r /\ req'[r] # Idle /\ req[r].pc # "idle"
  <2>1. Moves(r) BY <1>0, <1>3 DEF Serve, Moves, Commit, Abort, Finish
  <2>2. req'[r].film = req[r].film /\ req'[r].wish = req[r].wish BY <2>1, <1>3, Statements
  <2>3. /\ req'[r].pc \in {"create", "list"} => FALSE
        /\ req'[r].pc = "unlink" => req[r].pc \in {"list", "unlink"} /\ req'[r].todo = req[r].todo
        /\ req'[r].pc \in {"assign", "link"} =>
             /\ req[r].pc \in {"create", "unlink", "assign", "link"}
             /\ req'[r].todo \subseteq req[r].todo
        /\ req'[r].pc \in {"delete_find", "delete"} => req[r].pc = "delete_find"
    <3>1. CASE CreateFilm(r) BY <1>0, <3>1 DEF CreateFilm, Goto, Request
    <3>2. CASE ListForFilm(r) BY <1>0, <1>3, <3>2 DEF ListForFilm, Request
    <3>3. CASE UnlinkFilm(r)
      <4>1. Goto(r, "assign") \/ \E l : req' = [req EXCEPT ![r].doomed = @ \ {l}]
        BY <3>3 DEF UnlinkFilm
      <4>2. req[r].pc = "unlink" BY <3>3 DEF UnlinkFilm
      <4>3. req'[r].todo = req[r].todo BY <1>0, <4>1 DEF Goto, Request
      <4> QED BY <3>3, <4>2, <4>3, Statements
    <3>4. CASE GetOrCreate(r)
      <4>1. PICK n, l : req' = [req EXCEPT ![r].pc = "link", ![r].picked = l,
                                           ![r].todo = @ \ {n}]
        BY <3>4 DEF GetOrCreate
      <4>2. req'[r].todo \subseteq req[r].todo BY <1>0, <4>1 DEF Request
      <4> QED BY <3>4, <4>2, Statements
    <3>5. CASE LinkFilm(r) BY <1>0, <3>5 DEF LinkFilm, Request
    <3>6. CASE FindFilm(r) BY <3>6, Statements
    <3>7. CASE AllAssigned(r) \/ Sweep(r) \/ Reap(r) \/ Save(r) \/ DeleteFilm(r)
      BY <3>7, Statements
    <3> QED BY <1>3, <2>1, <3>1, <3>2, <3>3, <3>4, <3>5, <3>6, <3>7, Statements DEF Moves
  <2>4. req'[r].film \in Films BY <1>0, <1>3, <2>2 DEF WishKept
  <2> QED BY <1>0, <1>3, <2>2, <2>3, <2>4 DEF WishKept
<1>4. CASE q = r /\ req[r].pc = "idle"
  <2>1. Begin(r)
    BY <1>4 DEF Serve, CreateFilm, ListForFilm, UnlinkFilm, GetOrCreate, LinkFilm, AllAssigned,
                Sweep, Reap, Save, FindFilm, DeleteFilm, Commit, Abort
  <2>2. PICK f \in Films, W \in (SUBSET Names) \ {{}} :
          \/ req' = [req EXCEPT ![r] = [Idle EXCEPT !.pc = "create", !.film = f,
                                                    !.wish = W, !.todo = W]]
          \/ req' = [req EXCEPT ![r] = [Idle EXCEPT !.pc = "list", !.film = f,
                                                    !.wish = W, !.todo = W]]
          \/ req' = [req EXCEPT ![r] = [Idle EXCEPT !.pc = "delete_find", !.film = f]]
    BY <2>1 DEF Begin
  <2>3. CASE \/ req' = [req EXCEPT ![r] = [Idle EXCEPT !.pc = "create", !.film = f,
                                                    !.wish = W, !.todo = W]]
             \/ req' = [req EXCEPT ![r] = [Idle EXCEPT !.pc = "list", !.film = f,
                                                    !.wish = W, !.todo = W]]
    <3>1. /\ req'[r].pc \in {"create", "list"} /\ req'[r].film = f
          /\ req'[r].wish = W /\ req'[r].todo = W
      BY <1>0, <2>3 DEF Idle
    <3> QED BY <1>4, <3>1 DEF WishKept
  <2>4. CASE req' = [req EXCEPT ![r] = [Idle EXCEPT !.pc = "delete_find", !.film = f]]
    <3>1. req'[r].pc = "delete_find" /\ req'[r].film = f /\ req'[r].wish = {}
      BY <1>0, <2>4 DEF Idle
    <3> QED BY <1>4, <3>1 DEF WishKept
  <2> QED BY <2>2, <2>3, <2>4
<1> QED BY <1>1, <1>2, <1>3, <1>4

LEMMA OwnedStep ==
  ASSUME OwnedInv, [Next]_vars
  PROVE  OwnedInv'
<1>1. TypeOK' BY TypeStep DEF OwnedInv
<1>2. CASE UNCHANGED vars
  <2>1. UNCHANGED <<films, labels, links, req>> BY <1>2 DEF vars
  <2>2. ASSUME NEW q \in Requests PROVE Owned(q)' /\ WishKept(q)'
    <3>1. Owned(q) /\ WishKept(q) BY DEF OwnedInv
    <3>2. Creating(q)' = Creating(q) BY <2>1 DEF Creating
    <3>3. FilmsOwned(q)' BY <2>1, <3>1, <3>2 DEF Owned, FilmsOwned, Inserts, Deletes
    <3>4. LabelsOwned(q)' BY <2>1, <3>1, <3>2 DEF Owned, LabelsOwned, Inserts, Deletes
    <3>5. LinksOwned(q)' BY <2>1, <3>1, <3>2 DEF Owned, LinksOwned, Inserts, Deletes
    <3>6. WishKept(q)' BY <2>1, <3>1 DEF WishKept, Active
    <3> QED BY <3>3, <3>4, <3>5, <3>6 DEF Owned
  <2> QED BY <1>1, <2>2 DEF OwnedInv
<1>3. ASSUME NEW r \in Requests, Begin(r) \/ Serve(r) PROVE OwnedInv'
  <2>1. \A q \in Requests : Owned(q)' /\ WishKept(q)'
    BY <1>3, FilmsOwnedStep, LabelsOwnedStep, LinksOwnedStep, WishStep DEF Owned
  <2> QED BY <1>1, <2>1 DEF OwnedInv
<1> QED BY <1>2, <1>3 DEF Next

LEMMA OwnedInit == Init => OwnedInv
<1> SUFFICES ASSUME Init PROVE OwnedInv OBVIOUS
<1>1. TypeOK BY IdleTyped DEF Init, TypeOK
<1>2. ASSUME NEW r \in Requests PROVE Owned(r) /\ WishKept(r)
  <2>1. Owned(r)
    BY DEF Init, Owned, FilmsOwned, LabelsOwned, LinksOwned, Inserts, Deletes
  <2>2. WishKept(r) BY DEF Init, WishKept, Active, Idle
  <2> QED BY <2>1, <2>2
<1> QED BY <1>1, <1>2 DEF OwnedInv

-----------------------------------------------------------------------------
(* What the requests see *)

\* Only a commit changes what is committed.
LEMMA CommittedStays ==
  ASSUME TypeOK, NEW r \in Requests, Begin(r) \/ Serve(r), ~Commit(r)
  PROVE  /\ \A f \in Films : Committed(films'[f]) <=> Committed(films[f])
         /\ \A l \in LabelIds : Committed(labels'[l]) <=> Committed(labels[l])
         /\ \A f \in Films, l \in LabelIds :
              Committed(links'[<<f, l>>]) <=> Committed(links[<<f, l>>])
<1>1. ASSUME NEW f \in Films PROVE Committed(films'[f]) <=> Committed(films[f])
  <2>1. FilmChange(r, f) /\ films[f] \in AnyRow BY FilmsChange, TablesTyped
  <2>2. CASE films[f] = NoRow /\ films'[f] = [by |-> r, cut |-> None]
    BY <2>2, RowAssumption DEF Committed
  <2>3. CASE films'[f] = Cut(r, films[f]) \/ films'[f] = RowRolledBack(r, films[f])
    BY <2>1, <2>3, RowsSeen
  <2> QED BY <2>1, <2>2, <2>3 DEF FilmChange, Ends
<1>2. ASSUME NEW l \in LabelIds PROVE Committed(labels'[l]) <=> Committed(labels[l])
  <2>1. LabelChange(r, l) /\ labels[l] \in AnyRow BY LabelsChange, TablesTyped
  <2>2. ASSUME labels[l] = NoRow,
               NEW n \in Names, labels'[l] = [name |-> n, by |-> r, cut |-> None]
        PROVE  ~Committed(labels'[l]) /\ ~Committed(labels[l])
    BY <2>2, RowAssumption DEF Committed
  <2>3. CASE labels'[l] = Cut(r, labels[l]) \/ labels'[l] = RowRolledBack(r, labels[l])
    BY <2>1, <2>3, RowsSeen
  <2>4. CASE /\ labels[l] = NoRow
             /\ \E n \in Names : labels'[l] = [name |-> n, by |-> r, cut |-> None]
    BY <2>2, <2>4
  <2> QED BY <2>1, <2>3, <2>4 DEF LabelChange, Ends
<1>3. ASSUME NEW f \in Films, NEW l \in LabelIds
      PROVE  Committed(links'[<<f, l>>]) <=> Committed(links[<<f, l>>])
  <2>1. LinkChange(r, f, l) /\ links[<<f, l>>] \in AnyRow BY LinksChange, TablesTyped
  <2>2. CASE links[<<f, l>>] = NoRow /\ links'[<<f, l>>] = [by |-> r, cut |-> None]
    BY <2>2, RowAssumption DEF Committed
  <2>3. CASE \/ links'[<<f, l>>] = Cut(r, links[<<f, l>>])
             \/ links'[<<f, l>>] = RowRolledBack(r, links[<<f, l>>])
    BY <2>1, <2>3, RowsSeen
  <2> QED BY <2>1, <2>2, <2>3 DEF LinkChange, Ends
<1> QED BY <1>1, <1>2, <1>3

\* Who sees a link sees its ends.
LEMMA EndsSeen ==
  ASSUME TypeOK, LinkEndsHold, NEW r \in Requests, NEW f \in Films, NEW l \in LabelIds,
         Sees(r, links[<<f, l>>])
  PROVE  Sees(r, films[f]) /\ Sees(r, labels[l])
<1>1. EndHolds(links[<<f, l>>], films[f]) /\ EndHolds(links[<<f, l>>], labels[l])
  BY DEF LinkEndsHold, Sees
<1> QED BY <1>1, RowAssumption DEF EndHolds, Sees

\* Beside a request that creates a film, nobody has deleted a row.
LEMMA NothingDeleted ==
  ASSUME OwnedInv, OnlyCreators, NEW q \in Requests, Creating(q), Active(q)
  PROVE  /\ \A f \in Films : films[f] # NoRow => films[f].cut = None
         /\ \A l \in LabelIds : labels[l] # NoRow => labels[l].cut = None
         /\ \A f \in Films, l \in LabelIds : links[<<f, l>>] # NoRow => links[<<f, l>>].cut = None
<1>1. ASSUME NEW s \in Requests, req[s].pc \notin Fresh PROVE Creating(s)
  <2>1. Active(s) BY <1>1 DEF Active, Fresh
  <2> QED BY <2>1 DEF OnlyCreators
<1>2. ASSUME NEW f \in Films, films[f] # NoRow PROVE films[f].cut = None
  <2>1. films[f].cut \in Requests \cup {None} BY <1>2 DEF OwnedInv, TypeOK, Row, Txn
  <2> QED BY <1>1, <1>2, <2>1 DEF OwnedInv, Owned, FilmsOwned, Deletes
<1>3. ASSUME NEW l \in LabelIds, labels[l] # NoRow PROVE labels[l].cut = None
  <2>1. labels[l].cut \in Requests \cup {None} BY <1>3 DEF OwnedInv, TypeOK, LabelRow, Txn
  <2> QED BY <1>1, <1>3, <2>1 DEF OwnedInv, Owned, LabelsOwned, Deletes
<1>4. ASSUME NEW f \in Films, NEW l \in LabelIds, links[<<f, l>>] # NoRow
      PROVE  links[<<f, l>>].cut = None
  <2>1. links[<<f, l>>].cut \in Requests \cup {None} BY <1>4 DEF OwnedInv, TypeOK, Row, Txn
  <2> QED BY <1>1, <1>4, <2>1 DEF OwnedInv, Owned, LinksOwned, Deletes
<1> QED BY <1>2, <1>3, <1>4

\* What another's step does to a row that nobody has deleted, as q sees it: a statement, or
\* a rollback, ...
LEMMA RowKeptBeside ==
  ASSUME NEW r \in Requests, NEW q \in Requests, q # r, NEW row \in AnyRow,
         row # NoRow => row.cut = None, NEW new,
         \/ new = row \/ new = RowRolledBack(r, row)
         \/ row = NoRow /\ new # NoRow /\ new.by = r
  PROVE  /\ Sees(q, row) => new = row
         /\ Sees(q, new) => Sees(q, row)
<1>1. CASE new = RowRolledBack(r, row) BY <1>1, RowsBeside
<1>2. CASE row = NoRow /\ new # NoRow /\ new.by = r BY <1>2, RowAssumption DEF Sees
<1> QED BY <1>1, <1>2

\* ... and a commit.
LEMMA RowCommittedBeside ==
  ASSUME NEW r \in Requests, NEW q \in Requests, q # r, NEW row \in AnyRow,
         row # NoRow => row.cut = None, NEW new, new = RowCommitted(r, row)
  PROVE  /\ Sees(q, row) => new = row
         /\ Sees(q, new) => Sees(q, row) \/ (Inserts(r, row) /\ Sees(r, row))
         /\ Sees(r, row) => Sees(q, new)
<1>1. Inserts(r, row) => Sees(r, row) BY RowAssumption DEF Inserts, Sees
<1> QED BY <1>1, RowsBeside

\* What a creator sees of another's step: its rows stay as they are, and what is new to it is
\* what the other has just committed.
LEMMA RowsSeenBeside ==
  ASSUME OwnedInv, OnlyCreators, NEW r \in Requests, NEW q \in Requests, q # r,
         Active(q), Active(r), Serve(r)
  PROVE  /\ \A f \in Films :
              /\ Sees(q, films[f]) => films'[f] = films[f]
              /\ Sees(q, films'[f]) =>
                   Sees(q, films[f]) \/ (Commit(r) /\ Sees(r, films[f]))
              /\ Commit(r) /\ Sees(r, films[f]) => Sees(q, films'[f])
         /\ \A l \in LabelIds :
              /\ Sees(q, labels[l]) => labels'[l] = labels[l]
              /\ Sees(q, labels'[l]) =>
                   Sees(q, labels[l]) \/ (Commit(r) /\ Sees(r, labels[l]))
         /\ \A f \in Films, l \in LabelIds :
              /\ Sees(q, links[<<f, l>>]) => links'[<<f, l>>] = links[<<f, l>>]
              /\ Sees(q, links'[<<f, l>>]) =>
                   Sees(q, links[<<f, l>>]) \/ (Commit(r) /\ Inserts(r, links[<<f, l>>]))
              /\ Commit(r) /\ Sees(r, links[<<f, l>>]) => Sees(q, links'[<<f, l>>])
<1>1. Creating(r) /\ Creating(q) BY DEF OnlyCreators
<1>2. req[r].pc \in {"create", "assign", "link", "commit"} /\ TypeOK
  BY <1>1, CreatorsStay DEF OwnedInv
<1>3. ~UnlinkFilm(r) /\ ~Reap(r) /\ ~DeleteFilm(r) BY <1>2, Statements
<1>4. ASSUME NEW f \in Films
      PROVE  /\ Sees(q, films[f]) => films'[f] = films[f]
             /\ Sees(q, films'[f]) => Sees(q, films[f]) \/ (Commit(r) /\ Sees(r, films[f]))
             /\ Commit(r) /\ Sees(r, films[f]) => Sees(q, films'[f])
  <2>1. FilmChange(r, f) /\ films[f] \in AnyRow /\ (films[f] # NoRow => films[f].cut = None)
    BY <1>1, <1>2, FilmsChange, TablesTyped, NothingDeleted
  <2>2. CASE Commit(r)
    <3>1. films'[f] = RowCommitted(r, films[f]) BY <2>2 DEF Commit
    <3> QED BY <2>1, <2>2, <3>1, RowCommittedBeside
  <2>3. CASE ~Commit(r)
    <3>1. \/ films'[f] = films[f] \/ films'[f] = RowRolledBack(r, films[f])
          \/ films[f] = NoRow /\ films'[f] = [by |-> r, cut |-> None]
      BY <1>3, <2>1, <2>3 DEF FilmChange, Ends
    <3>2. [by |-> r, cut |-> None] # NoRow /\ [by |-> r, cut |-> None].by = r
      BY RowAssumption DEF Row, Txn
    <3>3. \/ films'[f] = films[f] \/ films'[f] = RowRolledBack(r, films[f])
          \/ films[f] = NoRow /\ films'[f] # NoRow /\ films'[f].by = r
      BY <3>1, <3>2
    <3> QED BY <2>1, <2>3, <3>3, RowKeptBeside
  <2> QED BY <2>2, <2>3
<1>5. ASSUME NEW l \in LabelIds
      PROVE  /\ Sees(q, labels[l]) => labels'[l] = labels[l]
             /\ Sees(q, labels'[l]) => Sees(q, labels[l]) \/ (Commit(r) /\ Sees(r, labels[l]))
  <2>1. LabelChange(r, l) /\ labels[l] \in AnyRow /\ (labels[l] # NoRow => labels[l].cut = None)
    BY <1>1, <1>2, LabelsChange, TablesTyped, NothingDeleted
  <2>2. CASE Commit(r)
    <3>1. labels'[l] = RowCommitted(r, labels[l]) BY <2>2 DEF Commit
    <3> QED BY <2>1, <2>2, <3>1, RowCommittedBeside
  <2>3. CASE ~Commit(r)
    <3>1. \/ labels'[l] = labels[l] \/ labels'[l] = RowRolledBack(r, labels[l])
          \/ /\ labels[l] = NoRow
             /\ \E n \in Names : labels'[l] = [name |-> n, by |-> r, cut |-> None]
      BY <1>3, <2>1, <2>3 DEF LabelChange, Ends
    <3>2. \A n \in Names : /\ [name |-> n, by |-> r, cut |-> None] # NoRow
                           /\ [name |-> n, by |-> r, cut |-> None].by = r
      BY NewRowsTyped
    <3>3. \/ labels'[l] = labels[l] \/ labels'[l] = RowRolledBack(r, labels[l])
          \/ labels[l] = NoRow /\ labels'[l] # NoRow /\ labels'[l].by = r
      BY <3>1, <3>2
    <3> QED BY <2>1, <2>3, <3>3, RowKeptBeside
  <2> QED BY <2>2, <2>3
<1>6. ASSUME NEW f \in Films, NEW l \in LabelIds
      PROVE  /\ Sees(q, links[<<f, l>>]) => links'[<<f, l>>] = links[<<f, l>>]
             /\ Sees(q, links'[<<f, l>>]) =>
                  Sees(q, links[<<f, l>>]) \/ (Commit(r) /\ Inserts(r, links[<<f, l>>]))
             /\ Commit(r) /\ Sees(r, links[<<f, l>>]) => Sees(q, links'[<<f, l>>])
  <2> DEFINE row == links[<<f, l>>]
             new == links'[<<f, l>>]
  <2>1. LinkChange(r, f, l) /\ row \in AnyRow /\ (row # NoRow => row.cut = None)
    BY <1>1, <1>2, LinksChange, TablesTyped, NothingDeleted
  <2>2. CASE Commit(r)
    <3>1. new = RowCommitted(r, row) BY <2>2 DEF Commit
    <3> HIDE DEF row, new
    <3> QED BY <2>1, <2>2, <3>1, RowCommittedBeside DEF row, new
  <2>3. CASE ~Commit(r)
    <3>1. \/ new = row \/ new = RowRolledBack(r, row)
          \/ row = NoRow /\ new = [by |-> r, cut |-> None]
      BY <1>3, <2>1, <2>3 DEF LinkChange, Ends
    <3>2. [by |-> r, cut |-> None] # NoRow /\ [by |-> r, cut |-> None].by = r
      BY RowAssumption DEF Row, Txn
    <3>3. \/ new = row \/ new = RowRolledBack(r, row)
          \/ row = NoRow /\ new # NoRow /\ new.by = r
      BY <3>1, <3>2
    <3> HIDE DEF row, new
    <3>4. /\ Sees(q, row) => new = row
          /\ Sees(q, new) => Sees(q, row)
      BY <2>1, <3>3, RowKeptBeside
    <3> QED BY <2>3, <3>4 DEF row, new
  <2> QED BY <2>2, <2>3
<1> QED BY <1>4, <1>5, <1>6

\* Nothing crosses, and every request in flight sees whole films and carried labels.
SerialView ==
    /\ OwnedInv /\ LinkEndsHold
    /\ OnlyCreators
    /\ \A r \in Requests : Active(r) => ViewHolds(r)

\* A creator's own film is not the one another creator commits.
LEMMA OthersLinks ==
  ASSUME SerialView, NEW r \in Requests, NEW q \in Requests, q # r,
         Active(q), Active(r), Serve(r), req[q].pc # "create"
  PROVE  /\ LinksSeen(q, req[q].film)' = LinksSeen(q, req[q].film)
         /\ NamesCarried(q)' = NamesCarried(q)
<1> DEFINE g == req[q].film
<1>1. req'[q] = req[q] /\ OwnedInv /\ OnlyCreators BY RequestStep DEF SerialView, OwnedInv
<1>2. g \in Films /\ films[g] # NoRow /\ films[g].by = q
  BY <1>1 DEF OnlyCreators, Creating
<1>3. ASSUME Commit(r), NEW l \in LabelIds, Inserts(r, links[<<g, l>>]) PROVE FALSE
  <2>1. g = req[r].film BY <1>1, <1>2, <1>3 DEF OwnedInv, Owned, LinksOwned
  <2>2. req[r].pc = "commit" BY <1>3 DEF Commit
  <2>3. films[g].by = r BY <1>1, <2>1, <2>2 DEF OnlyCreators, Creating
  <2> QED BY <1>2, <2>3
<1>4. \A l \in LabelIds : /\ Sees(q, links[<<g, l>>]) => links'[<<g, l>>] = links[<<g, l>>]
                          /\ Sees(q, links'[<<g, l>>]) => Sees(q, links[<<g, l>>])
  BY <1>1, <1>2, <1>3, RowsSeenBeside
<1>5. LinksSeen(q, req[q].film)' = {l \in LabelIds : Sees(q, links'[<<g, l>>])}
  BY <1>1 DEF LinksSeen, Sees
<1>6. LinksSeen(q, req[q].film)' = LinksSeen(q, g) BY <1>4, <1>5 DEF LinksSeen
<1>7. \A l \in LinksSeen(q, g) : labels'[l] = labels[l]
  <2> SUFFICES ASSUME NEW l \in LinksSeen(q, g) PROVE labels'[l] = labels[l] OBVIOUS
  <2>1. Sees(q, labels[l]) BY <1>1, <1>2, EndsSeen DEF SerialView, OwnedInv, LinksSeen
  <2> QED BY <1>1, <2>1, RowsSeenBeside DEF LinksSeen
<1>8. NamesCarried(q)' = {labels'[l].name : l \in LinksSeen(q, req[q].film)'}
  BY DEF NamesCarried
<1> QED BY <1>6, <1>7, <1>8 DEF NamesCarried

LEMMA OthersView ==
  ASSUME SerialView, NEW r \in Requests, NEW q \in Requests, q # r,
         Active(q), Active(r), Serve(r)
  PROVE  ViewHolds(q)'
<1>1. /\ req'[q] = req[q] /\ OwnedInv /\ OnlyCreators /\ TypeOK
      /\ Creating(q) /\ Creating(q)' /\ ViewHolds(q) /\ ViewHolds(r)
  BY RequestStep, CreatorsStay DEF SerialView, OwnedInv, OnlyCreators
<1>2. req[q].pc \in {"create", "assign", "link", "commit"} BY <1>1, CreatorsStay
<1>3. Commit(r) => req[r].pc = "commit" BY DEF Commit
<1>4. LabelsCarried(q)'
  <2> SUFFICES ASSUME NEW l \in LabelIds, Sees(q, labels'[l])
               PROVE  \/ \E f \in Films : Sees(q, links'[<<f, l>>])
                      \/ req[q].pc = "link" /\ l = req[q].picked
    BY <1>1 DEF LabelsCarried, Carried, Sees
  <2>1. CASE Sees(q, labels[l])
    <3>1. Carried(q, l) \/ (req[q].pc = "link" /\ l = req[q].picked)
      BY <1>1, <1>2, <2>1 DEF ViewHolds, LabelsCarried
    <3>2. ASSUME NEW f \in Films, Sees(q, links[<<f, l>>]) PROVE Sees(q, links'[<<f, l>>])
      <4>1. links'[<<f, l>>] = links[<<f, l>>] BY <1>1, <3>2, RowsSeenBeside
      <4> QED BY <3>2, <4>1
    <3> QED BY <3>1, <3>2 DEF Carried
  <2>2. CASE Commit(r) /\ Sees(r, labels[l])
    <3>1. Carried(r, l) BY <1>1, <1>3, <2>2 DEF ViewHolds, LabelsCarried
    <3> QED BY <1>1, <2>2, <3>1, RowsSeenBeside DEF Carried
  <2> QED BY <1>1, <2>1, <2>2, RowsSeenBeside
<1>5. FilmsCarry(q)'
  <2> SUFFICES ASSUME NEW f \in Films, Sees(q, films'[f])
               PROVE  \/ \E l \in LabelIds : Sees(q, links'[<<f, l>>])
                      \/ req[q].pc \in {"unlink", "assign", "link"} /\ f = req[q].film
    BY <1>1 DEF FilmsCarry, LinksSeen, Sees
  <2>1. CASE Sees(q, films[f])
    <3>1. \/ \E l \in LabelIds : Sees(q, links[<<f, l>>])
          \/ req[q].pc \in {"unlink", "assign", "link"} /\ f = req[q].film
      BY <1>1, <2>1 DEF ViewHolds, FilmsCarry, LinksSeen
    <3>2. ASSUME NEW l \in LabelIds, Sees(q, links[<<f, l>>]) PROVE Sees(q, links'[<<f, l>>])
      <4>1. links'[<<f, l>>] = links[<<f, l>>] BY <1>1, <3>2, RowsSeenBeside
      <4> QED BY <3>2, <4>1
    <3> QED BY <3>1, <3>2
  <2>2. CASE Commit(r) /\ Sees(r, films[f])
    <3>1. \E l \in LabelIds : Sees(r, links[<<f, l>>])
      BY <1>1, <1>3, <2>2 DEF ViewHolds, FilmsCarry, LinksSeen
    <3> QED BY <1>1, <2>2, <3>1, RowsSeenBeside
  <2> QED BY <1>1, <2>1, <2>2, RowsSeenBeside
<1>6. WishCarried(q)'
  <2>1. CASE req[q].pc = "create" BY <1>1, <2>1 DEF WishCarried
  <2>2. CASE req[q].pc # "create"
    <3>1. NamesCarried(q)' = NamesCarried(q) BY <2>2, OthersLinks
    <3>2. WishCarried(q) BY <1>1 DEF ViewHolds
    <3>3. req[q].pc = "link" => /\ req[q].picked \in LabelsSeen(q)'
                                /\ labels'[req[q].picked] = labels[req[q].picked]
      <4> SUFFICES ASSUME req[q].pc = "link"
                   PROVE  /\ req[q].picked \in LabelsSeen(q)'
                          /\ labels'[req[q].picked] = labels[req[q].picked]
        OBVIOUS
      <4>1. req[q].picked \in LabelIds /\ Sees(q, labels[req[q].picked])
        BY <3>2 DEF WishCarried, LabelsSeen
      <4>2. labels'[req[q].picked] = labels[req[q].picked] BY <1>1, <4>1, RowsSeenBeside
      <4> QED BY <4>1, <4>2 DEF LabelsSeen, Sees
    <3>4. req[q].pc \in {"assign", "link", "commit"} BY <1>2, <2>2
    <3> HIDE DEF NamesCarried, LabelsSeen, LinksSeen, Carried
    <3>5. CASE req[q].pc = "assign" BY <1>1, <3>1, <3>2, <3>5 DEF WishCarried
    <3>6. CASE req[q].pc = "link" BY <1>1, <3>1, <3>2, <3>3, <3>6 DEF WishCarried
    <3>7. CASE req[q].pc = "commit" BY <1>1, <3>1, <3>2, <3>7 DEF WishCarried
    <3> QED BY <3>4, <3>5, <3>6, <3>7
  <2> QED BY <2>1, <2>2
<1> QED BY <1>4, <1>5, <1>6 DEF ViewHolds

\* A request that has written nothing sees what is committed.
LEMMA IdleSees ==
  ASSUME OwnedInv, NEW r \in Requests, req[r].pc = "idle"
  PROVE  /\ \A f \in Films : Sees(r, films[f]) <=> Committed(films[f])
         /\ \A l \in LabelIds : Sees(r, labels[l]) <=> Committed(labels[l])
         /\ \A f \in Films, l \in LabelIds : Sees(r, links[<<f, l>>]) <=> Committed(links[<<f, l>>])
<1>1. /\ \A f \in Films : ~Inserts(r, films[f]) /\ ~Deletes(r, films[f])
      /\ \A l \in LabelIds : ~Inserts(r, labels[l]) /\ ~Deletes(r, labels[l])
      /\ \A f \in Films, l \in LabelIds :
           ~Inserts(r, links[<<f, l>>]) /\ ~Deletes(r, links[<<f, l>>])
  BY DEF OwnedInv, Owned, FilmsOwned, LabelsOwned, LinksOwned, Fresh
<1> QED BY <1>1 DEF Inserts, Deletes, Sees, Committed

\* Where the tables stay, so does what a request sees.
LEMMA SeenStays ==
  ASSUME UNCHANGED <<films, labels, links>>, NEW q \in Requests
  PROVE  /\ \A l \in LabelIds : /\ Sees(q, labels[l])' <=> Sees(q, labels[l])
                                /\ Carried(q, l)' <=> Carried(q, l)
         /\ \A f \in Films : /\ Sees(q, films[f])' <=> Sees(q, films[f])
                             /\ LinksSeen(q, f)' = LinksSeen(q, f)
         /\ LabelsSeen(q)' = LabelsSeen(q)
  BY DEF Sees, Carried, LinksSeen, LabelsSeen

LEMMA NamesCarriedStay ==
  ASSUME UNCHANGED <<labels, links>>, NEW q \in Requests, req'[q].film = req[q].film
  PROVE  /\ LinksSeen(q, req[q].film)' = LinksSeen(q, req[q].film)
         /\ NamesCarried(q)' = NamesCarried(q)
  BY DEF NamesCarried, LinksSeen, Sees

LEMMA ViewStays ==
  ASSUME UNCHANGED <<films, labels, links>>, NEW q \in Requests, req'[q] = req[q], ViewHolds(q)
  PROVE  ViewHolds(q)'
<1>1. Creating(q)' <=> Creating(q) BY DEF Creating
<1>2. LabelsCarried(q)' BY <1>1, SeenStays DEF ViewHolds, LabelsCarried
<1>3. FilmsCarry(q)' BY SeenStays DEF ViewHolds, FilmsCarry
<1>4. WishCarried(q)'
  <2>1. /\ NamesCarried(q)' = NamesCarried(q)
        /\ LinksSeen(q, req[q].film)' = LinksSeen(q, req[q].film)
    BY NamesCarriedStay
  <2>2. \A l \in LabelIds : Carried(q, l)' <=> Carried(q, l) BY SeenStays
  <2>3. LabelsSeen(q)' = LabelsSeen(q) BY SeenStays
  <2>4. WishCarried(q) BY DEF ViewHolds
  <2>5. CASE req[q].pc = "reap"
    <3>1. \A l \in req[q].doomed : Carried(q, l)' <=> Carried(q, l)
      BY DEF Carried, Sees
    <3> QED BY <2>1, <2>4, <2>5, <3>1 DEF WishCarried
  <2>6. CASE req[q].pc # "reap"
    BY <2>1, <2>3, <2>4, <2>6 DEF WishCarried
  <2> QED BY <2>5, <2>6
<1> QED BY <1>2, <1>3, <1>4 DEF ViewHolds

LEMMA BeginView ==
  ASSUME OwnedInv, EveryLabelCarried, EveryFilmLabelled, NEW r \in Requests, Begin(r)
  PROVE  ViewHolds(r)'
<1>1. UNCHANGED <<films, labels, links>> /\ req[r].pc = "idle" BY DEF Begin
<1>2. req'[r].pc \in {"create", "list", "delete_find"} BY Statements DEF OwnedInv
<1>3. LabelsCarried(r)'
  BY <1>1, SeenStays, IdleSees DEF LabelsCarried, Carried, EveryLabelCarried
<1>4. FilmsCarry(r)'
  BY <1>1, SeenStays, IdleSees DEF FilmsCarry, LinksSeen, EveryFilmLabelled
<1>5. WishCarried(r)' BY <1>2 DEF WishCarried
<1> QED BY <1>3, <1>4, <1>5 DEF ViewHolds

LEMMA OnlyCreatorsStep ==
  ASSUME OwnedInv, OnlyCreators, NEW r \in Requests, (Begin(r) /\ ~Crosses(r)) \/ Serve(r)
  PROVE  OnlyCreators'
<1> USE DEF OwnedInv
<1>1. \A q \in Requests \ {r} : req'[q] = req[q] BY RequestStep
<1>2. CASE Begin(r) /\ ~Crosses(r)
  <2>1. \A q \in Requests \ {r} : Active(q) => Creating(q) /\ req'[r].pc = "create"
    BY <1>2 DEF Crosses, Active
  <2>2. \A q \in Requests \ {r} : Creating(q)' <=> Creating(q)
    BY <1>1, <1>2 DEF Begin, Creating
  <2>3. ASSUME NEW q \in Requests, NEW s \in Requests, q # s, Active(q)', Active(s)'
        PROVE  Creating(q)'
    <3>1. CASE q = r
      <4>1. Active(s) BY <1>1, <2>3, <3>1 DEF Active
      <4> QED BY <2>1, <2>3, <3>1, <4>1 DEF Creating
    <3>2. CASE q # r
      <4>1. Active(q) BY <1>1, <2>3, <3>2 DEF Active
      <4> QED BY <2>1, <2>2, <3>2, <4>1
    <3> QED BY <3>1, <3>2
  <2> QED BY <2>3 DEF OnlyCreators
<1>3. CASE Serve(r)
  <2>1. Active(r)
    BY <1>3, Statements
    DEF Serve, Active, Commit, Abort, CreateFilm, ListForFilm, UnlinkFilm, GetOrCreate, LinkFilm,
        AllAssigned, Sweep, Reap, Save, FindFilm, DeleteFilm
  <2>2. Commit(r) \/ Abort(r) => ~Active(r)'
    BY DEF Commit, Abort, Finish, Active, Idle, TypeOK
  <2>3. ASSUME NEW q \in Requests, NEW s \in Requests, q # s, Active(q)', Active(s)'
        PROVE  Creating(q)'
    <3>1. Active(q) /\ Active(s) BY <1>1, <2>1, <2>3 DEF Active
    <3>2. Creating(q) BY <2>3, <3>1 DEF OnlyCreators
    <3> QED BY <1>3, <2>2, <2>3, <3>2, CreatorsStay
  <2> QED BY <2>3 DEF OnlyCreators
<1> QED BY <1>2, <1>3

-----------------------------------------------------------------------------
(* What a request sees of its own statements *)

\* The statements that only read.
LEMMA ListView ==
  ASSUME SerialView, NEW r \in Requests, ListForFilm(r), ViewHolds(r), Active(r)'
  PROVE  ViewHolds(r)'
<1> DEFINE g == req[r].film
<1>1. /\ UNCHANGED <<films, labels, links>> /\ req[r].pc = "list" /\ TypeOK /\ g \in Films
  BY DEF SerialView, OwnedInv, WishKept, Active, ListForFilm
<1>2. /\ req'[r].pc = "unlink" /\ req'[r].film = g /\ req'[r].wish = req[r].wish
      /\ req'[r].doomed = Unwanted(r, g)
  BY <1>1 DEF ListForFilm, TypeOK, Request, Active, Idle
<1>3. LabelsCarried(r)' BY <1>1, SeenStays DEF ViewHolds, LabelsCarried
<1>4. FilmsCarry(r)' BY <1>1, SeenStays DEF ViewHolds, FilmsCarry
<1>5. \A l \in LinksSeen(r, g) : labels[l].name \in req[r].wish \/ l \in Unwanted(r, g)
  <2> SUFFICES ASSUME NEW l \in LinksSeen(r, g)
               PROVE  labels[l].name \in req[r].wish \/ l \in Unwanted(r, g)
    OBVIOUS
  <2>1. l \in LabelsSeen(r) BY <1>1, EndsSeen DEF SerialView, LinksSeen, LabelsSeen
  <2> QED BY <2>1 DEF Unwanted
<1>6. LinksSeen(r, req[r].film)' = LinksSeen(r, g) BY <1>1, <1>2, NamesCarriedStay
<1>7. WishCarried(r)' BY <1>1, <1>2, <1>5, <1>6 DEF WishCarried
<1> QED BY <1>3, <1>4, <1>7 DEF ViewHolds

LEMMA AssignedView ==
  ASSUME SerialView, NEW r \in Requests, AllAssigned(r), ViewHolds(r)
  PROVE  ViewHolds(r)'
<1> DEFINE g == req[r].film
<1>1. /\ UNCHANGED <<films, labels, links>> /\ req[r].pc = "assign" /\ TypeOK /\ g \in Films
      /\ req[r].todo = {} /\ req[r].wish # {}
  BY DEF SerialView, OwnedInv, WishKept, Active, AllAssigned
<1>2. /\ req'[r].film = g /\ req'[r].wish = req[r].wish
      /\ req'[r].pc = IF films[g] # NoRow /\ films[g].by = r THEN "commit" ELSE "sweep"
  BY <1>1 DEF AllAssigned, Goto, TypeOK, Request
<1>3. Creating(r) <=> req'[r].pc = "commit" BY <1>1, <1>2 DEF Creating
<1>4. Creating(r)' <=> req'[r].pc = "commit" BY <1>1, <1>2 DEF Creating
<1>5. req'[r].pc \in {"sweep", "commit"} BY <1>2
<1>6. NamesCarried(r)' = NamesCarried(r) /\ NamesCarried(r) = req[r].wish
  BY <1>1, <1>2, NamesCarriedStay DEF ViewHolds, WishCarried
<1>7. LabelsCarried(r)'
  BY <1>1, <1>3, <1>4, <1>5, SeenStays DEF ViewHolds, LabelsCarried
<1>8. FilmsCarry(r)'
  <2>1. LinksSeen(r, g) # {} BY <1>1, <1>6 DEF NamesCarried
  <2> QED BY <1>1, <2>1, SeenStays DEF ViewHolds, FilmsCarry
<1>9. WishCarried(r)' BY <1>2, <1>5, <1>6 DEF WishCarried
<1> QED BY <1>7, <1>8, <1>9 DEF ViewHolds

LEMMA SweepView ==
  ASSUME SerialView, NEW r \in Requests, Sweep(r), ViewHolds(r)
  PROVE  ViewHolds(r)'
<1>1. /\ UNCHANGED <<films, labels, links>> /\ req[r].pc = "sweep" /\ TypeOK
  BY DEF SerialView, OwnedInv, Sweep
<1>2. /\ req'[r].film = req[r].film /\ req'[r].wish = req[r].wish
      /\ req'[r].pc = "reap" /\ req'[r].doomed = Orphans(r)
  BY <1>1 DEF Sweep, TypeOK, Request
<1>3. NamesCarried(r)' = NamesCarried(r) BY <1>1, <1>2, NamesCarriedStay
<1>4. \A l \in LabelIds : l \in Orphans(r) <=> Sees(r, labels[l]) /\ ~Carried(r, l)
  BY DEF Orphans, LabelsSeen, Carried
<1>5. Orphans(r) \subseteq LabelIds BY DEF Orphans, LabelsSeen
<1>6. LabelsCarried(r)' BY <1>1, <1>2, <1>4, SeenStays DEF ViewHolds, LabelsCarried
<1>7. FilmsCarry(r)' BY <1>1, SeenStays DEF ViewHolds, FilmsCarry
<1>8. WishCarried(r)'
  BY <1>1, <1>2, <1>3, <1>4, <1>5, SeenStays DEF ViewHolds, WishCarried
<1> QED BY <1>6, <1>7, <1>8 DEF ViewHolds

LEMMA SaveView ==
  ASSUME SerialView, NEW r \in Requests, Save(r), ViewHolds(r)
  PROVE  ViewHolds(r)'
<1>1. /\ UNCHANGED <<films, labels, links>> /\ req[r].pc = "save" /\ TypeOK
  BY DEF SerialView, OwnedInv, Save
<1>2. req'[r].film = req[r].film /\ req'[r].wish = req[r].wish /\ req'[r].pc = "commit"
  BY <1>1 DEF Save, Goto, TypeOK, Request
<1>3. NamesCarried(r)' = NamesCarried(r) BY <1>1, <1>2, NamesCarriedStay
<1>4. LabelsCarried(r)' BY <1>1, SeenStays DEF ViewHolds, LabelsCarried
<1>5. FilmsCarry(r)' BY <1>1, SeenStays DEF ViewHolds, FilmsCarry
<1>6. WishCarried(r)' BY <1>1, <1>2, <1>3 DEF ViewHolds, WishCarried
<1> QED BY <1>4, <1>5, <1>6 DEF ViewHolds

LEMMA FindView ==
  ASSUME SerialView, NEW r \in Requests, FindFilm(r), ViewHolds(r), Active(r)'
  PROVE  ViewHolds(r)'
<1>1. /\ UNCHANGED <<films, labels, links>> /\ req[r].pc = "delete_find" /\ TypeOK
  BY DEF SerialView, OwnedInv, FindFilm
<1>2. req'[r].pc = "delete" BY <1>1, Statements DEF Active
<1>3. LabelsCarried(r)' BY <1>1, SeenStays DEF ViewHolds, LabelsCarried
<1>4. FilmsCarry(r)' BY <1>1, SeenStays DEF ViewHolds, FilmsCarry
<1>5. WishCarried(r)' BY <1>2 DEF WishCarried
<1> QED BY <1>3, <1>4, <1>5 DEF ViewHolds

\* The statements that write.
LEMMA UnlinkView ==
  ASSUME SerialView, NEW r \in Requests, UnlinkFilm(r), ViewHolds(r)
  PROVE  ViewHolds(r)'
<1> DEFINE g == req[r].film
<1>1. /\ UNCHANGED <<films, labels>> /\ req[r].pc = "unlink" /\ TypeOK /\ g \in Films
      /\ req[r].todo = req[r].wish /\ OwnedInv
  BY DEF SerialView, OwnedInv, WishKept, Active, UnlinkFilm
<1>2. req'[r].film = g /\ req'[r].wish = req[r].wish /\ req'[r].pc \in {"unlink", "assign"}
  BY <1>1, Statements DEF Moves, Idle
<1>3. ~Creating(r)'
  <2>1. ~Creating(r) BY <1>1, CreatorsStay DEF Serve
  <2> QED BY <1>1, <1>2, <2>1 DEF Creating
<1>4. LabelsCarried(r)' BY <1>2, <1>3 DEF LabelsCarried
<1>5. /\ links \in [Films \X LabelIds -> Row \cup {NoRow}]
      /\ req \in [Requests -> Request]
  BY <1>1 DEF TypeOK
<1>6. \A f \in Films : f # g => \A l \in LabelIds : links'[<<f, l>>] = links[<<f, l>>]
  <2>1. PICK m : UNCHANGED links \/ links' = [links EXCEPT ![<<g, m>>] = Cut(r, @)]
    BY DEF UnlinkFilm
  <2> QED BY <1>5, <2>1
<1>7. FilmsCarry(r)'
  <2>1. \A f \in Films : f # g => (LinksSeen(r, f)' = LinksSeen(r, f))
    BY <1>6 DEF LinksSeen, Sees
  <2>2. \A f \in Films : Sees(r, films[f])' <=> Sees(r, films[f]) BY <1>1 DEF Sees
  <2> QED BY <1>1, <1>2, <2>1, <2>2 DEF ViewHolds, FilmsCarry
<1>8. WishCarried(r)'
  <2>0. \A l \in LinksSeen(r, g) : labels[l].name \in req[r].wish \/ l \in req[r].doomed
    BY <1>1 DEF ViewHolds, WishCarried
  <2>1. CASE req[r].doomed = {} /\ Goto(r, "assign") /\ UNCHANGED links
    <3>1. req'[r].pc = "assign" /\ req'[r].todo = req[r].todo
      BY <1>5, <2>1 DEF Goto, Request
    <3>2. NamesCarried(r)' = NamesCarried(r) BY <1>1, <1>2, <2>1, NamesCarriedStay
    <3>3. NamesCarried(r) \subseteq req[r].wish BY <2>0, <2>1 DEF NamesCarried
    <3> QED BY <1>1, <1>2, <3>1, <3>2, <3>3 DEF WishCarried
  <2>2. ASSUME NEW l \in req[r].doomed, req' = [req EXCEPT ![r].doomed = @ \ {l}],
               links' = IF Sees(r, links[<<g, l>>])
                          THEN [links EXCEPT ![<<g, l>>] = Cut(r, @)] ELSE links
        PROVE  WishCarried(r)'
    <3>1. req'[r].pc = "unlink" /\ req'[r].doomed = req[r].doomed \ {l}
      BY <1>1, <1>5, <2>2 DEF Request
    <3>2. l \in LabelIds BY <1>5 DEF Request
    <3>3. ~Sees(r, links'[<<g, l>>])
      <4>1. links[<<g, l>>] \in AnyRow BY <1>1, <3>2, TablesTyped
      <4>2. ~Sees(r, Cut(r, links[<<g, l>>])) BY <4>1, RowsSeen
      <4> QED BY <1>1, <1>5, <2>2, <3>2, <4>2
    <3>4. \A m \in LabelIds : m # l => links'[<<g, m>>] = links[<<g, m>>] BY <1>5, <2>2
    <3>5. LinksSeen(r, req[r].film)' = {m \in LabelIds : Sees(r, links'[<<g, m>>])}
      BY <1>2 DEF LinksSeen, Sees
    <3>6. \A m \in LinksSeen(r, req[r].film)' : m \in LinksSeen(r, g) /\ m # l
      BY <3>3, <3>4, <3>5 DEF LinksSeen
    <3> QED BY <1>1, <1>2, <2>0, <3>1, <3>6 DEF WishCarried
  <2>3. \/ req[r].doomed = {} /\ Goto(r, "assign") /\ UNCHANGED links
        \/ \E l \in req[r].doomed :
             /\ req' = [req EXCEPT ![r].doomed = @ \ {l}]
             /\ links' = IF Sees(r, links[<<g, l>>])
                           THEN [links EXCEPT ![<<g, l>>] = Cut(r, @)] ELSE links
    BY DEF UnlinkFilm
  <2> QED BY <2>1, <2>2, <2>3
<1> QED BY <1>4, <1>7, <1>8 DEF ViewHolds

LEMMA CreateView ==
  ASSUME SerialView, NEW r \in Requests, CreateFilm(r), ViewHolds(r)
  PROVE  ViewHolds(r)'
<1> DEFINE g == req[r].film
<1>1. /\ UNCHANGED <<labels, links>> /\ req[r].pc = "create" /\ TypeOK /\ g \in Films
      /\ req[r].todo = req[r].wish /\ films[g] = NoRow
      /\ films' = [films EXCEPT ![g] = [by |-> r, cut |-> None]]
  BY DEF SerialView, OwnedInv, WishKept, Active, CreateFilm
<1>2. /\ req'[r].film = g /\ req'[r].wish = req[r].wish /\ req'[r].todo = req[r].todo
      /\ req'[r].pc = "assign"
  BY <1>1 DEF CreateFilm, Goto, TypeOK, Request
<1>3. LabelsCarried(r)'
  <2>1. \A l \in LabelIds : /\ Sees(r, labels[l])' <=> Sees(r, labels[l])
                            /\ Carried(r, l)' <=> Carried(r, l)
    BY <1>1 DEF Sees, Carried
  <2> QED BY <1>1, <2>1 DEF ViewHolds, LabelsCarried
<1>4. FilmsCarry(r)'
  <2>1. \A f \in Films : f # g => (Sees(r, films[f])' <=> Sees(r, films[f]))
    BY <1>1 DEF Sees, TypeOK
  <2>2. \A f \in Films : LinksSeen(r, f)' = LinksSeen(r, f) BY <1>1 DEF Sees, LinksSeen
  <2> QED BY <1>1, <1>2, <2>1, <2>2 DEF ViewHolds, FilmsCarry
<1>5. WishCarried(r)'
  <2>1. LinksSeen(r, g) = {}
    BY <1>1 DEF SerialView, LinkEndsHold, EndHolds, LinksSeen, Sees
  <2>2. NamesCarried(r)' = {}
    <3>1. NamesCarried(r)' = NamesCarried(r) BY <1>1, <1>2, NamesCarriedStay
    <3> QED BY <2>1, <3>1 DEF NamesCarried
  <2> QED BY <1>1, <1>2, <2>2 DEF WishCarried
<1> QED BY <1>3, <1>4, <1>5 DEF ViewHolds

\* get_or_create leaves every label that the request sees, and picks one of that name.
LEMMA PickedLabel ==
  ASSUME TypeOK, NEW r \in Requests, GetOrCreate(r)
  PROVE  \E n \in req[r].todo, l \in LabelIds :
           /\ req'[r].pc = "link" /\ req'[r].film = req[r].film
           /\ req'[r].wish = req[r].wish
           /\ req'[r].picked = l /\ req'[r].todo = req[r].todo \ {n}
           /\ Sees(r, labels'[l]) /\ labels'[l].name = n
           /\ \A m \in LabelIds : Sees(r, labels[m]) => labels'[m] = labels[m]
           /\ \A m \in LabelIds : Sees(r, labels'[m]) => Sees(r, labels[m]) \/ m = l
<1>1. /\ req \in [Requests -> Request] /\ req[r].todo \subseteq Names
      /\ labels \in [LabelIds -> LabelRow \cup {NoRow}]
  BY DEF TypeOK, Request
<1>2. PICK n \in req[r].todo, l \in LabelIds :
        /\ req' = [req EXCEPT ![r].pc = "link", ![r].picked = l, ![r].todo = @ \ {n}]
        /\ \/ UNCHANGED labels /\ Sees(r, labels[l]) /\ labels[l].name = n
           \/ /\ labels[l] = NoRow
              /\ labels' = [labels EXCEPT ![l] = [name |-> n, by |-> r, cut |-> None]]
  BY DEF GetOrCreate, LabelsSeen
<1>3. /\ req'[r].pc = "link" /\ req'[r].film = req[r].film
      /\ req'[r].wish = req[r].wish
      /\ req'[r].picked = l /\ req'[r].todo = req[r].todo \ {n}
  BY <1>1, <1>2 DEF Request
<1>4. CASE UNCHANGED labels /\ Sees(r, labels[l]) /\ labels[l].name = n
  BY <1>3, <1>4
<1>5. CASE /\ labels[l] = NoRow
           /\ labels' = [labels EXCEPT ![l] = [name |-> n, by |-> r, cut |-> None]]
  <2>1. labels'[l] = [name |-> n, by |-> r, cut |-> None] BY <1>1, <1>5
  <2>2. \A m \in LabelIds : m # l => labels'[m] = labels[m] BY <1>1, <1>5
  <2>3. [name |-> n, by |-> r, cut |-> None] # NoRow BY <1>1, NewRowsTyped
  <2>4. Sees(r, labels'[l]) BY <2>1, <2>3, NewRow
  <2>5. ~Sees(r, labels[l]) BY <1>5 DEF Sees
  <2>6. labels'[l].name = n BY <2>1
  <2> QED BY <1>3, <2>2, <2>4, <2>5, <2>6
<1> QED BY <1>2, <1>4, <1>5

LEMMA GetView ==
  ASSUME SerialView, NEW r \in Requests, GetOrCreate(r), ViewHolds(r)
  PROVE  ViewHolds(r)'
<1> DEFINE g == req[r].film
<1>1. /\ UNCHANGED <<films, links>> /\ req[r].pc = "assign" /\ TypeOK /\ g \in Films
      /\ req[r].todo \subseteq req[r].wish /\ LinkEndsHold
  BY DEF SerialView, OwnedInv, WishKept, Active, GetOrCreate
<1>2. PICK n \in req[r].todo, l \in LabelIds :
        /\ req'[r].pc = "link" /\ req'[r].film = g /\ req'[r].wish = req[r].wish
        /\ req'[r].picked = l /\ req'[r].todo = req[r].todo \ {n}
        /\ Sees(r, labels'[l]) /\ labels'[l].name = n
        /\ \A m \in LabelIds : Sees(r, labels[m]) => labels'[m] = labels[m]
        /\ \A m \in LabelIds : Sees(r, labels'[m]) => Sees(r, labels[m]) \/ m = l
  BY <1>1, PickedLabel
<1>3. Creating(r)' <=> Creating(r) BY <1>1, <1>2 DEF Creating
<1>4. LabelsCarried(r)'
  <2>1. \A m \in LabelIds : Carried(r, m)' <=> Carried(r, m) BY <1>1 DEF Carried, Sees
  <2>2. \A m \in LabelIds : Sees(r, labels[m])' => Sees(r, labels[m]) \/ m = l
    BY <1>2 DEF Sees
  <2> QED BY <1>1, <1>2, <1>3, <2>1, <2>2 DEF ViewHolds, LabelsCarried
<1>5. FilmsCarry(r)'
  <2>1. \A f \in Films : /\ Sees(r, films[f])' <=> Sees(r, films[f])
                         /\ LinksSeen(r, f)' = LinksSeen(r, f)
    BY <1>1 DEF Sees, LinksSeen
  <2> QED BY <1>1, <1>2, <2>1 DEF ViewHolds, FilmsCarry
<1>6. WishCarried(r)'
  <2>1. LinksSeen(r, req[r].film)' = LinksSeen(r, g) BY <1>1, <1>2 DEF LinksSeen, Sees
  <2>2. \A m \in LinksSeen(r, g) : labels'[m] = labels[m]
    <3> SUFFICES ASSUME NEW m \in LinksSeen(r, g) PROVE labels'[m] = labels[m] OBVIOUS
    <3>1. m \in LabelIds /\ Sees(r, labels[m]) BY <1>1, EndsSeen DEF LinksSeen
    <3> QED BY <1>2, <3>1
  <2>3. NamesCarried(r)' = {labels'[m].name : m \in LinksSeen(r, req[r].film)'}
    BY DEF NamesCarried
  <2>4. NamesCarried(r)' = NamesCarried(r) BY <2>1, <2>2, <2>3 DEF NamesCarried
  <2>5. NamesCarried(r) \subseteq req[r].wish
        /\ req[r].wish \subseteq NamesCarried(r) \cup req[r].todo
    BY <1>1 DEF ViewHolds, WishCarried
  <2>6. l \in LabelsSeen(r)' BY <1>2 DEF LabelsSeen, Sees
  <2> HIDE DEF g
  <2> QED BY <1>1, <1>2, <2>4, <2>5, <2>6 DEF WishCarried
<1> QED BY <1>4, <1>5, <1>6 DEF ViewHolds

LEMMA LinkView ==
  ASSUME SerialView, NEW r \in Requests, LinkFilm(r), ViewHolds(r)
  PROVE  ViewHolds(r)'
<1> DEFINE g == req[r].film
           l == req[r].picked
<1>1. /\ UNCHANGED <<films, labels>> /\ req[r].pc = "link" /\ TypeOK /\ g \in Films
      /\ LinkEndsHold /\ l \in LabelIds /\ Sees(r, labels[l])
      /\ req' = [req EXCEPT ![r].pc = "assign", ![r].picked = NoLabel]
  BY DEF SerialView, OwnedInv, WishKept, Active, LinkFilm, ViewHolds, WishCarried, LabelsSeen
<1>2. /\ req'[r].film = g /\ req'[r].wish = req[r].wish /\ req'[r].todo = req[r].todo
      /\ req'[r].pc = "assign"
  BY <1>1 DEF TypeOK, Request
<1>3. /\ Sees(r, links'[<<g, l>>])
      /\ \A f \in Films, m \in LabelIds :
           <<f, m>> # <<g, l>> => links'[<<f, m>>] = links[<<f, m>>]
      /\ Sees(r, links[<<g, l>>]) => links'[<<g, l>>] = links[<<g, l>>]
  <2>1. links \in [Films \X LabelIds -> Row \cup {NoRow}] /\ <<g, l>> \in Films \X LabelIds
    BY <1>1 DEF TypeOK
  <2>2. CASE Sees(r, links[<<g, l>>]) /\ UNCHANGED links BY <2>2
  <2>3. CASE /\ links[<<g, l>>] = NoRow
             /\ links' = [links EXCEPT ![<<g, l>>] = [by |-> r, cut |-> None]]
    <3>1. links'[<<g, l>>] = [by |-> r, cut |-> None] BY <2>1, <2>3
    <3>2. [by |-> r, cut |-> None] # NoRow BY RowAssumption DEF Row, Txn
    <3>3. Sees(r, links'[<<g, l>>]) BY <3>1, <3>2, NewRow
    <3>4. ~Sees(r, links[<<g, l>>]) BY <2>3 DEF Sees
    <3>5. \A f \in Films, m \in LabelIds :
            <<f, m>> # <<g, l>> => links'[<<f, m>>] = links[<<f, m>>]
      BY <2>1, <2>3
    <3> QED BY <3>3, <3>4, <3>5
  <2> QED BY <2>2, <2>3 DEF LinkFilm
<1>4. \A f \in Films, m \in LabelIds : Sees(r, links[<<f, m>>]) => Sees(r, links'[<<f, m>>])
  <2> SUFFICES ASSUME NEW f \in Films, NEW m \in LabelIds, Sees(r, links[<<f, m>>])
               PROVE  Sees(r, links'[<<f, m>>])
    OBVIOUS
  <2> QED BY <1>3
<1>5. Creating(r)' <=> Creating(r) BY <1>1, <1>2 DEF Creating
<1>6. LabelsCarried(r)'
  <2>1. \A m \in LabelIds : Carried(r, m) => Carried(r, m)' BY <1>4 DEF Carried, Sees
  <2>2. \A m \in LabelIds : m = l => Carried(r, m)' BY <1>1, <1>3 DEF Carried, Sees
  <2>3. \A m \in LabelIds : Sees(r, labels[m])' <=> Sees(r, labels[m]) BY <1>1 DEF Sees
  <2> QED BY <1>1, <1>2, <1>5, <2>1, <2>2, <2>3 DEF ViewHolds, LabelsCarried
<1>7. FilmsCarry(r)'
  <2>1. \A f \in Films : Sees(r, films[f])' <=> Sees(r, films[f]) BY <1>1 DEF Sees
  <2>2. \A f \in Films : LinksSeen(r, f) \subseteq LinksSeen(r, f)' BY <1>4 DEF LinksSeen, Sees
  <2> QED BY <1>1, <1>2, <2>1, <2>2 DEF ViewHolds, FilmsCarry
<1>8. WishCarried(r)'
  <2>1. LinksSeen(r, req[r].film)' = {m \in LabelIds : Sees(r, links'[<<g, m>>])}
    BY <1>2 DEF LinksSeen, Sees
  <2>2. \A m \in LabelIds : m # l => links'[<<g, m>>] = links[<<g, m>>]
    <3> SUFFICES ASSUME NEW m \in LabelIds, m # l PROVE links'[<<g, m>>] = links[<<g, m>>]
      OBVIOUS
    <3>1. <<g, m>> # <<g, l>> OBVIOUS
    <3> QED BY <1>1, <1>3, <3>1
  <2>3. LinksSeen(r, req[r].film)' = LinksSeen(r, g) \cup {l}
    BY <1>1, <1>3, <2>1, <2>2 DEF LinksSeen
  <2>4. NamesCarried(r)' = {labels[m].name : m \in LinksSeen(r, req[r].film)'}
    BY <1>1 DEF NamesCarried
  <2>5. NamesCarried(r)' = NamesCarried(r) \cup {labels[l].name} BY <2>3, <2>4 DEF NamesCarried
  <2>6. /\ labels[l].name \in req[r].wish /\ NamesCarried(r) \subseteq req[r].wish
        /\ req[r].wish \subseteq NamesCarried(r) \cup req[r].todo \cup {labels[l].name}
    BY <1>1 DEF ViewHolds, WishCarried
  <2> QED BY <1>1, <1>2, <2>5, <2>6 DEF WishCarried
<1> QED BY <1>6, <1>7, <1>8 DEF ViewHolds

LEMMA ReapView ==
  ASSUME SerialView, NEW r \in Requests, Reap(r), ViewHolds(r)
  PROVE  ViewHolds(r)'
<1>1. UNCHANGED films /\ req[r].pc = "reap" /\ TypeOK
  BY DEF SerialView, OwnedInv, Reap
<1>2. req'[r].film = req[r].film /\ req'[r].wish = req[r].wish
  BY <1>1, Statements DEF Moves, Idle
<1>3. /\ links \in [Films \X LabelIds -> Row \cup {NoRow}]
      /\ labels \in [LabelIds -> LabelRow \cup {NoRow}]
      /\ req \in [Requests -> Request]
      /\ req[r].doomed \subseteq LabelIds
  BY <1>1 DEF TypeOK, Request
<1>4. CASE req[r].doomed = {} /\ Goto(r, "save") /\ UNCHANGED <<labels, links>>
  <2>1. req'[r].pc = "save" BY <1>3, <1>4 DEF Goto, Request
  <2>2. NamesCarried(r)' = NamesCarried(r) BY <1>2, <1>4, NamesCarriedStay
  <2>3. LabelsCarried(r)' BY <1>1, <1>4, SeenStays DEF ViewHolds, LabelsCarried
  <2>4. FilmsCarry(r)' BY <1>1, <1>4, SeenStays DEF ViewHolds, FilmsCarry
  <2>5. WishCarried(r)' BY <1>1, <1>2, <2>1, <2>2 DEF ViewHolds, WishCarried
  <2> QED BY <2>3, <2>4, <2>5 DEF ViewHolds
<1>5. ASSUME NEW l \in req[r].doomed,
             labels' = [labels EXCEPT ![l] = Cut(r, @)],
             links' = [fl \in Films \X LabelIds |->
                         IF fl[2] = l THEN Cut(r, links[fl]) ELSE links[fl]],
             req' = [req EXCEPT ![r].doomed = @ \ {l}]
      PROVE  ViewHolds(r)'
  <2>1. req'[r].pc = "reap" /\ req'[r].doomed = req[r].doomed \ {l}
    BY <1>1, <1>3, <1>5 DEF Request
  <2>2. l \in LabelIds BY <1>3
  <2>3. ~Sees(r, labels'[l])
    <3>1. labels[l] \in AnyRow BY <1>1, <2>2, TablesTyped
    <3>2. ~Sees(r, Cut(r, labels[l])) BY <3>1, RowsSeen
    <3> QED BY <1>3, <1>5, <2>2, <3>2
  <2>4. \A m \in LabelIds : m # l => labels'[m] = labels[m] BY <1>3, <1>5
  <2>5. ~Carried(r, l) BY <1>1 DEF ViewHolds, WishCarried
  <2>6. \A f \in Films, m \in LabelIds : Sees(r, links'[<<f, m>>]) <=> Sees(r, links[<<f, m>>])
    <3> SUFFICES ASSUME NEW f \in Films, NEW m \in LabelIds
                 PROVE  Sees(r, links'[<<f, m>>]) <=> Sees(r, links[<<f, m>>])
      OBVIOUS
    <3>1. CASE m = l
      <4>1. links[<<f, m>>] \in AnyRow BY <1>1, TablesTyped
      <4>2. ~Sees(r, Cut(r, links[<<f, m>>])) BY <4>1, RowsSeen
      <4>3. links'[<<f, m>>] = Cut(r, links[<<f, m>>]) BY <1>5, <3>1
      <4> QED BY <2>5, <3>1, <4>2, <4>3 DEF Carried
    <3>2. CASE m # l
      <4>1. links'[<<f, m>>] = links[<<f, m>>] BY <1>5, <3>2
      <4> QED BY <4>1
    <3> QED BY <3>1, <3>2
  <2>7. /\ \A m \in LabelIds : Carried(r, m)' <=> Carried(r, m)
        /\ \A f \in Films : LinksSeen(r, f)' = LinksSeen(r, f)
    BY <2>6 DEF Carried, LinksSeen, Sees
  <2>8. LabelsCarried(r)'
    <3>1. \A m \in LabelIds : Sees(r, labels[m])' => Sees(r, labels[m]) /\ m # l
      BY <2>3, <2>4 DEF Sees
    <3> QED BY <1>1, <2>1, <2>7, <3>1 DEF ViewHolds, LabelsCarried
  <2>9. FilmsCarry(r)'
    <3>1. \A f \in Films : Sees(r, films[f])' <=> Sees(r, films[f]) BY <1>1 DEF Sees
    <3> QED BY <1>1, <2>7, <3>1 DEF ViewHolds, FilmsCarry
  <2>10. WishCarried(r)'
    <3>0. req[r].film \in Films BY <1>1 DEF SerialView, OwnedInv, WishKept, Active
    <3>1. LinksSeen(r, req[r].film)' = LinksSeen(r, req[r].film)
      BY <1>2, <2>6, <3>0 DEF LinksSeen, Sees
    <3>2. \A m \in LinksSeen(r, req[r].film) : m \in LabelIds /\ labels'[m] = labels[m]
      <4>1. \A m \in LinksSeen(r, req[r].film) : m \in LabelIds /\ m # l
        BY <2>5, <3>0 DEF LinksSeen, Carried
      <4> QED BY <2>4, <4>1
    <3>3. NamesCarried(r)' = {labels'[m].name : m \in LinksSeen(r, req[r].film)'}
      BY DEF NamesCarried
    <3>4. NamesCarried(r)' = NamesCarried(r) BY <3>1, <3>2, <3>3 DEF NamesCarried
    <3>5. \A m \in req'[r].doomed : ~Carried(r, m)'
      BY <1>1, <1>3, <2>1, <2>7 DEF ViewHolds, WishCarried
    <3> QED BY <1>1, <1>2, <2>1, <3>4, <3>5 DEF ViewHolds, WishCarried
  <2> QED BY <2>8, <2>9, <2>10 DEF ViewHolds
<1>6. \/ req[r].doomed = {} /\ Goto(r, "save") /\ UNCHANGED <<labels, links>>
      \/ \E l \in req[r].doomed :
           /\ labels' = [labels EXCEPT ![l] = Cut(r, @)]
           /\ links' = [fl \in Films \X LabelIds |->
                          IF fl[2] = l THEN Cut(r, links[fl]) ELSE links[fl]]
           /\ req' = [req EXCEPT ![r].doomed = @ \ {l}]
  BY DEF Reap
<1> QED BY <1>4, <1>5, <1>6

LEMMA DeleteView ==
  ASSUME SerialView, NEW r \in Requests, DeleteFilm(r), ViewHolds(r)
  PROVE  ViewHolds(r)'
<1> DEFINE g == req[r].film
<1>1. /\ UNCHANGED labels /\ req[r].pc = "delete" /\ TypeOK /\ g \in Films
      /\ req[r].wish = {} /\ OwnedInv
  BY DEF SerialView, OwnedInv, WishKept, Active, DeleteFilm
<1>2. /\ req'[r].film = g /\ req'[r].wish = req[r].wish
      /\ req'[r].pc = "sweep"
  BY <1>1 DEF DeleteFilm, Goto, TypeOK, Request
<1>3. ~Creating(r)'
  <2>1. \A f \in Films : ~Inserts(r, films[f])
    BY <1>1 DEF OwnedInv, Owned, FilmsOwned
  <2>2. ~CreateFilm(r) BY <1>1 DEF CreateFilm
  <2>3. \A f \in Films : ~Inserts(r, films'[f]) BY <1>1, <2>1, <2>2, OwnRows DEF Serve
  <2> QED BY <1>2, <2>3 DEF Creating, Inserts
<1>4. LabelsCarried(r)' BY <1>2, <1>3 DEF LabelsCarried
<1>5. FilmsCarry(r)'
  <2>1. CASE Sees(r, films[g])
    <3>1. /\ films' = [films EXCEPT ![g] = Cut(r, @)]
          /\ links' = [fl \in Films \X LabelIds |->
                         IF fl[1] = g THEN Cut(r, links[fl]) ELSE links[fl]]
      BY <2>1 DEF DeleteFilm
    <3>2. ~Sees(r, films'[g])
      <4>1. ~Sees(r, Cut(r, films[g])) BY <1>1, TablesTyped, RowsSeen
      <4> QED BY <1>1, <3>1, <4>1 DEF TypeOK
    <3>3. \A f \in Films : f # g => films'[f] = films[f] BY <1>1, <3>1 DEF TypeOK
    <3>4. \A f \in Films, l \in LabelIds : f # g => links'[<<f, l>>] = links[<<f, l>>] BY <3>1
    <3>5. \A f \in Films : f # g => LinksSeen(r, f)' = LinksSeen(r, f)
      BY <3>4 DEF LinksSeen, Sees
    <3>6. \A f \in Films : Sees(r, films[f])' => Sees(r, films[f]) /\ f # g
      BY <3>2, <3>3 DEF Sees
    <3> QED BY <1>1, <3>5, <3>6 DEF ViewHolds, FilmsCarry
  <2>2. CASE ~Sees(r, films[g])
    <3>1. UNCHANGED <<films, labels, links>> BY <1>1, <2>2 DEF DeleteFilm
    <3> QED BY <1>1, <3>1, SeenStays DEF ViewHolds, FilmsCarry
  <2> QED BY <2>1, <2>2
<1>6. WishCarried(r)' BY <1>1, <1>2 DEF WishCarried
<1> QED BY <1>4, <1>5, <1>6 DEF ViewHolds

LEMMA OwnView ==
  ASSUME SerialView, NEW r \in Requests, Serve(r), Active(r), Active(r)'
  PROVE  ViewHolds(r)'
<1>1. ViewHolds(r) BY DEF SerialView
<1>2. ~Commit(r) /\ ~Abort(r)
  BY DEF SerialView, OwnedInv, TypeOK, Commit, Abort, Finish, Active, Idle
<1> QED
  BY <1>1, <1>2, ListView, UnlinkView, CreateView, GetView, LinkView, AssignedView, SweepView,
     ReapView, SaveView, FindView, DeleteView
  DEF Serve

\* What a transaction commits is what it has seen.
LEMMA CommittedStep ==
  ASSUME SerialView, EveryLabelCarried, EveryFilmLabelled,
         NEW r \in Requests, Begin(r) \/ Serve(r)
  PROVE  EveryLabelCarried' /\ EveryFilmLabelled'
<1>0. TypeOK BY DEF SerialView, OwnedInv
<1>1. CASE ~Commit(r)
  <2>1. /\ \A f \in Films : Committed(films'[f]) <=> Committed(films[f])
        /\ \A l \in LabelIds : Committed(labels'[l]) <=> Committed(labels[l])
        /\ \A f \in Films, l \in LabelIds :
             Committed(links'[<<f, l>>]) <=> Committed(links[<<f, l>>])
    BY <1>0, <1>1, CommittedStays
  <2>2. EveryLabelCarried' BY <2>1 DEF EveryLabelCarried, Committed
  <2>3. EveryFilmLabelled' BY <2>1 DEF EveryFilmLabelled, Committed
  <2> QED BY <2>2, <2>3
<1>2. CASE Commit(r)
  <2>1. ViewHolds(r) /\ req[r].pc = "commit" BY <1>2 DEF SerialView, Commit, Active
  <2>2. /\ \A f \in Films : Committed(films'[f]) <=> Sees(r, films[f])
        /\ \A l \in LabelIds : Committed(labels'[l]) <=> Sees(r, labels[l])
        /\ \A f \in Films, l \in LabelIds :
             Committed(links'[<<f, l>>]) <=> Sees(r, links[<<f, l>>])
    <3>1. /\ \A f \in Films : films'[f] = RowCommitted(r, films[f])
          /\ \A l \in LabelIds : labels'[l] = RowCommitted(r, labels[l])
          /\ \A f \in Films, l \in LabelIds :
               links'[<<f, l>>] = RowCommitted(r, links[<<f, l>>])
      BY <1>2 DEF Commit
    <3> QED BY <1>0, <3>1, TablesTyped, RowsSeen
  <2>3. EveryLabelCarried'
    <3>1. \A l \in LabelIds : Sees(r, labels[l]) => \E f \in Films : Sees(r, links[<<f, l>>])
      BY <2>1 DEF ViewHolds, LabelsCarried, Carried
    <3> QED BY <2>2, <3>1 DEF EveryLabelCarried, Committed
  <2>4. EveryFilmLabelled'
    <3>1. \A f \in Films : Sees(r, films[f]) => \E l \in LabelIds : Sees(r, links[<<f, l>>])
      BY <2>1 DEF ViewHolds, FilmsCarry, LinksSeen
    <3> QED BY <2>2, <3>1 DEF EveryFilmLabelled, Committed
  <2> QED BY <2>3, <2>4
<1> QED BY <1>1, <1>2

\* The inductive invariant.
SerialInv ==
    /\ OwnedInv /\ LinkEndsHold
    /\ ~crossed => SerialView /\ EveryLabelCarried /\ EveryFilmLabelled

LEMMA SerialInit == Init => SerialInv
<1> SUFFICES ASSUME Init PROVE SerialInv OBVIOUS
<1>1. OwnedInv BY OwnedInit
<1>2. LinkEndsHold BY DEF Init, LinkEndsHold
<1>3. OnlyCreators /\ \A r \in Requests : ~Active(r) BY DEF Init, OnlyCreators, Active, Idle
<1>4. EveryLabelCarried BY DEF Init, EveryLabelCarried, Committed
<1>5. EveryFilmLabelled BY DEF Init, EveryFilmLabelled, Committed
<1> QED BY <1>1, <1>2, <1>3, <1>4, <1>5 DEF SerialInv, SerialView

LEMMA SerialStep ==
  ASSUME SerialInv, [Next]_vars
  PROVE  SerialInv'
<1>1. OwnedInv' BY OwnedStep DEF SerialInv
<1>2. LinkEndsHold' BY EndsStep DEF SerialInv, EndsInv, OwnedInv
<1>3. CASE UNCHANGED vars
  <2>1. UNCHANGED <<films, labels, links>> /\ UNCHANGED req /\ UNCHANGED crossed
    BY <1>3 DEF vars
  <2>2. ASSUME ~crossed PROVE OnlyCreators' /\ EveryLabelCarried' /\ EveryFilmLabelled'
    BY <2>1, <2>2
    DEF SerialInv, SerialView, OnlyCreators, Creating, Active, EveryLabelCarried,
        EveryFilmLabelled, Committed
  <2>3. ASSUME ~crossed, NEW r \in Requests, Active(r)' PROVE ViewHolds(r)'
    <3>1. Active(r) BY <2>1, <2>3 DEF Active
    <3> QED BY <2>1, <2>3, <3>1, ViewStays DEF SerialInv, SerialView
  <2> QED BY <1>1, <1>2, <2>1, <2>2, <2>3 DEF SerialInv, SerialView
<1>4. ASSUME NEW r \in Requests, Begin(r), crossed' = (crossed \/ Crosses(r))
      PROVE  SerialInv'
  <2> SUFFICES ASSUME ~crossed'
               PROVE  SerialView' /\ EveryLabelCarried' /\ EveryFilmLabelled'
    BY <1>1, <1>2 DEF SerialInv
  <2>1. /\ ~Crosses(r) /\ SerialView /\ EveryLabelCarried /\ EveryFilmLabelled
        /\ OwnedInv /\ OnlyCreators
    BY <1>4 DEF SerialInv, SerialView
  <2>2. OnlyCreators' BY <1>4, <2>1, OnlyCreatorsStep
  <2>3. EveryLabelCarried' /\ EveryFilmLabelled' BY <1>4, <2>1, CommittedStep
  <2>4. ASSUME NEW q \in Requests, Active(q)' PROVE ViewHolds(q)'
    <3>1. CASE q = r BY <1>4, <2>1, <3>1, BeginView
    <3>2. CASE q # r
      <4>1. req'[q] = req[q] BY <1>4, <2>1, <3>2, RequestStep DEF OwnedInv
      <4>2. ViewHolds(q) BY <2>1, <2>4, <4>1 DEF SerialView, Active
      <4>3. UNCHANGED <<films, labels, links>> BY <1>4 DEF Begin
      <4> QED BY <4>1, <4>2, <4>3, ViewStays
    <3> QED BY <3>1, <3>2
  <2> QED BY <1>1, <1>2, <2>2, <2>3, <2>4 DEF SerialView
<1>5. ASSUME NEW r \in Requests, Serve(r), UNCHANGED crossed
      PROVE  SerialInv'
  <2> SUFFICES ASSUME ~crossed'
               PROVE  SerialView' /\ EveryLabelCarried' /\ EveryFilmLabelled'
    BY <1>1, <1>2 DEF SerialInv
  <2>1. /\ SerialView /\ EveryLabelCarried /\ EveryFilmLabelled /\ OwnedInv /\ OnlyCreators
    BY <1>5 DEF SerialInv, SerialView
  <2>2. OnlyCreators' BY <1>5, <2>1, OnlyCreatorsStep
  <2>3. EveryLabelCarried' /\ EveryFilmLabelled' BY <1>5, <2>1, CommittedStep
  <2>4. Active(r)
    BY <1>5
    DEF Serve, Active, Commit, Abort, CreateFilm, ListForFilm, UnlinkFilm, GetOrCreate, LinkFilm,
        AllAssigned, Sweep, Reap, Save, FindFilm, DeleteFilm
  <2>5. ASSUME NEW q \in Requests, Active(q)' PROVE ViewHolds(q)'
    <3>1. CASE q = r BY <1>5, <2>1, <2>4, <2>5, <3>1, OwnView
    <3>2. CASE q # r
      <4>1. req'[q] = req[q] BY <1>5, <2>1, <3>2, RequestStep DEF OwnedInv
      <4>2. Active(q) BY <2>5, <4>1 DEF Active
      <4> QED BY <1>5, <2>1, <2>4, <3>2, <4>2, OthersView
    <3> QED BY <3>1, <3>2
  <2> QED BY <1>1, <1>2, <2>2, <2>3, <2>5 DEF SerialView
<1> QED BY <1>3, <1>4, <1>5 DEF Next

THEOREM SerialAlways == Spec => []SerialInv
<1>1. SerialInv /\ [Next]_vars => SerialInv' BY SerialStep
<1> QED BY <1>1, SerialInit, PTL DEF Spec

\* FR-TAG-04: requests that do not overlap, or overlap only in creating films, leave no label
\* without a film, for any number of requests, films and labels.
THEOREM LabelsHaveFilms == Spec => []NoOrphanLabels
<1>1. SerialInv => NoOrphanLabels BY DEF SerialInv, EveryLabelCarried, NoOrphanLabels
<1> QED BY <1>1, SerialAlways, PTL

\* ... and no film without a label: delete_orphans never takes one that a film carries.
THEOREM FilmsHaveLabels == Spec => []FilmsKeepLabels
<1>1. SerialInv => FilmsKeepLabels BY DEF SerialInv, FilmsKeepLabels
<1> QED BY <1>1, SerialAlways, PTL

\* The film of a creation or an edit carries the labels of its payload when it commits.
LEMMA ReplacedAtCommit ==
  ASSUME SerialInv, [Next]_vars, NEW r \in Requests, ~crossed, req[r].pc = "commit",
         req[r].wish # {}, req'[r] = Idle,
         links' = [fl \in Films \X LabelIds |-> RowCommitted(r, links[fl])]
  PROVE  {labels'[l].name : l \in {m \in LabelIds : Committed(links'[<<req[r].film, m>>])}}
           = req[r].wish
<1> DEFINE g == req[r].film
<1>1. TypeOK /\ Active(r) /\ g \in Films /\ ViewHolds(r)
  BY DEF SerialInv, SerialView, OwnedInv, WishKept, Active
<1>2. LinkEndsHold' BY SerialStep DEF SerialInv
<1>3. Commit(r) \/ Abort(r)
  <2>1. req'[r].pc = "idle" BY DEF Idle
  <2>2. PICK s \in Requests : Begin(s) \/ Serve(s) BY <2>1 DEF Next, vars
  <2>3. s = r BY <1>1, <2>1, <2>2, RequestStep
  <2>4. ~Moves(r) BY <1>1, <2>1, Statements DEF Fresh
  <2> QED BY <2>2, <2>3, <2>4 DEF Serve, Moves
<1>4. \A l \in LabelIds : Committed(links'[<<g, l>>]) <=> Sees(r, links[<<g, l>>])
  <2>1. \A l \in LabelIds : links'[<<g, l>>] = RowCommitted(r, links[<<g, l>>]) BY <1>1
  <2> QED BY <1>1, <2>1, TablesTyped, RowsSeen
<1>5. {m \in LabelIds : Committed(links'[<<g, m>>])} = LinksSeen(r, g) BY <1>4 DEF LinksSeen
<1>6. \A l \in LinksSeen(r, g) : labels'[l].name = labels[l].name
  <2> SUFFICES ASSUME NEW l \in LinksSeen(r, g) PROVE labels'[l].name = labels[l].name OBVIOUS
  <2>1. l \in LabelIds /\ links'[<<g, l>>] # NoRow BY <1>4 DEF LinksSeen, Committed
  <2>2. labels'[l] # NoRow BY <1>1, <1>2, <2>1 DEF LinkEndsHold, EndHolds
  <2>3. labels'[l] \in {Cut(r, labels[l]), RowCommitted(r, labels[l]), RowRolledBack(r, labels[l])}
    BY <1>3, <2>1 DEF Commit, Abort
  <2>4. labels[l] \in LabelRow \cup {NoRow} BY <1>1, <2>1 DEF TypeOK
  <2> QED BY <2>2, <2>3, <2>4, NamesStay
<1>7. {labels'[l].name : l \in LinksSeen(r, g)} = NamesCarried(r) BY <1>6 DEF NamesCarried
<1>8. NamesCarried(r) = req[r].wish BY <1>1 DEF ViewHolds, WishCarried
<1> QED BY <1>5, <1>7, <1>8

\* While nothing crosses, a film carries exactly the payload's labels when the request that
\* assigned them commits.
THEOREM LabelsAreThePayloads == Spec => EditReplacesLabels
<1>1. SerialInv /\ [Next]_vars =>
        [\A r \in Requests :
           ~crossed /\ req[r].pc = "commit" /\ req[r].wish # {} /\ req'[r] = Idle
               /\ links' = [fl \in Films \X LabelIds |-> RowCommitted(r, links[fl])]
               => {labels'[l].name : l \in {m \in LabelIds : Committed(links'[<<req[r].film, m>>])}}
                    = req[r].wish]_vars
  BY ReplacedAtCommit
<1> QED BY <1>1, SerialAlways, PTL DEF Spec, EditReplacesLabels
=============================================================================

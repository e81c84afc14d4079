----------------------- MODULE FilmTransactionsProofs -----------------------
(***************************************************************************)
(* First, what the film transactions guarantee in every interleaving of    *)
(* any number of requests: the tables and the handlers' locals have their  *)
(* types, natural keys are unique, and the foreign keys hold.  The         *)
(* database constraints are what every proof comes down to; what the       *)
(* handlers have read before is used for types only.  Then, what they      *)
(* guarantee to requests that do not overlap.                              *)
(***************************************************************************)
EXTENDS FilmTransactions, FiniteSetTheorems, TLAPS

TablesTyped ==
    /\ films \in [FilmIds -> FilmRow \cup {NoFilm}]
    /\ title \in [FilmIds -> Titles \cup {Keep}]
    /\ ratings \in [RatingIds -> FilmIds \cup {NoFilm}]

RequestsTyped ==
    /\ req \in [Requests -> Request]
    /\ \A r \in Requests : LocalsSet(req[r])

LEMMA TypeParts ==
  /\ TypeOK <=> TablesTyped /\ RequestsTyped
  /\ TypeOK' <=> TablesTyped' /\ RequestsTyped'
  BY DEF TypeOK, TablesTyped, RequestsTyped

\* A stored film is a row, and the other way round.
LEMMA LiveIsRow ==
  ASSUME TablesTyped, NEW f \in FilmIds
  PROVE  Live(f) <=> films[f] \in FilmRow
  BY RowAssumption DEF TablesTyped, Live

\* The natural key of a title and a director is a key.
LEMMA KeyType ==
  ASSUME NEW t \in Titles, NEW d \in Directors
  PROVE  derive_natural_key(t, d) \in Key
  BY FoldAssumption DEF derive_natural_key, Key

-----------------------------------------------------------------------------
(* Types *)

LEMMA IdleTyped == Idle \in Request /\ LocalsSet(Idle)
  BY DEF Idle, Request, Pc, LocalsSet

\* A step that gives request r well-typed locals keeps all requests typed.
LEMMA LocalsStep ==
  ASSUME RequestsTyped, NEW r \in Requests, NEW q \in Request, LocalsSet(q),
         req' = [req EXCEPT ![r] = q]
  PROVE  RequestsTyped'
  BY DEF RequestsTyped, LocalsSet

LEMMA FinishTyped ==
  ASSUME RequestsTyped, NEW r \in Requests, Finish(r)
  PROVE  RequestsTyped'
  BY IdleTyped, LocalsStep DEF Finish

\* Moving on to a step whose locals are set already.
LEMMA GotoTyped ==
  ASSUME RequestsTyped, NEW r \in Requests, NEW pc \in Pc,
         LocalsSet([req[r] EXCEPT !.pc = pc]), Goto(r, pc)
  PROVE  RequestsTyped'
<1>1. [req[r] EXCEPT !.pc = pc] \in Request
  BY DEF RequestsTyped, Request
<1>2. req' = [req EXCEPT ![r] = [req[r] EXCEPT !.pc = pc]]
  BY DEF Goto
<1> QED
  BY <1>1, <1>2, LocalsStep

LEMMA CreateTyped ==
  ASSUME TypeOK, NEW r \in Requests, Create(r)
  PROVE  TypeOK'
<1> USE TypeParts
<1>1. CASE BeginCreate(r)
  <2>1. PICK f \in FilmIds, t \in Titles, d \in Directors, b \in BOOLEAN :
          Begin(r, [Idle EXCEPT !.pc = "create_find_key", !.film = f, !.title = t,
                                !.director = d, !.flag = b])
    BY <1>1, Zenon DEF BeginCreate
  <2>2. [Idle EXCEPT !.pc = "create_find_key", !.film = f, !.title = t, !.director = d,
                     !.flag = b] \in Request
    BY DEF Idle, Request, Pc
  <2>3. LocalsSet([Idle EXCEPT !.pc = "create_find_key", !.film = f, !.title = t,
                               !.director = d, !.flag = b])
    BY DEF Idle, LocalsSet
  <2> QED
    BY <1>1, <2>1, <2>2, <2>3, LocalsStep DEF BeginCreate, Begin, ReadOnly, TablesTyped
<1>2. CASE CreateFindKey(r)
  BY <1>2, FinishTyped, GotoTyped
     DEF CreateFindKey, ReadOnly, TablesTyped, RequestsTyped, Request, LocalsSet, Pc
<1>3. CASE CreateFindId(r)
  BY <1>3, FinishTyped, GotoTyped
     DEF CreateFindId, ReadOnly, TablesTyped, RequestsTyped, Request, LocalsSet, Pc
<1>4. CASE CreateCommit(r)
  <2> DEFINE f == req[r].film
             key == derive_natural_key(req[r].title, req[r].director)
  <2>1. f \in FilmIds /\ req[r].title \in Titles /\ req[r].director \in Directors
    BY <1>4 DEF CreateCommit, RequestsTyped, LocalsSet
  <2>2. [director |-> req[r].director, natural_key |-> key] \in FilmRow
    BY <2>1, KeyType DEF FilmRow
  <2>3. TablesTyped'
    BY <1>4, <2>1, <2>2 DEF CreateCommit, TablesTyped
  <2> QED
    BY <1>4, <2>3, FinishTyped DEF CreateCommit
<1> QED
  BY <1>1, <1>2, <1>3, <1>4 DEF Create

LEMMA UpdateTyped ==
  ASSUME TypeOK, NEW r \in Requests, Update(r)
  PROVE  TypeOK'
<1> USE TypeParts
<1> DEFINE q == req[r]
<1>0. q \in Request /\ LocalsSet(q)
  BY DEF RequestsTyped
<1>1. CASE BeginUpdate(r)
  <2>1. PICK f \in FilmIds, t \in Titles \cup {Keep}, d \in Directors \cup {Keep} :
          req' = [req EXCEPT ![r] = [Idle EXCEPT !.pc = "update_find", !.film = f,
                                                 !.title = t, !.director = d]]
    BY <1>1 DEF BeginUpdate, Begin
  <2>2. [Idle EXCEPT !.pc = "update_find", !.film = f, !.title = t, !.director = d]
          \in Request
    BY DEF Idle, Request, Pc
  <2>3. LocalsSet([Idle EXCEPT !.pc = "update_find", !.film = f, !.title = t,
                               !.director = d])
    BY DEF Idle, LocalsSet
  <2> QED
    BY <1>1, <2>1, <2>2, <2>3, LocalsStep DEF BeginUpdate, ReadOnly, TablesTyped
<1>2. CASE UpdateFind(r)
  <2>1. CASE Live(q.film)
    <3> DEFINE p == [q EXCEPT !.pc = "update_titles", !.seen = films[q.film]]
    <3>1. q.film \in FilmIds
      BY <1>0, <1>2 DEF UpdateFind, LocalsSet
    <3>2. films[q.film] \in FilmRow
      BY <2>1, <3>1, LiveIsRow
    <3>3. p \in Request /\ LocalsSet(p)
      BY <1>0, <3>1, <3>2 DEF Request, LocalsSet, Pc
    <3>4. req' = [req EXCEPT ![r] = p]
      BY <1>2, <2>1 DEF UpdateFind
    <3> QED
      BY <1>2, <3>3, <3>4, LocalsStep DEF UpdateFind, ReadOnly, TablesTyped
  <2>2. CASE ~Live(q.film)
    BY <1>2, <2>2, FinishTyped DEF UpdateFind, ReadOnly, TablesTyped
  <2> QED
    BY <2>1, <2>2
<1>3. CASE UpdateReadTitles(r)
  <2> DEFINE t == IF q.title = Keep THEN title[q.film] ELSE q.title
             d == IF q.director = Keep THEN q.seen.director ELSE q.director
             k == derive_natural_key(t, d)
  <2>1. CASE title[q.film] # Keep
    <3> DEFINE pc == IF k = q.seen.natural_key THEN "update_commit" ELSE "update_find_key"
               p == [q EXCEPT !.newKey = k, !.pc = pc]
    <3>1. q.film \in FilmIds /\ q.seen \in FilmRow
      BY <1>0, <1>3 DEF UpdateReadTitles, LocalsSet
    <3>2. t \in Titles
      BY <1>0, <2>1, <3>1 DEF TablesTyped, Request
    <3>3. d \in Directors
      BY <1>0, <3>1 DEF Request, FilmRow
    <3>4. k \in Key
      BY <3>2, <3>3, KeyType
    <3>5. p \in Request /\ LocalsSet(p)
      <4> HIDE DEF k
      <4>1. pc \in {"update_commit", "update_find_key"}
        OBVIOUS
      <4> HIDE DEF pc
      <4> QED
        BY <1>0, <3>1, <3>4, <4>1 DEF Request, LocalsSet, Pc
    <3>6. req' = [req EXCEPT ![r] = p]
      BY <1>3, <2>1 DEF UpdateReadTitles
    <3> QED
      BY <1>3, <3>5, <3>6, LocalsStep DEF UpdateReadTitles, ReadOnly, TablesTyped
  <2>2. CASE title[q.film] = Keep
    BY <1>3, <2>2, FinishTyped DEF UpdateReadTitles, ReadOnly, TablesTyped
  <2> QED
    BY <2>1, <2>2
<1>4. CASE UpdateFindKey(r)
  BY <1>4, FinishTyped, GotoTyped
     DEF UpdateFindKey, ReadOnly, TablesTyped, RequestsTyped, Request, LocalsSet, Pc
<1>5. CASE UpdateCommit(r)
  <2>1. q.film \in FilmIds /\ q.seen \in FilmRow /\ q.newKey \in Key
    BY <1>0, <1>5 DEF UpdateCommit, LocalsSet
  <2>2. films[q.film] \in FilmRow
    BY <1>5, <2>1, LiveIsRow DEF UpdateCommit
  <2>3. RowWritten(q, films[q.film]) \in FilmRow
    BY <1>0, <2>1, <2>2 DEF RowWritten, FilmRow, Request
  <2>4. TablesTyped'
    BY <1>0, <1>5, <2>1, <2>3 DEF UpdateCommit, TablesTyped, Request
  <2> QED
    BY <1>5, <2>4, FinishTyped DEF UpdateCommit
<1> QED
  BY <1>1, <1>2, <1>3, <1>4, <1>5 DEF Update

LEMMA DeleteTyped ==
  ASSUME TypeOK, NEW r \in Requests, Delete(r)
  PROVE  TypeOK'
<1> USE TypeParts
<1>1. CASE BeginDelete(r)
  <2>1. PICK f \in FilmIds :
          req' = [req EXCEPT ![r] = [Idle EXCEPT !.pc = "delete_find", !.film = f]]
    BY <1>1 DEF BeginDelete, Begin
  <2>2. /\ [Idle EXCEPT !.pc = "delete_find", !.film = f] \in Request
        /\ LocalsSet([Idle EXCEPT !.pc = "delete_find", !.film = f])
    BY DEF Idle, Request, Pc, LocalsSet
  <2> QED
    BY <1>1, <2>1, <2>2, LocalsStep DEF BeginDelete, ReadOnly, TablesTyped
<1>2. CASE DeleteFind(r)
  BY <1>2, FinishTyped, GotoTyped
     DEF DeleteFind, ReadOnly, TablesTyped, RequestsTyped, Request, LocalsSet, Pc
<1>3. CASE DeleteCommit(r)
  <2>1. TablesTyped'
    BY <1>3 DEF DeleteCommit, TablesTyped, WithoutHistory
  <2> QED
    BY <1>3, <2>1, FinishTyped DEF DeleteCommit
<1> QED
  BY <1>1, <1>2, <1>3 DEF Delete

LEMMA AddRatingTyped ==
  ASSUME TypeOK, NEW r \in Requests, AddRating(r)
  PROVE  TypeOK'
<1> USE TypeParts
<1>1. CASE BeginAddRating(r)
  <2>1. PICK f \in FilmIds, b \in BOOLEAN :
          req' = [req EXCEPT ![r] = [Idle EXCEPT !.pc = "add_find", !.film = f, !.flag = b]]
    BY <1>1 DEF BeginAddRating, Begin
  <2>2. /\ [Idle EXCEPT !.pc = "add_find", !.film = f, !.flag = b] \in Request
        /\ LocalsSet([Idle EXCEPT !.pc = "add_find", !.film = f, !.flag = b])
    BY DEF Idle, Request, Pc, LocalsSet
  <2> QED
    BY <1>1, <2>1, <2>2, LocalsStep DEF BeginAddRating, ReadOnly, TablesTyped
<1>2. CASE AddFind(r)
  BY <1>2, FinishTyped, GotoTyped
     DEF AddFind, ReadOnly, TablesTyped, RequestsTyped, Request, LocalsSet, Pc
<1>3. CASE AddCommit(r)
  <2>1. req[r].film \in FilmIds
    BY <1>3 DEF AddCommit, RequestsTyped, LocalsSet
  <2>2. TablesTyped'
    BY <1>3, <2>1 DEF AddCommit, TablesTyped
  <2> QED
    BY <1>3, <2>2, FinishTyped DEF AddCommit
<1> QED
  BY <1>1, <1>2, <1>3 DEF AddRating

LEMMA DeleteRatingTyped ==
  ASSUME TypeOK, NEW r \in Requests, DeleteRating(r)
  PROVE  TypeOK'
<1> USE TypeParts
<1> DEFINE q == req[r]
<1>0. q \in Request /\ LocalsSet(q)
  BY DEF RequestsTyped
<1>1. CASE BeginDeleteRating(r)
  <2>1. PICK i \in RatingIds :
          req' = [req EXCEPT ![r] = [Idle EXCEPT !.pc = "get_entry", !.rating = i]]
    BY <1>1 DEF BeginDeleteRating, Begin
  <2>2. /\ [Idle EXCEPT !.pc = "get_entry", !.rating = i] \in Request
        /\ LocalsSet([Idle EXCEPT !.pc = "get_entry", !.rating = i])
    BY DEF Idle, Request, Pc, LocalsSet
  <2> QED
    BY <1>1, <2>1, <2>2, LocalsStep DEF BeginDeleteRating, ReadOnly, TablesTyped
<1>2. CASE GetEntry(r)
  <2>1. CASE ratings[q.rating] # NoFilm
    <3> DEFINE p == [q EXCEPT !.pc = "count", !.film = ratings[q.rating]]
    <3>1. q.rating \in RatingIds
      BY <1>0, <1>2 DEF GetEntry, LocalsSet
    <3>2. ratings[q.rating] \in FilmIds
      BY <2>1, <3>1 DEF TablesTyped
    <3>3. p \in Request /\ LocalsSet(p)
      BY <1>0, <3>1, <3>2 DEF Request, LocalsSet, Pc
    <3>4. req' = [req EXCEPT ![r] = p]
      BY <1>2, <2>1 DEF GetEntry
    <3> QED
      BY <1>2, <3>3, <3>4, LocalsStep DEF GetEntry, ReadOnly, TablesTyped
  <2>2. CASE ratings[q.rating] = NoFilm
    BY <1>2, <2>2, FinishTyped DEF GetEntry, ReadOnly, TablesTyped
  <2> QED
    BY <2>1, <2>2
<1>3. CASE CountForFilm(r)
  <2>1. /\ LocalsSet([req[r] EXCEPT !.pc = "delete_find"])
        /\ LocalsSet([req[r] EXCEPT !.pc = "rating_commit"])
    BY <1>0, <1>3 DEF CountForFilm, Request, LocalsSet
  <2>2. Goto(r, "delete_find") \/ Goto(r, "rating_commit")
    BY <1>3 DEF CountForFilm
  <2> QED
    BY <1>3, <2>1, <2>2, GotoTyped DEF CountForFilm, ReadOnly, TablesTyped, Pc
<1>4. CASE DeleteRatingCommit(r)
  <2>1. TablesTyped'
    BY <1>4 DEF DeleteRatingCommit, TablesTyped
  <2> QED
    BY <1>4, <2>1, FinishTyped DEF DeleteRatingCommit
<1> QED
  BY <1>1, <1>2, <1>3, <1>4 DEF DeleteRating

LEMMA TypeStep == TypeOK /\ [Next]_vars => TypeOK'
<1> SUFFICES ASSUME TypeOK, [Next]_vars PROVE TypeOK'
  OBVIOUS
<1>1. ASSUME NEW r \in Requests, Abort(r) PROVE TypeOK'
  BY <1>1, TypeParts, FinishTyped DEF Abort, ReadOnly, TablesTyped
<1>2. CASE UNCHANGED vars
  BY <1>2 DEF vars, TypeOK, LocalsSet
<1> QED
  BY <1>1, <1>2, CreateTyped, UpdateTyped, DeleteTyped, AddRatingTyped, DeleteRatingTyped
     DEF Next

\* However the requests interleave, every table holds rows of its type, and a handler has
\* assigned its locals by the time it uses them.
THEOREM TypeCorrect == Spec => []TypeOK
<1>1. Init => TypeOK
  BY IdleTyped DEF Init, TypeOK
<1> QED
  BY <1>1, TypeStep, PTL DEF Spec

-----------------------------------------------------------------------------
(* What a step can do to the tables *)

\* Only the five commits write a table.
LEMMA Writers ==
  ASSUME [Next]_vars
  PROVE  \/ UNCHANGED <<films, title, ratings>>
         \/ \E r \in Requests : \/ CreateCommit(r) \/ UpdateCommit(r) \/ DeleteCommit(r)
                                \/ AddCommit(r) \/ DeleteRatingCommit(r)
<1>1. CASE UNCHANGED vars
  BY <1>1 DEF vars
<1>2. ASSUME NEW r \in Requests,
             Create(r) \/ Update(r) \/ Delete(r) \/ AddRating(r) \/ DeleteRating(r) \/ Abort(r)
      PROVE  \/ UNCHANGED <<films, title, ratings>>
             \/ CreateCommit(r) \/ UpdateCommit(r) \/ DeleteCommit(r)
             \/ AddCommit(r) \/ DeleteRatingCommit(r)
  BY <1>2 DEF Create, BeginCreate, CreateFindKey, CreateFindId,
              Update, BeginUpdate, UpdateFind, UpdateReadTitles, UpdateFindKey,
              Delete, BeginDelete, DeleteFind, AddRating, BeginAddRating, AddFind,
              DeleteRating, BeginDeleteRating, GetEntry, CountForFilm, Abort, ReadOnly
<1> QED
  BY <1>1, <1>2 DEF Next

\* The row an edit leaves is a film row, and a create's as well.
LEMMA CommittedRows ==
  ASSUME TypeOK, NEW r \in Requests
  PROVE  /\ UpdateCommit(r) => /\ req[r].film \in FilmIds
                               /\ RowWritten(req[r], films[req[r].film]) \in FilmRow
                               /\ req[r].title \in Titles \cup {Keep}
         /\ CreateCommit(r) =>
              /\ req[r].film \in FilmIds
              /\ req[r].title \in Titles
              /\ [director |-> req[r].director,
                  natural_key |-> derive_natural_key(req[r].title, req[r].director)] \in FilmRow
<1> USE TypeParts
<1>0. req[r] \in Request /\ LocalsSet(req[r])
  BY DEF RequestsTyped
<1>1. ASSUME UpdateCommit(r)
      PROVE  /\ req[r].film \in FilmIds
             /\ RowWritten(req[r], films[req[r].film]) \in FilmRow
             /\ req[r].title \in Titles \cup {Keep}
  <2>1. req[r].film \in FilmIds /\ req[r].seen \in FilmRow /\ req[r].newKey \in Key
    BY <1>0, <1>1 DEF UpdateCommit, LocalsSet
  <2>2. films[req[r].film] \in FilmRow
    BY <1>1, <2>1, LiveIsRow DEF UpdateCommit
  <2> QED
    BY <1>0, <2>1, <2>2 DEF RowWritten, FilmRow, Request
<1>2. ASSUME CreateCommit(r)
      PROVE  /\ req[r].film \in FilmIds
             /\ req[r].title \in Titles
             /\ [director |-> req[r].director,
                 natural_key |-> derive_natural_key(req[r].title, req[r].director)] \in FilmRow
  <2>1. req[r].film \in FilmIds /\ req[r].title \in Titles /\ req[r].director \in Directors
    BY <1>0, <1>2 DEF CreateCommit, LocalsSet
  <2> QED
    BY <2>1, KeyType DEF FilmRow
<1> QED
  BY <1>1, <1>2

-----------------------------------------------------------------------------
(* The unique constraint *)

\* Writing a row for f whose key is free, or the key f has already, keeps keys apart.
LEMMA RowKeepsKeysUnique ==
  ASSUME TypeOK, NaturalKeysUnique,
         NEW f \in FilmIds, NEW row \in FilmRow,
         films' = [films EXCEPT ![f] = row],
         \/ NaturalKeyFree(row.natural_key, f)
         \/ Live(f) /\ row.natural_key = films[f].natural_key
  PROVE  NaturalKeysUnique'
<1> SUFFICES ASSUME NEW g \in FilmIds, NEW h \in FilmIds,
                    films'[g] # NoFilm, films'[h] # NoFilm,
                    films'[g].natural_key = films'[h].natural_key
             PROVE  g = h
  BY DEF NaturalKeysUnique, Live
<1>1. \A k \in FilmIds : films'[k] = IF k = f THEN row ELSE films[k]
  BY DEF TypeOK
<1>2. \A k \in FilmIds : Live(k) /\ films[k].natural_key = row.natural_key => k = f
  <2>1. CASE NaturalKeyFree(row.natural_key, f)
    BY <2>1 DEF NaturalKeyFree, find_by_natural_key
  <2>2. CASE Live(f) /\ row.natural_key = films[f].natural_key
    BY <2>2 DEF NaturalKeysUnique
  <2> QED
    BY <2>1, <2>2
<1>3. CASE g = f \/ h = f
  BY <1>1, <1>2, <1>3 DEF Live
<1>4. CASE g # f /\ h # f
  BY <1>1, <1>4 DEF NaturalKeysUnique, Live
<1> QED
  BY <1>3, <1>4

LEMMA KeysStep == TypeOK /\ NaturalKeysUnique /\ [Next]_vars => NaturalKeysUnique'
<1> SUFFICES ASSUME TypeOK, NaturalKeysUnique, [Next]_vars PROVE NaturalKeysUnique'
  OBVIOUS
<1>1. ASSUME NEW r \in Requests, CreateCommit(r) PROVE NaturalKeysUnique'
  <2> DEFINE row == [director |-> req[r].director,
                     natural_key |-> derive_natural_key(req[r].title, req[r].director)]
  <2>1. row \in FilmRow /\ req[r].film \in FilmIds
    BY <1>1, CommittedRows
  <2>2. NaturalKeyFree(row.natural_key, req[r].film)
    BY <1>1 DEF CreateCommit
  <2>3. films' = [films EXCEPT ![req[r].film] = row]
    BY <1>1 DEF CreateCommit
  <2> HIDE DEF row
  <2> QED
    BY <2>1, <2>2, <2>3, RowKeepsKeysUnique
<1>2. ASSUME NEW r \in Requests, UpdateCommit(r) PROVE NaturalKeysUnique'
  <2> DEFINE row == RowWritten(req[r], films[req[r].film])
  <2>1. row \in FilmRow /\ req[r].film \in FilmIds
    BY <1>2, CommittedRows
  <2>2. \/ NaturalKeyFree(row.natural_key, req[r].film)
        \/ Live(req[r].film) /\ row.natural_key = films[req[r].film].natural_key
    BY <1>2 DEF UpdateCommit, RowWritten
  <2>3. films' = [films EXCEPT ![req[r].film] = row]
    BY <1>2 DEF UpdateCommit
  <2> HIDE DEF row
  <2> QED
    BY <2>1, <2>2, <2>3, RowKeepsKeysUnique
<1>3. ASSUME NEW r \in Requests, DeleteCommit(r) PROVE NaturalKeysUnique'
  <2>1. \A k \in FilmIds : films'[k] # NoFilm => films'[k] = films[k]
    BY <1>3 DEF DeleteCommit, TypeOK
  <2> QED
    BY <2>1 DEF NaturalKeysUnique, Live
<1>4. CASE UNCHANGED films
  BY <1>4 DEF NaturalKeysUnique, Live
<1> QED
  BY <1>1, <1>2, <1>3, <1>4, Writers DEF AddCommit, DeleteRatingCommit

\* No two stored films share a natural key, however the requests overtake each other's
\* duplicate checks.
THEOREM NoDuplicateKeys == Spec => []NaturalKeysUnique
<1>1. Init => TypeOK /\ NaturalKeysUnique
  BY IdleTyped DEF Init, TypeOK, NaturalKeysUnique, Live
<1> QED
  BY <1>1, TypeStep, KeysStep, PTL DEF Spec

-----------------------------------------------------------------------------
(* The foreign keys *)

LEMMA RowsStep == TypeOK /\ NoDanglingRows /\ [Next]_vars => NoDanglingRows'
<1> SUFFICES ASSUME TypeOK, NoDanglingRows, [Next]_vars PROVE NoDanglingRows'
  OBVIOUS
<1> USE DEF NoDanglingRows, Live
<1>1. ASSUME NEW r \in Requests, CreateCommit(r) PROVE NoDanglingRows'
  <2> DEFINE f == req[r].film
             row == [director |-> req[r].director,
                     natural_key |-> derive_natural_key(req[r].title, req[r].director)]
  <2>1. f \in FilmIds /\ row \in FilmRow /\ req[r].title \in Titles
    BY <1>1, CommittedRows
  <2>2. films' = [films EXCEPT ![f] = row] /\ title' = [title EXCEPT ![f] = req[r].title]
    BY <1>1 DEF CreateCommit
  <2>3. PICK W \in SUBSET RatingIds :
          ratings' = [i \in RatingIds |-> IF i \in W THEN f ELSE ratings[i]]
    BY <1>1 DEF CreateCommit
  <2> HIDE DEF row, f
  <2> QED
    BY <2>1, <2>2, <2>3, RowAssumption, NullAssumption DEF TypeOK
<1>2. ASSUME NEW r \in Requests, UpdateCommit(r) PROVE NoDanglingRows'
  <2> DEFINE f == req[r].film
             row == RowWritten(req[r], films[f])
  <2>1. f \in FilmIds /\ row \in FilmRow /\ req[r].title \in Titles \cup {Keep}
    BY <1>2, CommittedRows
  <2>2. /\ films' = [films EXCEPT ![f] = row]
        /\ films[f] # NoFilm
        /\ title' = IF req[r].title = Keep THEN title ELSE [title EXCEPT ![f] = req[r].title]
        /\ ratings' = ratings
    BY <1>2 DEF UpdateCommit
  <2> HIDE DEF row, f
  <2> QED
    BY <2>1, <2>2, RowAssumption, NullAssumption DEF TypeOK
<1>3. ASSUME NEW r \in Requests, DeleteCommit(r) PROVE NoDanglingRows'
  BY <1>3, NullAssumption DEF DeleteCommit, WithoutHistory, TypeOK
<1>4. ASSUME NEW r \in Requests, AddCommit(r) PROVE NoDanglingRows'
  BY <1>4 DEF AddCommit, TypeOK
<1>5. ASSUME NEW r \in Requests, DeleteRatingCommit(r) PROVE NoDanglingRows'
  BY <1>5 DEF DeleteRatingCommit, TypeOK
<1>6. CASE UNCHANGED <<films, title, ratings>>
  BY <1>6
<1> QED
  BY <1>1, <1>2, <1>3, <1>4, <1>5, <1>6, Writers

\* Every title and every rating entry belongs to a stored film, and a stored film has its
\* primary title.
THEOREM ForeignKeysHold == Spec => []NoDanglingRows
<1>1. Init => TypeOK /\ NoDanglingRows
  BY IdleTyped DEF Init, TypeOK, NoDanglingRows, Live
<1> QED
  BY <1>1, TypeStep, RowsStep, PTL DEF Spec
-----------------------------------------------------------------------------
(***************************************************************************)
(* Requests one at a time: the rules the code states without a condition,  *)
(* and that the service implements module Library.  "One at a time" is the *)
(* assumption Alone.  What the handlers read early is then what the tables *)
(* still hold when they commit.  That is the strengthening SerialInv: the  *)
(* film an edit has loaded is the stored one, the new key is that of the   *)
(* parts the edit will store, and the last-rating count still holds.       *)
(***************************************************************************)


Alone == \A r, s \in Requests : r = s

Updating == {"update_titles", "update_find_key", "update_commit"}
Deleting == {"delete_find", "delete_commit"}

\* Title and director of the film after the edit q.
NewTitle(q) == IF q.title = Keep THEN title[q.film] ELSE q.title
NewDirector(q) == IF q.director = Keep THEN films[q.film].director ELSE q.director

StillTrue(q) ==
    /\ q.rating # NoRating => q.pc \in {"get_entry", "count", "rating_commit"} \cup Deleting
    /\ q.pc \in Updating => Live(q.film) /\ q.seen = films[q.film]
    /\ q.pc \in {"update_find_key", "update_commit"}
         => q.newKey = derive_natural_key(NewTitle(q), NewDirector(q))
    /\ q.pc \in {"count", "rating_commit"} => ratings[q.rating] = q.film
    /\ q.pc = "rating_commit" => \E j \in RatingIds : j # q.rating /\ ratings[j] = q.film
    /\ q.pc \in Deleting /\ q.rating # NoRating => HistoryOf(q.film) \subseteq {q.rating}

SerialInv == \A r \in Requests : StillTrue(req[r])

-----------------------------------------------------------------------------
(* The last-rating rule *)

\* count_for_film tells whether entry i is the only one of its film.
LEMMA LastWatchIsOnly ==
  ASSUME TypeOK, NEW i \in RatingIds, NEW f \in FilmIds, ratings[i] = f
  PROVE  /\ LastWatch(f) => HistoryOf(f) \subseteq {i}
         /\ ~LastWatch(f) => \E j \in RatingIds : j # i /\ ratings[j] = f
<1>1. IsFiniteSet(HistoryOf(f)) /\ i \in HistoryOf(f)
  BY FiniteAssumption, FS_Subset DEF HistoryOf
<1>2. ASSUME NEW j \in HistoryOf(f), j # i PROVE ~LastWatch(f)
  <2>1. IsFiniteSet({i}) /\ Cardinality({i}) = 1
    BY FS_Singleton
  <2>2. IsFiniteSet({i} \cup {j}) /\ Cardinality({i} \cup {j}) = 2
    BY <1>2, <2>1, FS_AddElement
  <2>3. Cardinality({i} \cup {j}) <= Cardinality(HistoryOf(f))
    BY <1>1, FS_Subset
  <2>4. Cardinality(HistoryOf(f)) \in Nat
    BY <1>1, FS_CardinalityType
  <2> QED
    BY <2>2, <2>3, <2>4 DEF LastWatch
<1>3. ASSUME HistoryOf(f) \subseteq {i} PROVE LastWatch(f)
  <2>1. HistoryOf(f) = {i}
    BY <1>1, <1>3
  <2>2. Cardinality({i}) = 1
    BY FS_Singleton
  <2> QED
    BY <2>1, <2>2 DEF LastWatch
<1> QED
  BY <1>1, <1>2, <1>3 DEF HistoryOf

-----------------------------------------------------------------------------
(* What a handler has read stays true *)

LEMMA IdleTrue == StillTrue(Idle) /\ StillTrue(Idle)'
  BY DEF StillTrue, Idle, Updating, Deleting

\* A request that answers holds nothing any more.
LEMMA FinishTrue ==
  ASSUME Alone, TypeOK, NEW r \in Requests, Finish(r)
  PROVE  SerialInv'
<1>1. \A s \in Requests : req'[s] = Idle
  BY DEF Alone, Finish, TypeOK
<1> QED
  BY <1>1, IdleTrue DEF SerialInv

\* A request that goes on with locals that are true of the tables, which it leaves alone.
LEMMA GoOnTrue ==
  ASSUME Alone, TypeOK, NEW r \in Requests, NEW q, req' = [req EXCEPT ![r] = q],
         ReadOnly, StillTrue(q)
  PROVE  SerialInv'
<1>1. \A s \in Requests : req'[s] = q
  BY DEF Alone, TypeOK
<1>2. StillTrue(q)'
  BY DEF StillTrue, ReadOnly, Live, HistoryOf, NewTitle, NewDirector
<1> QED
  BY <1>1, <1>2 DEF SerialInv

LEMMA SerialStep ==
  ASSUME Alone, TypeOK, SerialInv, [Next]_vars
  PROVE  SerialInv'
<1> USE DEF Updating, Deleting
<1>1. ASSUME NEW r \in Requests, Create(r) PROVE SerialInv'
  <2>0. StillTrue(req[r]) /\ req[r] \in Request
    BY DEF SerialInv, TypeOK
  <2>1. CASE BeginCreate(r)
    <3>1. PICK f \in FilmIds, t \in Titles, d \in Directors, b \in BOOLEAN :
            Begin(r, [Idle EXCEPT !.pc = "create_find_key", !.film = f, !.title = t,
                                  !.director = d, !.flag = b])
      BY <2>1, Zenon DEF BeginCreate
    <3>2. StillTrue([Idle EXCEPT !.pc = "create_find_key", !.film = f, !.title = t,
                                 !.director = d, !.flag = b])
      BY DEF StillTrue, Idle
    <3> QED
      BY <2>1, <3>1, <3>2, GoOnTrue DEF BeginCreate, Begin
  <2>2. CASE CreateFindKey(r)
    <3>1. StillTrue([req[r] EXCEPT !.pc = "create_find_id"])
      BY <2>0, <2>2 DEF CreateFindKey, StillTrue, Request
    <3> QED
      BY <2>2, <3>1, FinishTrue, GoOnTrue DEF CreateFindKey, Goto
  <2>3. CASE CreateFindId(r)
    <3>1. StillTrue([req[r] EXCEPT !.pc = "create_commit"])
      BY <2>0, <2>3 DEF CreateFindId, StillTrue, Request
    <3> QED
      BY <2>3, <3>1, FinishTrue, GoOnTrue DEF CreateFindId, Goto
  <2>4. CASE CreateCommit(r)
    BY <2>4, FinishTrue DEF CreateCommit
  <2> QED
    BY <1>1, <2>1, <2>2, <2>3, <2>4 DEF Create
<1>2. ASSUME NEW r \in Requests, Update(r) PROVE SerialInv'
  <2> DEFINE q == req[r]
  <2>0. StillTrue(q) /\ q \in Request /\ LocalsSet(q)
    BY DEF SerialInv, TypeOK
  <2>1. CASE BeginUpdate(r)
    <3>1. PICK f \in FilmIds, t \in Titles \cup {Keep}, d \in Directors \cup {Keep} :
            req' = [req EXCEPT ![r] = [Idle EXCEPT !.pc = "update_find", !.film = f,
                                                   !.title = t, !.director = d]]
      BY <2>1 DEF BeginUpdate, Begin
    <3>2. StillTrue([Idle EXCEPT !.pc = "update_find", !.film = f, !.title = t, !.director = d])
      BY DEF StillTrue, Idle
    <3> QED
      BY <2>1, <3>1, <3>2, GoOnTrue DEF BeginUpdate
  <2>2. CASE UpdateFind(r)
    <3>1. Live(q.film) => StillTrue([q EXCEPT !.pc = "update_titles", !.seen = films[q.film]])
      BY <2>0, <2>2 DEF UpdateFind, StillTrue, Request
    <3>2. Live(q.film) => req' = [req EXCEPT ![r] = [q EXCEPT !.pc = "update_titles",
                                                              !.seen = films[q.film]]]
      BY <2>2 DEF UpdateFind
    <3> QED
      BY <2>2, <3>1, <3>2, FinishTrue, GoOnTrue DEF UpdateFind
  <2>3. CASE UpdateReadTitles(r)
    <3> DEFINE k == derive_natural_key(NewTitle(q), NewDirector(q))
               pc == IF k = q.seen.natural_key THEN "update_commit" ELSE "update_find_key"
               p == [q EXCEPT !.newKey = k, !.pc = pc]
    <3>1. q.seen = films[q.film] /\ Live(q.film) /\ q.rating = NoRating
      BY <2>0, <2>3 DEF UpdateReadTitles, StillTrue
    <3>2. title[q.film] # Keep => req' = [req EXCEPT ![r] = p]
      <4>1. k = derive_natural_key(IF q.title = Keep THEN title[q.film] ELSE q.title,
                                   IF q.director = Keep THEN q.seen.director ELSE q.director)
        BY <3>1 DEF NewTitle, NewDirector
      <4> HIDE DEF k
      <4> QED
        BY <2>3, <4>1 DEF UpdateReadTitles
    <3>3. StillTrue(p)
      <4>1. /\ p.pc \in {"update_commit", "update_find_key"}
            /\ p.newKey = k /\ p.film = q.film /\ p.seen = q.seen
            /\ p.title = q.title /\ p.director = q.director /\ p.rating = q.rating
        BY <2>0 DEF Request
      <4>2. k = derive_natural_key(NewTitle(p), NewDirector(p))
        BY <4>1 DEF NewTitle, NewDirector
      <4> HIDE DEF p, k
      <4> QED
        BY <3>1, <4>1, <4>2 DEF StillTrue
    <3> QED
      BY <2>3, <3>2, <3>3, FinishTrue, GoOnTrue DEF UpdateReadTitles
  <2>4. CASE UpdateFindKey(r)
    <3>1. StillTrue([q EXCEPT !.pc = "update_commit"])
      BY <2>0, <2>4 DEF UpdateFindKey, StillTrue, Request, NewTitle, NewDirector
    <3> QED
      BY <2>4, <3>1, FinishTrue, GoOnTrue DEF UpdateFindKey, Goto
  <2>5. CASE UpdateCommit(r)
    BY <2>5, FinishTrue DEF UpdateCommit
  <2> QED
    BY <1>2, <2>1, <2>2, <2>3, <2>4, <2>5 DEF Update
<1>3. ASSUME NEW r \in Requests, Delete(r) PROVE SerialInv'
  <2>0. StillTrue(req[r]) /\ req[r] \in Request
    BY DEF SerialInv, TypeOK
  <2>1. CASE BeginDelete(r)
    <3>1. PICK f \in FilmIds :
            req' = [req EXCEPT ![r] = [Idle EXCEPT !.pc = "delete_find", !.film = f]]
      BY <2>1 DEF BeginDelete, Begin
    <3>2. StillTrue([Idle EXCEPT !.pc = "delete_find", !.film = f])
      BY DEF StillTrue, Idle
    <3> QED
      BY <2>1, <3>1, <3>2, GoOnTrue DEF BeginDelete
  <2>2. CASE DeleteFind(r)
    <3>1. StillTrue([req[r] EXCEPT !.pc = "delete_commit"])
      BY <2>0, <2>2 DEF DeleteFind, StillTrue, Request
    <3> QED
      BY <2>2, <3>1, FinishTrue, GoOnTrue DEF DeleteFind, Goto
  <2>3. CASE DeleteCommit(r)
    BY <2>3, FinishTrue DEF DeleteCommit
  <2> QED
    BY <1>3, <2>1, <2>2, <2>3 DEF Delete
<1>4. ASSUME NEW r \in Requests, AddRating(r) PROVE SerialInv'
  <2>0. StillTrue(req[r]) /\ req[r] \in Request
    BY DEF SerialInv, TypeOK
  <2>1. CASE BeginAddRating(r)
    <3>1. PICK f \in FilmIds, b \in BOOLEAN :
            req' = [req EXCEPT ![r] = [Idle EXCEPT !.pc = "add_find", !.film = f, !.flag = b]]
      BY <2>1 DEF BeginAddRating, Begin
    <3>2. StillTrue([Idle EXCEPT !.pc = "add_find", !.film = f, !.flag = b])
      BY DEF StillTrue, Idle
    <3> QED
      BY <2>1, <3>1, <3>2, GoOnTrue DEF BeginAddRating
  <2>2. CASE AddFind(r)
    <3>1. StillTrue([req[r] EXCEPT !.pc = "add_commit"])
      BY <2>0, <2>2 DEF AddFind, StillTrue, Request
    <3> QED
      BY <2>2, <3>1, FinishTrue, GoOnTrue DEF AddFind, Goto
  <2>3. CASE AddCommit(r)
    BY <2>3, FinishTrue DEF AddCommit
  <2> QED
    BY <1>4, <2>1, <2>2, <2>3 DEF AddRating
<1>5. ASSUME NEW r \in Requests, DeleteRating(r) PROVE SerialInv'
  <2> DEFINE q == req[r]
  <2>0. StillTrue(q) /\ q \in Request /\ LocalsSet(q)
    BY DEF SerialInv, TypeOK
  <2>1. CASE BeginDeleteRating(r)
    <3>1. PICK i \in RatingIds :
            req' = [req EXCEPT ![r] = [Idle EXCEPT !.pc = "get_entry", !.rating = i]]
      BY <2>1 DEF BeginDeleteRating, Begin
    <3>2. StillTrue([Idle EXCEPT !.pc = "get_entry", !.rating = i])
      BY DEF StillTrue, Idle
    <3> QED
      BY <2>1, <3>1, <3>2, GoOnTrue DEF BeginDeleteRating
  <2>2. CASE GetEntry(r)
    <3>1. StillTrue([q EXCEPT !.pc = "count", !.film = ratings[q.rating]])
      BY <2>0, <2>2 DEF GetEntry, StillTrue, Request
    <3>2. ratings[q.rating] # NoFilm
            => req' = [req EXCEPT ![r] = [q EXCEPT !.pc = "count", !.film = ratings[q.rating]]]
      BY <2>2 DEF GetEntry
    <3> QED
      BY <2>2, <3>1, <3>2, FinishTrue, GoOnTrue DEF GetEntry
  <2>3. CASE CountForFilm(r)
    <3>1. q.film \in FilmIds /\ q.rating \in RatingIds /\ ratings[q.rating] = q.film
      BY <2>0, <2>3 DEF CountForFilm, LocalsSet, StillTrue
    <3>2. CASE LastWatch(q.film)
      <4>1. StillTrue([q EXCEPT !.pc = "delete_find"])
        BY <2>0, <3>1, <3>2, LastWatchIsOnly DEF StillTrue, Request
      <4> QED
        BY <2>3, <3>2, <4>1, GoOnTrue DEF CountForFilm, Goto
    <3>3. CASE ~LastWatch(q.film)
      <4>1. StillTrue([q EXCEPT !.pc = "rating_commit"])
        BY <2>0, <3>1, <3>3, LastWatchIsOnly DEF StillTrue, Request
      <4> QED
        BY <2>3, <3>3, <4>1, GoOnTrue DEF CountForFilm, Goto
    <3> QED
      BY <3>2, <3>3
  <2>4. CASE DeleteRatingCommit(r)
    BY <2>4, FinishTrue DEF DeleteRatingCommit
  <2> QED
    BY <1>5, <2>1, <2>2, <2>3, <2>4 DEF DeleteRating
<1>6. ASSUME NEW r \in Requests, Abort(r) PROVE SerialInv'
  BY <1>6, FinishTrue DEF Abort
<1>7. CASE UNCHANGED vars
  BY <1>7 DEF vars, SerialInv, StillTrue, Live, HistoryOf, NewTitle, NewDirector
<1> QED
  BY <1>1, <1>2, <1>3, <1>4, <1>5, <1>6, <1>7 DEF Next

LEMMA SerialInit == Init => TypeOK /\ NaturalKeysUnique /\ NoDanglingRows /\ SerialInv
  BY IdleTyped, IdleTrue
     DEF Init, TypeOK, NaturalKeysUnique, NoDanglingRows, Live, SerialInv

-----------------------------------------------------------------------------
(* Every film has a watch *)

\* The commit of a create writes at least one watch.
LEMMA CreateWatches ==
  ASSUME NEW r \in Requests, CreateCommit(r)
  PROVE  \E W \in SUBSET RatingIds :
           /\ W # {}
           /\ \A i \in W : ratings[i] = NoFilm
           /\ ratings' = [i \in RatingIds |-> IF i \in W THEN req[r].film ELSE ratings[i]]
<1>1. PICK W \in SUBSET {i \in RatingIds : FreshRating(i)} :
        /\ Cardinality(W) = IF req[r].flag THEN 2 ELSE 1
        /\ ratings' = [i \in RatingIds |-> IF i \in W THEN req[r].film ELSE ratings[i]]
  BY DEF CreateCommit
<1>2. Cardinality({}) = 0
  BY FS_EmptySet
<1> QED
  BY <1>1, <1>2 DEF FreshRating

LEMMA WatchedStep ==
  ASSUME TypeOK, NoDanglingRows, SerialInv, EveryFilmWatched, [Next]_vars
  PROVE  EveryFilmWatched'
<1> SUFFICES ASSUME NEW g \in FilmIds, films'[g] # NoFilm
             PROVE  \E i \in RatingIds : ratings'[i] = g
  BY DEF EveryFilmWatched, Live, HistoryOf
<1>0. films[g] # NoFilm => \E i \in RatingIds : ratings[i] = g
  BY DEF EveryFilmWatched, Live, HistoryOf
<1>1. ASSUME NEW r \in Requests, CreateCommit(r)
      PROVE  \E i \in RatingIds : ratings'[i] = g
  <2>1. PICK W \in SUBSET RatingIds :
          /\ W # {}
          /\ \A i \in W : ratings[i] = NoFilm
          /\ ratings' = [i \in RatingIds |-> IF i \in W THEN req[r].film ELSE ratings[i]]
    BY <1>1, CreateWatches
  <2>2. g # req[r].film => films'[g] = films[g]
    BY <1>1 DEF CreateCommit, TypeOK
  <2> QED
    BY <1>0, <2>1, <2>2, NullAssumption
<1>2. ASSUME NEW r \in Requests, UpdateCommit(r)
      PROVE  \E i \in RatingIds : ratings'[i] = g
  BY <1>0, <1>2 DEF UpdateCommit, Live, TypeOK
<1>3. ASSUME NEW r \in Requests, DeleteCommit(r)
      PROVE  \E i \in RatingIds : ratings'[i] = g
  BY <1>0, <1>3 DEF DeleteCommit, WithoutHistory, TypeOK
<1>4. ASSUME NEW r \in Requests, AddCommit(r)
      PROVE  \E i \in RatingIds : ratings'[i] = g
  BY <1>0, <1>4, NullAssumption DEF AddCommit, FreshRating, TypeOK
<1>5. ASSUME NEW r \in Requests, DeleteRatingCommit(r)
      PROVE  \E i \in RatingIds : ratings'[i] = g
  <2>1. \E j \in RatingIds : j # req[r].rating /\ ratings[j] = req[r].film
    BY <1>5 DEF DeleteRatingCommit, SerialInv, StillTrue
  <2>2. ratings[req[r].rating] = req[r].film
    BY <1>5 DEF DeleteRatingCommit, SerialInv, StillTrue
  <2> QED
    BY <1>0, <1>5, <2>1, <2>2 DEF DeleteRatingCommit, TypeOK
<1>6. CASE UNCHANGED <<films, title, ratings>>
  BY <1>0, <1>6
<1> QED
  BY <1>1, <1>2, <1>3, <1>4, <1>5, <1>6, Writers

\* FR-RAT-07: with one request at a time, a film of the library always has a watch.
THEOREM FilmsStayWatched ==
  ASSUME Alone
  PROVE  Spec => []EveryFilmWatched
<1>1. Init => EveryFilmWatched
  BY DEF Init, EveryFilmWatched, Live
<1> QED
  BY <1>1, SerialInit, TypeStep, RowsStep, SerialStep, WatchedStep, PTL DEF Spec

-----------------------------------------------------------------------------
(* The natural key is that of the stored parts *)

LEMMA KeyStep ==
  ASSUME TypeOK, NoDanglingRows, SerialInv, KeyMatchesParts, [Next]_vars
  PROVE  KeyMatchesParts'
<1> SUFFICES ASSUME NEW g \in FilmIds, films'[g] # NoFilm, title'[g] # Keep
             PROVE  films'[g].natural_key = derive_natural_key(title'[g], films'[g].director)
  BY DEF KeyMatchesParts, Live, derive_natural_key
<1> DEFINE Matches == films'[g].natural_key = derive_natural_key(title'[g], films'[g].director)
<1>0. films[g] # NoFilm /\ title[g] # Keep
        => films[g].natural_key = derive_natural_key(title[g], films[g].director)
  BY DEF KeyMatchesParts, Live
<1>1. ASSUME NEW r \in Requests, CreateCommit(r) PROVE Matches
  BY <1>0, <1>1 DEF CreateCommit, TypeOK
<1>2. ASSUME NEW r \in Requests, UpdateCommit(r) PROVE Matches
  <2> DEFINE q == req[r]
  <2>1. /\ q.film \in FilmIds /\ films[q.film] \in FilmRow
        /\ q.seen = films[q.film] /\ title[q.film] # Keep
        /\ q.newKey = derive_natural_key(NewTitle(q), NewDirector(q))
    BY <1>2, LiveIsRow, TypeParts, CommittedRows
       DEF UpdateCommit, SerialInv, StillTrue, Updating, NoDanglingRows
  <2>2. /\ films' = [films EXCEPT ![q.film] = RowWritten(q, films[q.film])]
        /\ title' = IF q.title = Keep THEN title ELSE [title EXCEPT ![q.film] = q.title]
    BY <1>2 DEF UpdateCommit
  <2>3. CASE g = q.film
    <3>1. films'[g] = RowWritten(q, films[g]) /\ title'[g] = NewTitle(q)
      BY <2>1, <2>2, <2>3 DEF NewTitle, TypeOK
    <3>2. RowWritten(q, films[g]).director = NewDirector(q)
      BY <2>1, <2>3 DEF RowWritten, NewDirector
    <3>3. RowWritten(q, films[g]).natural_key = q.newKey
      BY <2>1, <2>3 DEF RowWritten, KeyChanged
    <3> QED
      BY <2>1, <3>1, <3>2, <3>3
  <2>4. CASE g # q.film
    BY <1>0, <2>1, <2>2, <2>4 DEF TypeOK
  <2> QED
    BY <2>3, <2>4
<1>3. ASSUME NEW r \in Requests, DeleteCommit(r) PROVE Matches
  BY <1>0, <1>3 DEF DeleteCommit, TypeOK
<1>4. CASE UNCHANGED <<films, title>>
  BY <1>0, <1>4
<1> QED
  BY <1>1, <1>2, <1>3, <1>4, Writers DEF AddCommit, DeleteRatingCommit

\* With one request at a time, the stored natural key is always the one of the stored title
\* and director, so the duplicate checks compare the films as they are.
THEOREM KeysAreRebuilt ==
  ASSUME Alone
  PROVE  Spec => []KeyMatchesParts
<1>1. Init => KeyMatchesParts
  BY DEF Init, KeyMatchesParts, Live
<1> QED
  BY <1>1, SerialInit, TypeStep, RowsStep, SerialStep, KeyStep, PTL DEF Spec
-----------------------------------------------------------------------------
(* The deletion of a watch *)

LEMMA DeletionStep ==
  ASSUME Alone, TypeOK, SerialInv, [Next]_vars,
         NEW r \in Requests, req[r].rating # NoRating, req'[r] = Idle,
         NEW i \in RatingIds, ratings[i] # NoFilm, ratings'[i] = NoFilm
  PROVE  i = req[r].rating
<1>0. StillTrue(req[r]) /\ LocalsSet(req[r])
  BY DEF SerialInv, TypeOK
<1>1. ASSUME NEW s \in Requests, CreateCommit(s) PROVE FALSE
  <2>1. PICK W \in SUBSET RatingIds :
          /\ \A j \in W : ratings[j] = NoFilm
          /\ ratings' = [j \in RatingIds |-> IF j \in W THEN req[s].film ELSE ratings[j]]
    BY <1>1, CreateWatches
  <2> QED
    BY <2>1
<1>2. ASSUME NEW s \in Requests, DeleteCommit(s) PROVE i = req[r].rating
  <2>1. s = r /\ HistoryOf(req[r].film) \subseteq {req[r].rating}
    BY <1>0, <1>2 DEF Alone, DeleteCommit, StillTrue, Deleting
  <2>2. ratings[i] = req[r].film
    BY <1>2, <2>1 DEF DeleteCommit, WithoutHistory
  <2> QED
    BY <2>1, <2>2 DEF HistoryOf
<1>3. ASSUME NEW s \in Requests, DeleteRatingCommit(s) PROVE i = req[r].rating
  BY <1>3 DEF Alone, DeleteRatingCommit, TypeOK
<1>4. ASSUME NEW s \in Requests, AddCommit(s) PROVE FALSE
  BY <1>4, NullAssumption DEF AddCommit, FreshRating, TypeOK, LocalsSet
<1> QED
  BY <1>1, <1>2, <1>3, <1>4, Writers DEF UpdateCommit

\* With one request at a time, deleting a watch never takes another one along, whether it
\* goes alone or, as the last one, with its film.
THEOREM DeletionIsExact ==
  ASSUME Alone
  PROVE  Spec => RatingDeletionTakesOnlyItsWatch
<1>1. TypeOK /\ SerialInv /\ [Next]_vars
        => [\A r \in Requests :
              req[r].rating # NoRating /\ req'[r] = Idle
                => \A i \in RatingIds : ratings[i] # NoFilm /\ ratings'[i] = NoFilm
                                          => i = req[r].rating]_vars
  BY DeletionStep
<1> QED
  BY <1>1, SerialInit, TypeStep, SerialStep, PTL DEF Spec, RatingDeletionTakesOnlyItsWatch

-----------------------------------------------------------------------------
(* The refinement of Library *)

\* Film f as the library sees it.
Seen(f) == [title |-> title[f], director |-> films[f].director]
Catalog == [f \in FilmIds |-> IF Live(f) THEN Seen(f) ELSE NoFilm]

\* A stored film is an entry of the library's catalog.
LEMMA SeenIsEntry ==
  ASSUME TypeOK, NoDanglingRows, NEW f \in FilmIds
  PROVE  /\ Live(f) => Seen(f) \in [title : Titles, director : Directors]
         /\ Live(f) <=> Catalog[f] # NoFilm
<1>1. Live(f) => films[f] \in FilmRow /\ title[f] \in Titles
  BY LiveIsRow, TypeParts DEF NoDanglingRows, TypeOK
<1>2. Live(f) => Seen(f) \in [title : Titles, director : Directors]
  BY <1>1 DEF Seen, FilmRow
<1> QED
  BY <1>2, RowAssumption DEF Catalog

\* ... and so is one that a step has stored.
LEMMA StoredIsEntry ==
  ASSUME TypeOK', NoDanglingRows', NEW f \in FilmIds, Live(f)'
  PROVE  [title |-> title'[f], director |-> films'[f].director] \in [title : Titles, director : Directors]
BY NullAssumption DEF TypeOK, NoDanglingRows, Live, FilmRow

\* The identity of a stored film is its natural key.
LEMMA IdentityIsKey ==
  ASSUME TypeOK, NoDanglingRows, KeyMatchesParts, NEW f \in FilmIds, Live(f)
  PROVE  Lib!Identity(Seen(f)) = films[f].natural_key
BY DEF Lib!Identity, Seen, derive_natural_key, KeyMatchesParts, NoDanglingRows

\* A film whose row a step writes has an identity no other film has.
LEMMA WrittenIdentityFree ==
  ASSUME TypeOK, NoDanglingRows, KeyMatchesParts,
         TypeOK', NoDanglingRows', KeyMatchesParts', NaturalKeysUnique',
         NEW f \in FilmIds, Live(f)', NEW e,
         e = [title |-> title'[f], director |-> films'[f].director],
         \A g \in FilmIds \ {f} : films'[g] = films[g] /\ title'[g] = title[g]
  PROVE  Lib!IdentityFree(e, f)
<1> SUFFICES ASSUME NEW g \in FilmIds \ {f}, Live(g)
             PROVE  Lib!Identity(Seen(g)) # Lib!Identity(e)
  BY SeenIsEntry DEF Lib!IdentityFree, Lib!InLibrary, Catalog, Seen
<1>1. Lib!Identity(Seen(g)) = films[g].natural_key
  BY IdentityIsKey
<1>2. Lib!Identity(e) = films'[f].natural_key
  BY DEF Lib!Identity, Seen, derive_natural_key, KeyMatchesParts, NoDanglingRows, Live
<1>3. Live(g)' /\ films'[g].natural_key = films[g].natural_key
  BY DEF Live
<1> QED
  BY <1>1, <1>2, <1>3 DEF NaturalKeysUnique

LEMMA LibraryInit == Init => Lib!Init
  BY DEF Init, Lib!Init, Live

\* A commit is one operation of the library; everything else stutters.
LEMMA LibraryStep ==
  ASSUME TypeOK, NoDanglingRows, KeyMatchesParts, SerialInv, [Next]_vars,
         TypeOK', NoDanglingRows', KeyMatchesParts', NaturalKeysUnique'
  PROVE  [Lib!Next]_(Lib!vars)
<1> DEFINE Stays(f) == \A g \in FilmIds \ {f} : films'[g] = films[g] /\ title'[g] = title[g]
<1>0. ASSUME NEW f \in FilmIds, Stays(f)
      PROVE  Catalog' = [Catalog EXCEPT ![f] = Catalog'[f]]
  BY <1>0 DEF Catalog, Seen, Live
<1>1. ASSUME NEW r \in Requests, CreateCommit(r) PROVE Lib!Next
  <2>0. PICK f \in FilmIds : f = req[r].film
    BY <1>1, CommittedRows
  <2>1. ~Live(f) /\ Stays(f)
    BY <1>1, <2>0 DEF CreateCommit, TypeOK
  <2>2. Live(f)'
    <3>1. PICK row \in FilmRow : row = [director |-> req[r].director,
             natural_key |-> derive_natural_key(req[r].title, req[r].director)]
      BY <1>1, <2>0, CommittedRows
    <3>2. films' = [films EXCEPT ![f] = row]
      BY <1>1, <2>0, <3>1 DEF CreateCommit
    <3> QED
      BY <3>1, <3>2, RowAssumption DEF Live, TypeOK
  <2>3. PICK e \in Lib!Entry : e = [title |-> title'[f], director |-> films'[f].director]
    BY <2>2, StoredIsEntry DEF Lib!Entry
  <2>4. Lib!IdentityFree(e, f)
    BY <2>1, <2>2, <2>3, WrittenIdentityFree
  <2>5. Catalog' = [Catalog EXCEPT ![f] = e]
    BY <1>0, <2>1, <2>2, <2>3 DEF Catalog, Seen, Live
  <2>6. Lib!LogFilm(f, e)
    BY <1>1, <2>0, <2>1, <2>4, <2>5, CreateWatches DEF Lib!LogFilm, Lib!InLibrary, Catalog, Seen
  <2> QED
    BY <2>3, <2>6 DEF Lib!Next
<1>2. ASSUME NEW r \in Requests, UpdateCommit(r) PROVE Lib!Next
  <2>0. PICK f \in FilmIds : f = req[r].film
    BY <1>2, CommittedRows
  <2>1. Live(f) /\ Stays(f) /\ UNCHANGED ratings
    BY <1>2, <2>0 DEF UpdateCommit, TypeOK
  <2>2. Live(f)'
    <3>1. PICK row \in FilmRow : row = RowWritten(req[r], films[f])
      BY <1>2, <2>0, CommittedRows
    <3>2. films' = [films EXCEPT ![f] = row]
      BY <1>2, <2>0, <3>1 DEF UpdateCommit
    <3> QED
      BY <3>1, <3>2, RowAssumption DEF Live, TypeOK
  <2>3. PICK e \in Lib!Entry : e = [title |-> title'[f], director |-> films'[f].director]
    BY <2>2, StoredIsEntry DEF Lib!Entry
  <2>4. Lib!IdentityFree(e, f)
    BY <2>1, <2>2, <2>3, WrittenIdentityFree
  <2>5. Catalog' = [Catalog EXCEPT ![f] = e]
    BY <1>0, <2>1, <2>2, <2>3 DEF Catalog, Seen, Live
  <2>6. Lib!EditFilm(f, e)
    BY <2>1, <2>4, <2>5, SeenIsEntry DEF Lib!EditFilm, Lib!InLibrary, Catalog, Seen
  <2> QED
    BY <2>3, <2>6 DEF Lib!Next
<1>3. ASSUME NEW r \in Requests, DeleteCommit(r) PROVE Lib!Next \/ UNCHANGED Lib!vars
  <2>0. PICK f \in FilmIds : f = req[r].film
    BY <1>3 DEF DeleteCommit, TypeOK, LocalsSet
  <2>1. Stays(f) /\ films'[f] = NoFilm
    BY <1>3, <2>0 DEF DeleteCommit, TypeOK, LocalsSet
  <2>2. Catalog' = [Catalog EXCEPT ![f] = NoFilm]
    BY <1>0, <2>1 DEF Catalog, Live
  <2>3. ratings' = WithoutHistory(f)
    BY <1>3, <2>0 DEF DeleteCommit
  <2>4. CASE Live(f)
    <3>1. Lib!RemoveFilm(f)
      BY <2>1, <2>2, <2>3, <2>4, SeenIsEntry
         DEF Lib!RemoveFilm, Lib!InLibrary, Catalog, Seen, WithoutHistory
    <3> QED
      BY <3>1 DEF Lib!Next
  <2>5. CASE ~Live(f)
    <3>1. Catalog' = Catalog
      BY <2>1, <2>2, <2>5 DEF Catalog
    <3>2. \A i \in RatingIds : ratings[i] # f
      BY <2>1, <2>5, NullAssumption DEF NoDanglingRows
    <3>3. ratings' = ratings
      BY <2>3, <3>2 DEF WithoutHistory, TypeOK
    <3> QED
      BY <3>1, <3>3 DEF Lib!vars, Catalog, Seen
  <2> QED
    BY <2>4, <2>5
<1>4. ASSUME NEW r \in Requests, AddCommit(r) PROVE Lib!Next
  <2>0. PICK f \in FilmIds : f = req[r].film
    BY <1>4 DEF AddCommit, TypeOK, LocalsSet
  <2>1. PICK i \in RatingIds : FreshRating(i) /\ ratings' = [ratings EXCEPT ![i] = f]
    BY <1>4, <2>0 DEF AddCommit
  <2>2. Live(f) /\ UNCHANGED <<films, title>>
    BY <1>4, <2>0 DEF AddCommit
  <2>3. Lib!LogWatch(f, i)
    BY <2>1, <2>2, SeenIsEntry DEF Lib!LogWatch, Lib!InLibrary, Catalog, Seen, FreshRating, Live
  <2> QED
    BY <2>3 DEF Lib!Next
<1>5. ASSUME NEW r \in Requests, DeleteRatingCommit(r) PROVE Lib!Next
  <2>0. PICK i \in RatingIds : i = req[r].rating
    BY <1>5 DEF DeleteRatingCommit, TypeOK, LocalsSet
  <2>1. /\ req[r].film \in FilmIds /\ ratings[i] = req[r].film
        /\ \E j \in RatingIds : j # i /\ ratings[j] = req[r].film
    BY <1>5, <2>0 DEF DeleteRatingCommit, SerialInv, StillTrue, TypeOK, LocalsSet
  <2>2. ratings' = [ratings EXCEPT ![i] = NoFilm] /\ UNCHANGED <<films, title>>
    BY <1>5, <2>0 DEF DeleteRatingCommit
  <2>3. Lib!RemoveWatch(i)
    BY <2>1, <2>2, NullAssumption DEF Lib!RemoveWatch, Live
  <2> QED
    BY <2>3 DEF Lib!Next
<1>6. CASE UNCHANGED <<films, title, ratings>>
  BY <1>6 DEF Lib!vars, Live
<1> QED
  BY <1>1, <1>2, <1>3, <1>4, <1>5, <1>6, Writers

\* With one request at a time, the flows implement the library of module Library: every
\* request is one of its operations, or changes nothing.
THEOREM ImplementsLibrary ==
  ASSUME Alone
  PROVE  Spec => LibrarySpec
<1>1. Init => KeyMatchesParts
  BY DEF Init, KeyMatchesParts, Live
<1> QED
  BY <1>1, SerialInit, LibraryInit, TypeStep, KeysStep, RowsStep, SerialStep, KeyStep,
     LibraryStep, PTL DEF Spec, LibrarySpec, Lib!Spec
=============================================================================

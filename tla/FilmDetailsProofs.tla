-------------------------- MODULE FilmDetailsProofs -------------------------
(***************************************************************************)
(* What holds of one film's rows however any number of edits, deletions,   *)
(* reads and palette backfills interleave: types; that its titles are one  *)
(* list that was accepted as a whole; that its palette is its poster's;    *)
(* that an edit is applied whole, its genres in order; and that a request  *)
(* nothing overlaps does not fail.                                         *)
(***************************************************************************)
EXTENDS FilmDetails, FiniteSetTheorems, WellFoundedInduction, TLAPS

-----------------------------------------------------------------------------
(* Payloads *)

Envelopes == [status : Nat, code : Codes]

LEMMA HandledTyped ==
  ASSUME NEW exception
  PROVE  Handled(exception) \in Envelopes
<1>1. DOMAIN AppErrors = {"FilmNotFoundError", "DuplicateFilmError", "InvalidGenreNameError"}
  BY DEF AppErrors
<1>2. /\ AppErrors["FilmNotFoundError"] \in Envelopes
      /\ AppErrors["DuplicateFilmError"] \in Envelopes
      /\ AppErrors["InvalidGenreNameError"] \in Envelopes
  BY DEF AppErrors, envelope, Envelopes, Codes
<1>3. exception \in DOMAIN AppErrors => AppErrors[exception] \in Envelopes
  BY <1>1, <1>2
<1> HIDE DEF AppErrors
<1> QED BY <1>3 DEF Handled, envelope, Envelopes, Codes

LEMMA OrderTyped ==
  ASSUME NEW S, NEW names \in Seq(S)
  PROVE  Positions(names) \in Positioned
<1>2. ASSUME NEW g \in Genres
      PROVE  KeptPosition(names, g) \in Nat
  <2>1. IsFiniteSet(DOMAIN names)
    <3>1. DOMAIN names = 1..Len(names) /\ Len(names) \in Nat
      OBVIOUS
    <3> QED BY <3>1, FS_Interval
  <2>2. IsFiniteSet(Before(names, g))
    BY <2>1, FS_Subset DEF Before
  <2>3. IsFiniteSet({names[i] : i \in Before(names, g)})
    <3> DEFINE T == {names[i] : i \in Before(names, g)}
               f == [i \in Before(names, g) |-> names[i]]
    <3>1. f \in Surjection(Before(names, g), T)
      BY DEF Surjection
    <3> QED BY <2>2, <3>1, FS_Surjection
  <2> QED BY <2>3, FS_CardinalityType DEF KeptPosition
<1> QED BY <1>2 DEF Positions, Positioned, Unlinked

LEMMA PositionsTyped ==
  ASSUME NEW e \in Edits, e.genre # NotNamed
  PROVE  Positions(e.genre) \in Positioned
<1>1. e.genre \in Seq(Genres \cup {Blank})
  BY DetailsAssumption DEF Edit
<1> QED BY <1>1, OrderTyped

LEMMA RowsTyped ==
  ASSUME NEW e \in Edits, e.titles # NotNamed
  PROVE  TitleRowsOf(e) \subseteq TitleRow
<1>1. e.titles \in Seq(TitleRow)
  BY DetailsAssumption DEF Edit
<1>2. WithRulesApplied(e.titles) \in Seq(TitleRow)
  <2>1. CASE Len(e.titles) = 1
    <3>1. e.titles[1] \in TitleRow
      BY <1>1, <2>1
    <3>2. [e.titles[1] EXCEPT !.is_primary = TRUE] \in TitleRow
      BY <3>1 DEF TitleRow
    <3> QED BY <2>1, <3>2 DEF WithRulesApplied
  <2>2. CASE Len(e.titles) # 1
    BY <1>1, <2>2 DEF WithRulesApplied
  <2> QED BY <2>1, <2>2
<1> QED BY <1>2 DEF TitleRowsOf, Rows

\* A list that was accepted has a primary title.
LEMMA AcceptedHasPrimary ==
  ASSUME NEW e \in Edits, e.titles # NotNamed, Allowed(e)
  PROVE  Primaries(TitleRowsOf(e)) # {}
<1> DEFINE titles == WithRulesApplied(e.titles)
<1>1. FlagsAllowed(titles)
  BY DEF Allowed, TitlesAllowed
<1> HIDE DEF titles
<1>2. PICK i \in DOMAIN titles : \A j \in DOMAIN titles : titles[j].is_primary <=> j = i
  BY <1>1 DEF FlagsAllowed
<1>3. titles[i] \in Primaries(Rows(titles))
  BY <1>2 DEF Primaries, Rows
<1> QED BY <1>3 DEF TitleRowsOf, titles

-----------------------------------------------------------------------------
(* Types *)

LEMMA IdleTyped ==
  ASSUME NEW answer \in Envelopes
  PROVE  Idle \in Request /\ [Idle EXCEPT !.answer = answer] \in Request
<1>1. Idle \in Request
  BY DEF Idle, Request, Pc, Poster, NoPoster, Lost, envelope, Codes
<1>2. \A q \in Request : [q EXCEPT !.answer = answer] \in Request
  BY DEF Request, Envelopes
<1> QED BY <1>1, <1>2

LEMMA FieldsTyped ==
  ASSUME NEW q \in Request
  PROVE  /\ \A pc \in Pc : [q EXCEPT !.pc = pc] \in Request
         /\ \A e \in Edits : [q EXCEPT !.edit = e] \in Request
         /\ \A b \in BOOLEAN : [q EXCEPT !.alone = b] \in Request
         /\ \A b \in BOOLEAN : [q EXCEPT !.all = b] \in Request
         /\ \A p \in Poster : [q EXCEPT !.seen = p] \in Request
         /\ \A p \in Poster : [q EXCEPT !.new = p] \in Request
         /\ \A T \in SUBSET TitleRow : [q EXCEPT !.picked = T] \in Request
         /\ \A T \in SUBSET TitleRow : [q EXCEPT !.cut = T] \in Request
         /\ \A T \in SUBSET TitleRow : [q EXCEPT !.added = T] \in Request
         /\ \A T \in SUBSET TitleRow : [q EXCEPT !.shown = T] \in Request
         /\ \A b \in BOOLEAN : [q EXCEPT !.flushed = b] \in Request
         /\ \A G \in SUBSET Genres : [q EXCEPT !.have = G] \in Request
         /\ \A P \in Positioned : [q EXCEPT !.links = P] \in Request
<1> DEFINE Payloads == Edits \cup {Blankly}
           Links == Positioned \cup {NotNamed}
           Sets == SUBSET TitleRow
           Answers == [status : Nat, code : Codes]
<1>1. Request = [pc : Pc, edit : Payloads, alone : BOOLEAN, all : BOOLEAN, seen : Poster,
                 new : Poster, picked : Sets, cut : Sets, added : Sets, flushed : BOOLEAN,
                 have : SUBSET Genres, links : Links, shown : Sets, answer : Answers]
  BY DEF Request
<1>2. Edits \subseteq Payloads /\ Positioned \subseteq Links
  OBVIOUS
<1> HIDE DEF Payloads, Links, Sets, Answers
<1>3. \A pc \in Pc : [q EXCEPT !.pc = pc] \in Request
  BY <1>1
<1>4. \A e \in Edits : [q EXCEPT !.edit = e] \in Request
  BY <1>1, <1>2
<1>5. \A b \in BOOLEAN : [q EXCEPT !.alone = b] \in Request
  BY <1>1
<1>6. \A b \in BOOLEAN : [q EXCEPT !.all = b] \in Request
  BY <1>1
<1>7. \A p \in Poster : [q EXCEPT !.seen = p] \in Request
  BY <1>1
<1>8. \A p \in Poster : [q EXCEPT !.new = p] \in Request
  BY <1>1
<1>9. \A T \in Sets : [q EXCEPT !.picked = T] \in Request
  BY <1>1
<1>10. \A T \in Sets : [q EXCEPT !.cut = T] \in Request
  BY <1>1
<1>11. \A T \in Sets : [q EXCEPT !.added = T] \in Request
  BY <1>1
<1>12. \A T \in Sets : [q EXCEPT !.shown = T] \in Request
  BY <1>1
<1>13. \A b \in BOOLEAN : [q EXCEPT !.flushed = b] \in Request
  BY <1>1
<1>14. \A G \in SUBSET Genres : [q EXCEPT !.have = G] \in Request
  BY <1>1
<1>15. \A P \in Positioned : [q EXCEPT !.links = P] \in Request
  BY <1>1, <1>2
<1> QED
  BY <1>3, <1>4, <1>5, <1>6, <1>7, <1>8, <1>9, <1>10, <1>11, <1>12, <1>13, <1>14, <1>15 DEF Sets

LEMMA FinishTyped ==
  ASSUME TypeOK, NEW r \in Requests, NEW answer \in Envelopes, Finish(r, answer)
  PROVE  req' \in [Requests -> Request]
  BY IdleTyped DEF Finish, TypeOK

LEMMA RaiseTyped ==
  ASSUME TypeOK, NEW r \in Requests, NEW exception, Raise(r, exception)
  PROVE  TypeOK'
  BY FinishTyped, HandledTyped DEF Raise, RolledBack, TypeOK

LEMMA SuccessTyped == Success \in Envelopes /\ Lost \in Envelopes
  BY DEF Success, Lost, envelope, Envelopes, Codes

LEMMA LocalsTyped ==
  ASSUME TypeOK, NEW r \in Requests, NEW q \in Request, req' = [req EXCEPT ![r] = q],
         UNCHANGED <<film, crossed>>
  PROVE  TypeOK'
  BY DEF TypeOK

LEMMA ReleaseTyped ==
  ASSUME TypeOK, NEW r \in Requests, NEW rows, NEW q \in Request, Release(r, rows, q)
  PROVE  req' \in [Requests -> Request]
<1>1. \A s \in Requests : [req[s] EXCEPT !.picked = @ \ rows] \in Request
  <2> SUFFICES ASSUME NEW s \in Requests
               PROVE  [req[s] EXCEPT !.picked = @ \ rows] \in Request
    OBVIOUS
  <2>1. req[s] \in Request /\ req[s].picked \ rows \in SUBSET TitleRow
    BY DEF TypeOK, Request
  <2> QED BY <2>1, FieldsTyped
<1> QED BY <1>1 DEF Release

LEMMA StartTyped ==
  ASSUME TypeOK, NEW r \in Requests, NEW q \in Request, Start(r, q)
  PROVE  TypeOK'
<1>1. \A t \in Request, b \in BOOLEAN : [t EXCEPT !.alone = b] \in Request
  BY FieldsTyped
<1>2. Idle \in Request
  BY IdleTyped, SuccessTyped
<1>3. req' \in [Requests -> Request]
  BY <1>1, <1>2 DEF Start, TypeOK
<1>4. crossed' \subseteq {"poster", "genre"}
  BY DEF Start, TypeOK, Writes
<1> QED BY <1>3, <1>4 DEF Start, TypeOK

LEMMA SealedTyped ==
  ASSUME TypeOK, NEW r \in Requests
  PROVE  Sealed(r) \in Film
<1>1. /\ film \in Film /\ req[r] \in Request
      /\ req[r].new \in Poster /\ req[r].links \in Positioned \cup {NotNamed}
      /\ req[r].edit \in Edits \cup {Blankly}
  BY DEF TypeOK, Request
<1>2. Moved(r) \in Positioned
  BY <1>1 DEF Moved, Positioned, Film
<1>3. FlushedTitles(r) \in SUBSET TitleRow
  BY <1>1, RowsTyped DEF FlushedTitles, Blankly
<1> DEFINE new == FlushedTitles(r)
           moved == Moved(r)
<1>4. Sealed(r) = [live |-> film.live,
                   poster |-> IF req[r].new.poster # req[r].seen.poster THEN req[r].new.poster
                              ELSE film.poster,
                   palette |-> IF req[r].new.palette # req[r].seen.palette THEN req[r].new.palette
                               ELSE film.palette,
                   titles |-> (film.titles \ req[r].cut) \cup new,
                   position |-> moved]
  BY DEF Sealed
<1> HIDE DEF new, moved
<1>5. new \subseteq TitleRow /\ moved \in Positioned
  BY <1>2, <1>3 DEF new, moved
<1> QED BY <1>1, <1>4, <1>5 DEF Film, Poster

\* What an edit under way has in its payload.
Underway(q) ==
    /\ q.pc \in {"find", "list_titles", "cut", "wait_cut", "fetch", "genres", "relabel", "seal"}
         => q.edit \in Edits /\ Allowed(q.edit)
    /\ q.pc \in {"genres", "relabel"} => q.edit.genre # NotNamed

LEMMA TypeStep ==
  ASSUME TypeOK, \A r \in Requests : Underway(req[r]), [Next]_vars
  PROVE  TypeOK'
<1>0. film \in Film /\ req \in [Requests -> Request]
  BY DEF TypeOK
<1>1. CASE UNCHANGED vars
  BY <1>1 DEF TypeOK, vars
<1>2. ASSUME NEW e \in Edits, NEW palette \in Posters \cup {None}, CreateFilm(e, palette)
      PROVE  TypeOK'
  <2>1. e \in Edit /\ e.titles # NotNamed /\ e.genre # NotNamed /\ e.poster_image # NotNamed
    BY <1>2, DetailsAssumption DEF CreateFilm, Edit
  <2>2. Positions(e.genre) \in Positioned /\ TitleRowsOf(e) \subseteq TitleRow
    BY <2>1, PositionsTyped, RowsTyped
  <2>3. e.poster_image \in Posters \cup {None}
    BY <2>1 DEF Edit
  <2> DEFINE rows == TitleRowsOf(e)
             position == Positions(e.genre)
  <2>4. film' = [live |-> TRUE, poster |-> e.poster_image, palette |-> palette,
                 titles |-> rows, position |-> position]
    BY <1>2 DEF CreateFilm
  <2> HIDE DEF rows, position
  <2>5. film' \in Film /\ film'.live
    BY <2>2, <2>3, <2>4 DEF Film, rows, position
  <2> QED BY <1>2, <2>5 DEF TypeOK, CreateFilm
<1> SUFFICES ASSUME NEW r \in Requests,
                    EditStep(r) \/ ReadStep(r) \/ CheckStep(r) \/ DeleteStep(r)
                      \/ BackfillStep(r) \/ Abort(r)
             PROVE  TypeOK'
  BY <1>1, <1>2 DEF Next
<1>3. /\ req[r] \in Request /\ req[r].edit \in Edits \cup {Blankly}
      /\ req[r].new \in Poster /\ req[r].seen \in Poster
      /\ [poster |-> film.poster, palette |-> film.palette] \in Poster
      /\ film.titles \in SUBSET TitleRow
  BY <1>0 DEF Request, Film, Poster
<1>4. Idle \in Request
  BY IdleTyped, SuccessTyped
<1>5. ASSUME NEW pc \in Pc, Goto(r, pc), UNCHANGED <<film, crossed>>
      PROVE  TypeOK'
  BY <1>3, <1>5, FieldsTyped, LocalsTyped DEF Goto
<1>6. ASSUME NEW pc \in Pc, Start(r, [Idle EXCEPT !.pc = pc])
      PROVE  TypeOK'
  BY <1>4, <1>6, FieldsTyped, StartTyped
<1>7. ASSUME NEW answer \in Envelopes, Finish(r, answer), UNCHANGED <<film, crossed>>
      PROVE  TypeOK'
  BY <1>7, FinishTyped DEF TypeOK
<1>8. CASE BeginEdit(r)
  <2>1. PICK e \in Edits : \/ Start(r, [Idle EXCEPT !.pc = "find", !.edit = e])
                           \/ Raise(r, "RequestValidationError")
    BY <1>8 DEF BeginEdit
  <2>2. [Idle EXCEPT !.pc = "find", !.edit = e] \in Request
    <3> DEFINE q == [Idle EXCEPT !.pc = "find"]
    <3>1. q \in Request
      BY <1>4, FieldsTyped DEF Pc
    <3>2. [q EXCEPT !.edit = e] \in Request
      BY <3>1, FieldsTyped
    <3> QED BY <3>2
  <2> QED BY <2>1, <2>2, StartTyped, RaiseTyped
<1>9. CASE Find(r)
  <2> DEFINE loaded == [poster |-> film.poster, palette |-> film.palette]
  <2>1. [req[r] EXCEPT !.pc = "list_titles", !.seen = loaded, !.new = loaded] \in Request
    <3> HIDE DEF loaded
    <3> DEFINE q1 == [req[r] EXCEPT !.pc = "list_titles"]
               q2 == [q1 EXCEPT !.seen = loaded]
    <3>0. loaded \in Poster
      BY <1>3 DEF loaded
    <3>1. q1 \in Request
      BY <1>3, FieldsTyped DEF Pc
    <3>2. q2 \in Request
      BY <3>0, <3>1, FieldsTyped
    <3>3. [q2 EXCEPT !.new = loaded] \in Request
      BY <3>0, <3>2, FieldsTyped
    <3> QED BY <3>3
  <2> DEFINE q == [req[r] EXCEPT !.pc = "list_titles", !.seen = loaded, !.new = loaded]
  <2>2. \/ req' = [req EXCEPT ![r] = q] /\ UNCHANGED <<film, crossed>>
        \/ Raise(r, "FilmNotFoundError")
    BY <1>9 DEF Find
  <2>3. q \in Request
    BY <2>1
  <2> HIDE DEF q
  <2> QED BY <2>2, <2>3, LocalsTyped, RaiseTyped
<1>10. CASE ListTitles(r)
  BY <1>5, <1>10, RaiseTyped DEF ListTitles, Pc
<1>11. CASE Cut(r)
  <2>1. [req[r] EXCEPT !.pc = "wait_cut", !.picked = film.titles] \in Request
    <3> DEFINE q == [req[r] EXCEPT !.pc = "wait_cut"]
    <3>1. q \in Request
      BY <1>3, FieldsTyped DEF Pc
    <3>2. [q EXCEPT !.picked = film.titles] \in Request
      BY <1>3, <3>1, FieldsTyped
    <3> QED BY <3>2
  <2>2. "fetch" \in Pc
    BY DEF Pc
  <2> DEFINE q == [req[r] EXCEPT !.pc = "wait_cut", !.picked = film.titles]
  <2>3. (Goto(r, "fetch") \/ req' = [req EXCEPT ![r] = q]) /\ UNCHANGED <<film, crossed>>
    BY <1>11 DEF Cut
  <2>4. q \in Request
    BY <2>1
  <2> HIDE DEF q
  <2> QED BY <1>5, <2>2, <2>3, <2>4, LocalsTyped
<1>12. CASE FinishCut(r)
  <2> DEFINE q1 == [req[r] EXCEPT !.pc = "fetch"]
             q2 == [q1 EXCEPT !.cut = req[r].picked]
  <2>0. req[r].picked \in SUBSET TitleRow
    BY <1>3 DEF Request
  <2>1. q1 \in Request
    BY <1>3, FieldsTyped DEF Pc
  <2>2. q2 \in Request
    BY <2>0, <2>1, FieldsTyped
  <2> DEFINE q == [q2 EXCEPT !.picked = {}]
  <2>3. q \in Request
    BY <2>2, FieldsTyped
  <2>4. req' = [req EXCEPT ![r] = q] /\ UNCHANGED <<film, crossed>>
    BY <1>12 DEF FinishCut
  <2> HIDE DEF q
  <2> QED BY <2>3, <2>4, LocalsTyped
<1>13. CASE FetchPalette(r)
  <2> DEFINE url == req[r].edit.poster_image
             next == IF req[r].edit.genre = NotNamed THEN "seal" ELSE "genres"
  <2>1. next \in Pc
    BY DEF Pc
  <2>2. ASSUME url # NotNamed, NEW n \in Reposted(r, url)
        PROVE  [req[r] EXCEPT !.pc = next, !.new = n] \in Request
    <3>1. url \in Posters \cup {None}
      BY <1>3, <2>2, DetailsAssumption DEF Edit, Blankly
    <3>2. n \in Poster
      BY <2>2, <3>1 DEF Reposted, palette_from_url, Poster
    <3> HIDE DEF next
    <3> DEFINE q == [req[r] EXCEPT !.pc = next]
    <3>3. q \in Request
      BY <1>3, <2>1, FieldsTyped
    <3>4. [q EXCEPT !.new = n] \in Request
      BY <3>2, <3>3, FieldsTyped
    <3> QED BY <3>4
  <2> DEFINE Posted(n) == [req[r] EXCEPT !.pc = next, !.new = n]
  <2>3. /\ \/ Goto(r, next)
           \/ /\ url # NotNamed
              /\ \E n \in Reposted(r, url) : req' = [req EXCEPT ![r] = Posted(n)]
        /\ UNCHANGED <<film, crossed>>
    BY <1>13 DEF FetchPalette
  <2>4. url # NotNamed => \A n \in Reposted(r, url) : Posted(n) \in Request
    BY <2>2
  <2> HIDE DEF Posted, next
  <2> QED BY <1>5, <2>1, <2>3, <2>4, LocalsTyped
<1>14. CASE ReadGenres(r)
  <2> DEFINE new == FlushedTitles(r)
             have == {g \in Genres : film.position[g] # Unlinked}
  <2>1. [req[r] EXCEPT !.pc = "relabel", !.added = new, !.flushed = TRUE, !.have = have]
           \in Request
    <3>1. new \in SUBSET TitleRow /\ have \in SUBSET Genres
      BY <1>3, RowsTyped DEF FlushedTitles, Blankly
    <3> HIDE DEF new, have
    <3> DEFINE q1 == [req[r] EXCEPT !.pc = "relabel"]
               q2 == [q1 EXCEPT !.added = new]
               q3 == [q2 EXCEPT !.flushed = TRUE]
    <3>2. q1 \in Request
      BY <1>3, FieldsTyped DEF Pc
    <3>3. q2 \in Request
      BY <3>1, <3>2, FieldsTyped
    <3>4. q3 \in Request
      BY <3>3, FieldsTyped
    <3>5. [q3 EXCEPT !.have = have] \in Request
      BY <3>1, <3>4, FieldsTyped
    <3> QED BY <3>5
  <2> DEFINE q == [req[r] EXCEPT !.pc = "relabel", !.added = new, !.flushed = TRUE, !.have = have]
  <2>2. \/ req' = [req EXCEPT ![r] = q] /\ UNCHANGED <<film, crossed>>
        \/ Raise(r, "IntegrityError")
    BY <1>14 DEF ReadGenres
  <2>3. q \in Request
    BY <2>1
  <2> HIDE DEF q
  <2> QED BY <2>2, <2>3, LocalsTyped, RaiseTyped
<1>15. CASE Relabel(r)
  <2>1. ASSUME req[r].edit.genre # NotNamed
        PROVE  [req[r] EXCEPT !.pc = "seal", !.links = Positions(req[r].edit.genre)] \in Request
    <3> DEFINE q == [req[r] EXCEPT !.pc = "seal"]
               position == Positions(req[r].edit.genre)
    <3>1. position \in Positioned
      BY <1>3, <2>1, PositionsTyped DEF Blankly
    <3>2. q \in Request
      BY <1>3, FieldsTyped DEF Pc
    <3> HIDE DEF position
    <3>3. [q EXCEPT !.links = position] \in Request
      BY <3>1, <3>2, FieldsTyped
    <3> QED BY <3>3 DEF position
  <2> DEFINE q == [req[r] EXCEPT !.pc = "seal", !.links = Positions(req[r].edit.genre)]
  <2>2. req[r].edit.genre # NotNamed
    BY <1>15 DEF Relabel, Underway
  <2>3. \/ req' = [req EXCEPT ![r] = q] /\ UNCHANGED <<film, crossed>>
        \/ Raise(r, "InvalidGenreNameError") \/ Raise(r, "IntegrityError")
    BY <1>15 DEF Relabel
  <2>4. q \in Request
    BY <2>1, <2>2
  <2> HIDE DEF q
  <2> QED BY <2>3, <2>4, LocalsTyped, RaiseTyped
<1>16. CASE Seal(r)
  <2> DEFINE q == [Idle EXCEPT !.pc = "detail", !.alone = req[r].alone]
  <2>1. q \in Request
    <3> DEFINE q1 == [Idle EXCEPT !.pc = "detail"]
    <3>1. q1 \in Request
      BY <1>4, FieldsTyped DEF Pc
    <3>2. req[r].alone \in BOOLEAN
      BY <1>3 DEF Request
    <3>3. [q1 EXCEPT !.alone = req[r].alone] \in Request
      BY <3>1, <3>2, FieldsTyped
    <3> QED BY <3>3
  <2>2. \/ Raise(r, "IntegrityError")
        \/ film.live /\ film' = Sealed(r) /\ Release(r, req[r].cut, q) /\ UNCHANGED crossed
    BY <1>16 DEF Seal, FlushFails
  <2> HIDE DEF q
  <2>3. Sealed(r).live = film.live
    BY DEF Sealed
  <2> QED BY <2>1, <2>2, <2>3, RaiseTyped, ReleaseTyped, SealedTyped DEF TypeOK
<1>17. CASE ReadStep(r)
  <2>1. CASE BeginRead(r)
    BY <1>6, <2>1 DEF BeginRead, Pc
  <2>2. CASE Load(r)
    BY <1>5, <1>7, <2>2, RaiseTyped, SuccessTyped DEF Load, Pc
  <2>3. CASE DetailTitles(r)
    <3> DEFINE q1 == [req[r] EXCEPT !.pc = "answer"]
               q == [q1 EXCEPT !.shown = film.titles]
    <3>1. q1 \in Request
      BY <1>3, FieldsTyped DEF Pc
    <3>2. q \in Request
      BY <1>3, <3>1, FieldsTyped
    <3>3. req' = [req EXCEPT ![r] = q] /\ UNCHANGED <<film, crossed>>
      BY <2>3 DEF DetailTitles
    <3> HIDE DEF q
    <3> QED BY <3>2, <3>3, LocalsTyped
  <2>4. CASE Answer(r)
    BY <1>7, <2>4, SuccessTyped DEF Answer
  <2> QED BY <1>17, <2>1, <2>2, <2>3, <2>4 DEF ReadStep
<1>18. CASE CheckStep(r)
  BY <1>5, <1>6, <1>7, <1>18, RaiseTyped, SuccessTyped
  DEF CheckStep, BeginCheck, Check, Summary, Pc
<1>19. CASE DeleteStep(r)
  <2>1. CASE BeginDelete(r) \/ DeleteFind(r)
    BY <1>5, <1>6, <2>1, RaiseTyped DEF BeginDelete, DeleteFind, Pc
  <2>2. CASE Delete(r)
    <3> DEFINE q == [Idle EXCEPT !.answer = Success]
    <3>1. q \in Request
      BY IdleTyped, SuccessTyped
    <3>2. film' = NoFilm /\ Release(r, film.titles, q) /\ UNCHANGED crossed
      BY <2>2 DEF Delete
    <3> HIDE DEF q
    <3>3. NoFilm \in Film
      BY DEF NoFilm, Film, NoGenres, Positioned
    <3> QED BY <3>1, <3>2, <3>3, ReleaseTyped DEF TypeOK
  <2> QED BY <1>19, <2>1, <2>2 DEF DeleteStep
<1>20. CASE BackfillStep(r)
  <2>1. CASE BeginBackfill(r)
    <3>1. PICK all \in BOOLEAN : Start(r, [Idle EXCEPT !.pc = "pick", !.all = all])
      BY <2>1 DEF BeginBackfill
    <3> DEFINE q1 == [Idle EXCEPT !.pc = "pick"]
    <3>2. q1 \in Request
      BY <1>4, FieldsTyped DEF Pc
    <3>3. [q1 EXCEPT !.all = all] \in Request
      BY <3>2, FieldsTyped
    <3> QED BY <3>1, <3>3, StartTyped
  <2>2. CASE Pick(r)
    <3> DEFINE loaded == [poster |-> film.poster, palette |-> film.palette]
               q1 == [req[r] EXCEPT !.pc = "derive"]
               q2 == [q1 EXCEPT !.seen = loaded]
               q == [q2 EXCEPT !.new = loaded]
    <3>1. q1 \in Request
      BY <1>3, FieldsTyped DEF Pc
    <3>2. q2 \in Request
      BY <1>3, <3>1, FieldsTyped
    <3>3. q \in Request
      BY <1>3, <3>2, FieldsTyped
    <3>4. (req' = [req EXCEPT ![r] = q] \/ Finish(r, Success)) /\ UNCHANGED <<film, crossed>>
      BY <2>2 DEF Pick
    <3> HIDE DEF q
    <3> QED BY <1>7, <3>3, <3>4, LocalsTyped, SuccessTyped
  <2>3. CASE Derive(r)
    <3>1. PICK p \in palette_from_url(req[r].seen.poster) :
            req' = [req EXCEPT ![r].pc = "store",
                               ![r].new = IF p = None THEN @ ELSE [@ EXCEPT !.palette = p]]
      BY <2>3 DEF Derive
    <3> DEFINE new == IF p = None THEN req[r].new ELSE [req[r].new EXCEPT !.palette = p]
               q1 == [req[r] EXCEPT !.pc = "store"]
               q == [q1 EXCEPT !.new = new]
    <3>2. new \in Poster
      BY <1>3, <3>1 DEF Poster, palette_from_url
    <3>3. q1 \in Request
      BY <1>3, FieldsTyped DEF Pc
    <3>4. req' = [req EXCEPT ![r] = q] /\ UNCHANGED <<film, crossed>>
      BY <2>3, <3>1 DEF Derive
    <3> HIDE DEF new
    <3>5. q \in Request
      BY <3>2, <3>3, FieldsTyped
    <3> HIDE DEF q
    <3> QED BY <3>4, <3>5, LocalsTyped
  <2>4. CASE StorePalette(r)
    <3>1. \/ Finish(r, Success) /\ UNCHANGED <<film, crossed>>
          \/ Raise(r, "StaleDataError")
          \/ /\ film.live /\ film' = [film EXCEPT !.palette = req[r].new.palette]
             /\ Finish(r, Success) /\ UNCHANGED crossed
      BY <2>4 DEF StorePalette
    <3>2. [film EXCEPT !.palette = req[r].new.palette] \in Film
      BY <1>0, <1>3 DEF Film, Poster
    <3>3. [film EXCEPT !.palette = req[r].new.palette].live = film.live
      BY <1>0 DEF Film
    <3> QED BY <1>7, <3>1, <3>2, <3>3, FinishTyped, RaiseTyped, SuccessTyped DEF TypeOK
  <2> QED BY <1>20, <2>1, <2>2, <2>3, <2>4 DEF BackfillStep
<1>21. CASE Abort(r)
  BY <1>7, <1>21, SuccessTyped DEF Abort
<1> QED
  BY <1>8, <1>9, <1>10, <1>11, <1>12, <1>13, <1>14, <1>15, <1>16, <1>17, <1>18, <1>19, <1>20,
     <1>21 DEF EditStep
-----------------------------------------------------------------------------
(* Titles *)

\* What a request may have picked, cut and inserted while the film's rows are f: all its
\* titles or none, and new ones only beside all the old ones cut.
Fits(q, f) ==
    /\ q.pc # "wait_cut" => q.picked = {}
    /\ q.pc \notin {"fetch", "genres", "relabel", "seal"} => q.cut = {}
    /\ q.pc \notin {"relabel", "seal"} => q.added = {}
    /\ q.edit.titles = NotNamed => q.picked = {} /\ q.cut = {} /\ q.added = {}
    /\ q.picked \in {{}, f.titles}
    /\ q.cut \in {{}, f.titles}
    /\ q.added # {} => q.added = TitleRowsOf(q.edit) /\ f.live /\ q.cut = f.titles
    /\ q.pc = "answer" => OneList(q.shown) \/ (q.shown = {} /\ ~f.live)

AllFit == \A r \in Requests : Underway(req[r]) /\ Fits(req[r], film)
OneCuts == \A r, s \in Requests : r # s => req[r].cut = {} \/ req[s].cut = {}
Whole == IF film.live THEN OneList(film.titles) ELSE film.titles = {}

\* The inductive invariant.
TitlesInv == TypeOK /\ AllFit /\ OneCuts /\ Whole
\* A request that has touched no title.
Untouched(q) ==
    /\ q.picked = {} /\ q.cut = {} /\ q.added = {}
    /\ q.pc # "answer"

LEMMA UntouchedFits ==
  ASSUME NEW q, NEW f, Untouched(q)
  PROVE  Fits(q, f)
  BY DEF Untouched, Fits

LEMMA IdleUntouched ==
  ASSUME NEW answer \in Envelopes, NEW q \in {Idle, [Idle EXCEPT !.answer = answer]}
  PROVE  q \in Request /\ Untouched(q) /\ Underway(q)
<1>1. q \in Request
  BY IdleTyped, SuccessTyped
<1>2. q.pc = "idle" /\ Untouched(q)
  BY DEF Idle, Untouched
<1> QED BY <1>1, <1>2 DEF Underway

\* A step of one request that changes no title and does not bring the film to life.
LEMMA LocalKeeps ==
  ASSUME TitlesInv, NEW r \in Requests, NEW q, req' = [req EXCEPT ![r] = q],
         Underway(q), Fits(q, film), \A s \in Others(r) : q.cut = {} \/ req[s].cut = {},
         film'.titles = film.titles, film'.live = film.live
  PROVE  AllFit' /\ OneCuts' /\ Whole'
<1>1. \A s \in Requests : req'[s] = IF s = r THEN q ELSE req[s]
  BY DEF TitlesInv, TypeOK
<1>2. \A s \in Requests : Underway(req'[s]) /\ Fits(req'[s], film)
  BY <1>1 DEF TitlesInv, AllFit
<1>3. \A s \in Requests : Fits(req'[s], film')
  BY <1>2 DEF Fits
<1>4. OneCuts'
  BY <1>1 DEF TitlesInv, OneCuts, Others
<1> QED BY <1>2, <1>3, <1>4 DEF AllFit, Whole, TitlesInv

LEMMA FinishKeeps ==
  ASSUME TitlesInv, NEW r \in Requests, NEW answer \in Envelopes, Finish(r, answer),
         film'.titles = film.titles, film'.live = film.live
  PROVE  AllFit' /\ OneCuts' /\ Whole'
<1> DEFINE q == [Idle EXCEPT !.answer = answer]
<1>1. Untouched(q) /\ Underway(q) /\ req' = [req EXCEPT ![r] = q]
  BY IdleUntouched DEF Finish
<1> HIDE DEF q
<1> QED BY <1>1, LocalKeeps, UntouchedFits DEF Untouched

LEMMA RaiseKeeps ==
  ASSUME TitlesInv, NEW r \in Requests, NEW exception, Raise(r, exception)
  PROVE  AllFit' /\ OneCuts' /\ Whole'
  BY FinishKeeps, HandledTyped DEF Raise, RolledBack

LEMMA StartKeeps ==
  ASSUME TitlesInv, NEW r \in Requests, NEW q \in Request, Untouched(q), Underway(q),
         Start(r, q)
  PROVE  AllFit' /\ OneCuts' /\ Whole'
<1>1. film' = film
  BY DEF Start
<1>2. \A t \in Request, b \in BOOLEAN :
        LET u == [t EXCEPT !.alone = b]
        IN  /\ u.cut = t.cut
            /\ Underway(t) => Underway(u)
            /\ Fits(t, film) => Fits(u, film)
            /\ Untouched(t) => Untouched(u)
  <2> SUFFICES ASSUME NEW t \in Request, NEW b \in BOOLEAN, NEW u, u = [t EXCEPT !.alone = b]
               PROVE  /\ u.cut = t.cut
                      /\ Underway(t) => Underway(u)
                      /\ Fits(t, film) => Fits(u, film)
                      /\ Untouched(t) => Untouched(u)
    OBVIOUS
  <2>1. /\ u.pc = t.pc /\ u.edit = t.edit /\ u.picked = t.picked /\ u.cut = t.cut
        /\ u.added = t.added /\ u.shown = t.shown
    BY DEF Request
  <2> QED BY <2>1 DEF Underway, Fits, Untouched
<1>3. Idle \in Request /\ Untouched(Idle) /\ Underway(Idle) /\ Fits(Idle, film)
  BY IdleUntouched, SuccessTyped, UntouchedFits
<1>4. ASSUME NEW s \in Requests
      PROVE  /\ req'[s].cut \in {{}, req[s].cut}
             /\ Underway(req'[s]) /\ Fits(req'[s], film)
  <2>1. req[s] \in Request /\ Underway(req[s]) /\ Fits(req[s], film)
    BY DEF TitlesInv, TypeOK, AllFit
  <2>2. CASE s = r
    <3>1. PICK b \in BOOLEAN : req'[s] = [q EXCEPT !.alone = b]
      BY <2>2 DEF Start
    <3> QED BY <1>2, <3>1, UntouchedFits DEF Untouched
  <2>3. CASE s # r /\ req[s].pc = "idle"
    BY <1>3, <2>3 DEF Start, Untouched
  <2>4. CASE s # r /\ req[s].pc # "idle"
    <3>1. req'[s] = [req[s] EXCEPT !.alone = FALSE]
      BY <2>4 DEF Start
    <3> QED BY <1>2, <2>1, <3>1
  <2> QED BY <2>2, <2>3, <2>4
<1>5. OneCuts'
  BY <1>4 DEF TitlesInv, OneCuts
<1> QED BY <1>1, <1>4, <1>5 DEF AllFit, Whole, TitlesInv

\* The flush of new titles succeeds only when every title the film had has been cut.
LEMMA FlushReplacesAll ==
  ASSUME TitlesInv, NEW r \in Requests, req[r].pc \in {"genres", "seal"},
         req[r].edit.titles # NotNamed, film.live, UniqueFlags(r)
  PROVE  /\ FlushedTitles(r) = TitleRowsOf(req[r].edit) /\ FlushedTitles(r) # {}
         /\ req[r].cut = film.titles
         /\ OneList(FlushedTitles(r))
         /\ \A s \in Others(r) : req[s].cut = {} /\ req[s].added = {}
<1>1. /\ Underway(req[r]) /\ Fits(req[r], film)
      /\ req[r].edit \in Edits /\ Allowed(req[r].edit)
  BY DEF TitlesInv, AllFit, Underway
<1>2. FlushedTitles(r) = TitleRowsOf(req[r].edit) /\ Primaries(FlushedTitles(r)) # {}
  BY <1>1, AcceptedHasPrimary DEF FlushedTitles
<1>3. FlushedTitles(r) # {} /\ OneList(FlushedTitles(r))
  BY <1>1, <1>2 DEF Primaries, OneList
<1>5. Primaries(film.titles) # {}
  BY AcceptedHasPrimary DEF TitlesInv, Whole, OneList
<1>6. film.titles # {}
  BY <1>5 DEF Primaries
<1>7. req[r].cut = film.titles
  <2>1. CASE req[r].added # {}
    BY <1>1, <2>1 DEF Fits
  <2>2. CASE req[r].added = {}
    <3>1. Primaries(film.titles \ req[r].cut) = {}
      BY <1>2, <2>2 DEF UniqueFlags, NewTitles
    <3>2. req[r].cut # {}
      BY <1>5, <3>1 DEF Primaries
    <3> QED BY <1>1, <3>2 DEF Fits
  <2> QED BY <2>1, <2>2
<1>8. ASSUME NEW s \in Others(r)
      PROVE  req[s].cut = {} /\ req[s].added = {}
  <2>1. s \in Requests /\ s # r
    BY DEF Others
  <2>2. req[s].cut = {}
    BY <1>6, <1>7, <2>1 DEF TitlesInv, OneCuts
  <2> QED BY <1>6, <2>1, <2>2 DEF TitlesInv, AllFit, Fits
<1> QED BY <1>2, <1>3, <1>7, <1>8

LEMMA ReleaseFields ==
  ASSUME TypeOK, NEW r \in Requests, NEW rows, NEW q, Release(r, rows, q)
  PROVE  /\ req'[r] = q
         /\ \A s \in Others(r) :
              /\ req'[s].pc = req[s].pc /\ req'[s].edit = req[s].edit
              /\ req'[s].picked = req[s].picked \ rows /\ req'[s].cut = req[s].cut
              /\ req'[s].added = req[s].added /\ req'[s].shown = req[s].shown
<1>1. req'[r] = q
  BY DEF Release
<1>2. ASSUME NEW s \in Others(r)
      PROVE  /\ req'[s].pc = req[s].pc /\ req'[s].edit = req[s].edit
             /\ req'[s].picked = req[s].picked \ rows /\ req'[s].cut = req[s].cut
             /\ req'[s].added = req[s].added /\ req'[s].shown = req[s].shown
  <2>1. req[s] \in Request /\ req'[s] = [req[s] EXCEPT !.picked = @ \ rows]
    BY DEF Others, Release, TypeOK
  <2> QED BY <2>1 DEF Request
<1> QED BY <1>1, <1>2

LEMMA SealKeeps ==
  ASSUME TitlesInv, NEW r \in Requests, req[r].pc = "seal", ~FlushFails(r, TRUE),
         film' = Sealed(r), NEW q, Untouched(q), Underway(q), Release(r, req[r].cut, q)
  PROVE  AllFit' /\ OneCuts' /\ Whole'
<1>1. film'.titles = (film.titles \ req[r].cut) \cup FlushedTitles(r) /\ film'.live = film.live
  BY DEF Sealed
<1>2. film.live
  BY DEF FlushFails
<1>3. Fits(req[r], film)
  BY DEF TitlesInv, AllFit
<1>4. ASSUME NEW s \in Others(r)
      PROVE  /\ Underway(req[s]) /\ Fits(req[s], film) /\ Underway(req'[s])
             /\ req'[s].pc = req[s].pc /\ req'[s].edit = req[s].edit
             /\ req'[s].picked = req[s].picked \ req[r].cut /\ req'[s].cut = req[s].cut
             /\ req'[s].added = req[s].added /\ req'[s].shown = req[s].shown
  <2>1. Underway(req[s]) /\ Fits(req[s], film)
    BY DEF TitlesInv, AllFit, Others
  <2> QED BY <2>1, ReleaseFields DEF TitlesInv, Underway
<1>5. req'[r] = q /\ Fits(q, film')
  BY ReleaseFields, UntouchedFits DEF TitlesInv
<1>6. OneCuts'
  BY <1>4, <1>5 DEF OneCuts, Others, TitlesInv, Untouched
<1>7. CASE req[r].edit.titles = NotNamed
  <2>1. film'.titles = film.titles /\ req[r].cut = {}
    BY <1>1, <1>3, <1>7 DEF Fits, FlushedTitles
  <2>2. \A s \in Others(r) : Fits(req'[s], film')
    BY <1>1, <1>4, <2>1 DEF Fits
  <2> QED BY <1>1, <1>4, <1>5, <1>6, <2>1, <2>2 DEF AllFit, Others, Whole, TitlesInv
<1>8. CASE req[r].edit.titles # NotNamed
  <2>1. /\ FlushedTitles(r) # {} /\ OneList(FlushedTitles(r)) /\ req[r].cut = film.titles
        /\ \A s \in Others(r) : req[s].cut = {} /\ req[s].added = {}
    BY <1>8, FlushReplacesAll DEF FlushFails
  <2>2. film'.titles = FlushedTitles(r)
    BY <1>1, <2>1
  <2>3. \A s \in Others(r) : req'[s].picked = {} /\ req'[s].cut = {} /\ req'[s].added = {}
    BY <1>4, <2>1 DEF Fits
  <2>4. \A s \in Others(r) : Fits(req'[s], film')
    BY <1>1, <1>2, <1>4, <2>3 DEF Fits
  <2> QED BY <1>1, <1>2, <1>4, <1>5, <1>6, <2>1, <2>2, <2>4 DEF AllFit, Others, Whole
<1> QED BY <1>7, <1>8

LEMMA DeleteKeeps ==
  ASSUME TitlesInv, NEW r \in Requests, Delete(r)
  PROVE  AllFit' /\ OneCuts' /\ Whole'
<1> DEFINE q == [Idle EXCEPT !.answer = Success]
<1>1. Untouched(q) /\ Underway(q) /\ Release(r, film.titles, q)
  BY IdleUntouched, SuccessTyped DEF Delete
<1> HIDE DEF q
<1>2. film'.titles = {} /\ ~film'.live
  BY DEF Delete, NoFilm
<1>3. ASSUME NEW s \in Others(r)
      PROVE  Underway(req'[s]) /\ Fits(req'[s], film') /\ req'[s].cut = {}
  <2>1. Underway(req[s]) /\ Fits(req[s], film) /\ req[s].cut = {} /\ req[s].added = {}
    BY DEF TitlesInv, AllFit, Others, Delete, TitlesHeld
  <2>2. /\ req'[s].pc = req[s].pc /\ req'[s].edit = req[s].edit
        /\ req'[s].picked = {} /\ req'[s].cut = {}
        /\ req'[s].added = {} /\ req'[s].shown = req[s].shown
    BY <1>1, <2>1, ReleaseFields DEF TitlesInv, Fits
  <2> QED BY <1>2, <2>1, <2>2 DEF Underway, Fits
<1>4. req'[r] = q /\ Fits(q, film')
  BY <1>1, ReleaseFields, UntouchedFits DEF TitlesInv
<1> QED BY <1>1, <1>2, <1>3, <1>4 DEF AllFit, OneCuts, Others, Whole, Untouched

LEMMA CreateKeeps ==
  ASSUME TitlesInv, NEW e \in Edits, NEW palette, CreateFilm(e, palette)
  PROVE  AllFit' /\ OneCuts' /\ Whole'
<1>1. film'.live /\ film'.titles = TitleRowsOf(e) /\ req' = req
  BY DEF CreateFilm
<1>2. OneList(TitleRowsOf(e))
  <2>1. "titles" \in DOMAIN e
    BY DetailsAssumption DEF Edit
  <2>2. e.titles # NotNamed /\ Allowed(e)
    BY <2>1 DEF CreateFilm
  <2> QED BY <2>2 DEF OneList
<1>3. \A s \in Requests : Untouched(req[s])
  BY DEF CreateFilm, TitlesInv, AllFit, Fits, Untouched
<1>4. \A s \in Requests : Fits(req[s], film')
  BY <1>3, UntouchedFits
<1> QED BY <1>1, <1>2, <1>4 DEF AllFit, OneCuts, Whole, TitlesInv

LEMMA EditKeeps ==
  ASSUME TitlesInv, NEW r \in Requests, EditStep(r)
  PROVE  AllFit' /\ OneCuts' /\ Whole'
<1>1. req[r] \in Request /\ Underway(req[r]) /\ Fits(req[r], film)
  BY DEF TitlesInv, AllFit, TypeOK
<1>2. CASE BeginEdit(r)
  <2>1. PICK e \in Edits : \/ Allowed(e) /\ Start(r, [Idle EXCEPT !.pc = "find", !.edit = e])
                           \/ Raise(r, "RequestValidationError")
    BY <1>2 DEF BeginEdit
  <2>2. CASE Allowed(e) /\ Start(r, [Idle EXCEPT !.pc = "find", !.edit = e])
    <3> DEFINE q1 == [Idle EXCEPT !.pc = "find"]
               q == [q1 EXCEPT !.edit = e]
    <3>1. q1 \in Request
      BY IdleUntouched, SuccessTyped, FieldsTyped DEF Pc
    <3>2. q \in Request
      BY <3>1, FieldsTyped
    <3>3. q.pc = "find" /\ q.edit = e /\ q.picked = {} /\ q.cut = {} /\ q.added = {}
      BY DEF Idle
    <3>4. Start(r, q)
      BY <2>2
    <3> HIDE DEF q
    <3> QED BY <2>2, <3>2, <3>3, <3>4, StartKeeps DEF Underway, Untouched
  <2> QED BY <2>1, <2>2, RaiseKeeps
<1>3. CASE Find(r)
  <2>1. CASE Raise(r, "FilmNotFoundError")
    BY <2>1, RaiseKeeps
  <2>2. CASE ~Raise(r, "FilmNotFoundError")
    <3> DEFINE loaded == [poster |-> film.poster, palette |-> film.palette]
               q == [req[r] EXCEPT !.pc = "list_titles", !.seen = loaded, !.new = loaded]
    <3>1. req' = [req EXCEPT ![r] = q] /\ film' = film /\ req[r].pc = "find"
      BY <1>3, <2>2 DEF Find
    <3>2. /\ q.pc = "list_titles" /\ q.edit = req[r].edit /\ q.picked = req[r].picked
          /\ q.cut = req[r].cut /\ q.added = req[r].added
      BY <1>1 DEF Request
    <3> HIDE DEF q
    <3>3. Underway(q) /\ Untouched(q)
      BY <1>1, <3>1, <3>2 DEF Underway, Fits, Untouched
    <3> QED BY <3>1, <3>3, LocalKeeps, UntouchedFits DEF Untouched
  <2> QED BY <2>1, <2>2
<1>4. CASE ListTitles(r)
  <2>1. CASE Goto(r, "cut") /\ UNCHANGED <<film, crossed>>
    <3> DEFINE q == [req[r] EXCEPT !.pc = "cut"]
    <3>1. req' = [req EXCEPT ![r] = q] /\ film' = film /\ req[r].pc = "list_titles"
      BY <1>4, <2>1 DEF ListTitles, Goto
    <3>2. /\ q.pc = "cut" /\ q.edit = req[r].edit /\ q.picked = req[r].picked
          /\ q.cut = req[r].cut /\ q.added = req[r].added
      BY <1>1 DEF Request
    <3> HIDE DEF q
    <3>3. Underway(q) /\ Untouched(q)
      BY <1>1, <3>1, <3>2 DEF Underway, Fits, Untouched
    <3> QED BY <3>1, <3>3, LocalKeeps, UntouchedFits DEF Untouched
  <2> QED BY <1>4, <2>1, RaiseKeeps DEF ListTitles
<1>5. CASE Cut(r)
  <2> DEFINE q1 == [req[r] EXCEPT !.pc = "fetch"]
             q2 == [req[r] EXCEPT !.pc = "wait_cut", !.picked = film.titles]
  <2>1. PICK q \in {q1, q2} :
          /\ req' = [req EXCEPT ![r] = q] /\ film' = film /\ req[r].pc = "cut"
          /\ q = q2 => req[r].edit.titles # NotNamed
    <3>1. CASE req[r].edit.titles = NotNamed
      <4>1. q1 # q2
        BY <1>1 DEF Request
      <4> QED BY <1>5, <3>1, <4>1 DEF Cut, Goto
    <3>2. CASE req[r].edit.titles # NotNamed
      BY <1>5, <3>2 DEF Cut
    <3> QED BY <3>1, <3>2
  <2>2. /\ q.edit = req[r].edit /\ q.cut = req[r].cut /\ q.added = req[r].added
        /\ \/ q.pc = "fetch" /\ q.picked = req[r].picked
           \/ q.pc = "wait_cut" /\ q.picked = film.titles /\ req[r].edit.titles # NotNamed
    <3>1. /\ q1.edit = req[r].edit /\ q1.cut = req[r].cut /\ q1.added = req[r].added
          /\ q1.pc = "fetch" /\ q1.picked = req[r].picked
      BY <1>1 DEF Request
    <3>2. /\ q2.edit = req[r].edit /\ q2.cut = req[r].cut /\ q2.added = req[r].added
          /\ q2.pc = "wait_cut" /\ q2.picked = film.titles
      BY <1>1 DEF Request
    <3> HIDE DEF q1, q2
    <3> QED BY <2>1, <3>1, <3>2
  <2> HIDE DEF q1, q2
  <2>3. Underway(q) /\ Fits(q, film) /\ q.cut = {}
    BY <1>1, <2>1, <2>2 DEF Underway, Fits
  <2> QED BY <2>1, <2>3, LocalKeeps
<1>6. CASE FinishCut(r)
  <2> DEFINE q == [req[r] EXCEPT !.pc = "fetch", !.cut = req[r].picked, !.picked = {}]
  <2>1. req' = [req EXCEPT ![r] = q] /\ film' = film /\ req[r].pc = "wait_cut"
    BY <1>6 DEF FinishCut
  <2>2. /\ q.pc = "fetch" /\ q.edit = req[r].edit /\ q.picked = {}
        /\ q.cut = req[r].picked /\ q.added = req[r].added
    BY <1>1 DEF Request
  <2> HIDE DEF q
  <2>3. Underway(q) /\ Fits(q, film)
    BY <1>1, <2>1, <2>2 DEF Underway, Fits
  <2>4. \A s \in Others(r) : q.cut = {} \/ req[s].cut = {}
    BY <1>1, <1>6, <2>2 DEF FinishCut, Others, TitlesInv, AllFit, Fits
  <2> QED BY <2>1, <2>3, <2>4, LocalKeeps
<1>7. CASE FetchPalette(r)
  <2> DEFINE next == IF req[r].edit.genre = NotNamed THEN "seal" ELSE "genres"
             url == req[r].edit.poster_image
             Posted(n) == [req[r] EXCEPT !.pc = next, !.new = n]
             Unposted == [req[r] EXCEPT !.pc = next]
  <2>1. PICK q : /\ req' = [req EXCEPT ![r] = q] /\ film' = film /\ req[r].pc = "fetch"
                 /\ \/ q = Unposted
                    \/ \E n \in Reposted(r, url) : q = Posted(n)
    <3>1. /\ \/ req' = [req EXCEPT ![r] = Unposted]
             \/ \E n \in Reposted(r, url) : req' = [req EXCEPT ![r] = Posted(n)]
          /\ film' = film /\ req[r].pc = "fetch"
      BY <1>7 DEF FetchPalette, Goto
    <3> HIDE DEF Posted, Unposted
    <3>2. CASE req' = [req EXCEPT ![r] = Unposted]
      BY <3>1, <3>2
    <3>3. CASE \E n \in Reposted(r, url) : req' = [req EXCEPT ![r] = Posted(n)]
      BY <3>1, <3>3
    <3> QED BY <3>1, <3>2, <3>3
  <2>2. /\ q.pc = next /\ q.edit = req[r].edit /\ q.picked = req[r].picked
        /\ q.cut = req[r].cut /\ q.added = req[r].added
    <3>1. CASE q = Unposted
      BY <1>1, <3>1 DEF Request
    <3>2. ASSUME NEW n \in Reposted(r, url), q = Posted(n)
          PROVE  /\ q.pc = next /\ q.edit = req[r].edit /\ q.picked = req[r].picked
                 /\ q.cut = req[r].cut /\ q.added = req[r].added
      BY <1>1, <3>2 DEF Request
    <3> QED BY <2>1, <3>1, <3>2
  <2>3. Underway(q) /\ Fits(q, film)
    BY <1>1, <2>1, <2>2 DEF Underway, Fits
  <2>4. \A s \in Others(r) : q.cut = {} \/ req[s].cut = {}
    BY <2>2 DEF TitlesInv, OneCuts, Others
  <2> QED BY <2>1, <2>3, <2>4, LocalKeeps
<1>8. CASE ReadGenres(r)
  <2>1. CASE Raise(r, "IntegrityError")
    BY <2>1, RaiseKeeps
  <2>2. CASE ~Raise(r, "IntegrityError")
    <3> DEFINE have == {g \in Genres : film.position[g] # Unlinked}
               new == FlushedTitles(r)
               q == [req[r] EXCEPT !.pc = "relabel", !.added = new, !.flushed = TRUE,
                                   !.have = have]
    <3>1. /\ req' = [req EXCEPT ![r] = q] /\ film' = film /\ req[r].pc = "genres"
          /\ ~FlushFails(r, req[r].new # req[r].seen)
      BY <1>8, <2>2 DEF ReadGenres
    <3>2. /\ q.pc = "relabel" /\ q.edit = req[r].edit /\ q.picked = req[r].picked
          /\ q.cut = req[r].cut /\ q.added = new
      BY <1>1 DEF Request
    <3> HIDE DEF q, new
    <3>3. req[r].added = {} /\ req[r].picked = {}
      BY <1>1, <3>1 DEF Fits
    <3>4. /\ req[r].edit.titles = NotNamed => new = {}
          /\ req[r].edit.titles # NotNamed =>
               new = TitleRowsOf(req[r].edit) /\ film.live /\ req[r].cut = film.titles
      <4>1. CASE req[r].edit.titles = NotNamed
        BY <4>1 DEF new, FlushedTitles
      <4>2. CASE req[r].edit.titles # NotNamed
        <5>1. new = TitleRowsOf(req[r].edit) /\ new # {}
          BY <1>1, <3>1, <4>2, AcceptedHasPrimary DEF new, FlushedTitles, Underway, Primaries
        <5>2. film.live /\ UniqueFlags(r)
          BY <3>1, <3>3, <5>1 DEF FlushFails, NewTitles, new
        <5> QED BY <3>1, <4>2, <5>1, <5>2, FlushReplacesAll
      <4> QED BY <4>1, <4>2
    <3>5. Underway(q) /\ Fits(q, film)
      BY <1>1, <3>1, <3>2, <3>3, <3>4 DEF Underway, Fits
    <3>6. \A s \in Others(r) : q.cut = {} \/ req[s].cut = {}
      BY <3>2 DEF TitlesInv, OneCuts, Others
    <3> QED BY <3>1, <3>5, <3>6, LocalKeeps
  <2> QED BY <2>1, <2>2
<1>9. CASE Relabel(r)
  <2> DEFINE q == [req[r] EXCEPT !.pc = "seal", !.links = Positions(req[r].edit.genre)]
  <2>1. CASE req' = [req EXCEPT ![r] = q] /\ film' = film
    <3>1. /\ q.pc = "seal" /\ q.edit = req[r].edit /\ q.picked = req[r].picked
          /\ q.cut = req[r].cut /\ q.added = req[r].added /\ req[r].pc = "relabel"
      BY <1>1, <1>9 DEF Request, Relabel
    <3> HIDE DEF q
    <3>2. Underway(q) /\ Fits(q, film)
      BY <1>1, <3>1 DEF Underway, Fits
    <3>3. \A s \in Others(r) : q.cut = {} \/ req[s].cut = {}
      BY <3>1 DEF TitlesInv, OneCuts, Others
    <3> QED BY <2>1, <3>2, <3>3, LocalKeeps
  <2>2. \/ req' = [req EXCEPT ![r] = q] /\ film' = film
        \/ Raise(r, "InvalidGenreNameError") \/ Raise(r, "IntegrityError")
    BY <1>9 DEF Relabel
  <2> HIDE DEF q
  <2> QED BY <2>1, <2>2, RaiseKeeps
<1>10. CASE Seal(r)
  <2> DEFINE q == [Idle EXCEPT !.pc = "detail", !.alone = req[r].alone]
  <2>1. \/ Raise(r, "IntegrityError")
        \/ ~FlushFails(r, TRUE) /\ film' = Sealed(r) /\ Release(r, req[r].cut, q)
    BY <1>10 DEF Seal
  <2>2. Untouched(q) /\ Underway(q)
    BY DEF Idle, Untouched, Underway
  <2>3. req[r].pc = "seal"
    BY <1>10 DEF Seal
  <2> HIDE DEF q
  <2> QED BY <2>1, <2>2, <2>3, RaiseKeeps, SealKeeps
<1> QED BY <1>2, <1>3, <1>4, <1>5, <1>6, <1>7, <1>8, <1>9, <1>10 DEF EditStep

LEMMA TitlesStep ==
  ASSUME TitlesInv, [Next]_vars
  PROVE  TitlesInv'
<1>1. TypeOK'
  BY TypeStep DEF TitlesInv, AllFit
<1> SUFFICES AllFit' /\ OneCuts' /\ Whole'
  BY <1>1 DEF TitlesInv
<1>2. CASE UNCHANGED vars
  BY <1>2 DEF TitlesInv, AllFit, OneCuts, Whole, vars
<1>3. ASSUME NEW e \in Edits, NEW palette \in Posters \cup {None}, CreateFilm(e, palette)
      PROVE  AllFit' /\ OneCuts' /\ Whole'
  BY <1>3, CreateKeeps
<1> SUFFICES ASSUME NEW r \in Requests,
                    EditStep(r) \/ ReadStep(r) \/ CheckStep(r) \/ DeleteStep(r)
                      \/ BackfillStep(r) \/ Abort(r)
             PROVE  AllFit' /\ OneCuts' /\ Whole'
  BY <1>2, <1>3 DEF Next
<1>4. req[r] \in Request /\ Underway(req[r]) /\ Fits(req[r], film)
  BY DEF TitlesInv, AllFit, TypeOK
<1>5. ASSUME NEW pc \in {"load", "check", "delete_find", "pick"},
             NEW q \in {[Idle EXCEPT !.pc = pc], [Idle EXCEPT !.pc = pc, !.all = TRUE],
                        [Idle EXCEPT !.pc = pc, !.all = FALSE]},
             Start(r, q)
      PROVE  AllFit' /\ OneCuts' /\ Whole'
  <2> DEFINE q1 == [Idle EXCEPT !.pc = pc]
  <2>1. q1 \in Request
    BY IdleUntouched, SuccessTyped, FieldsTyped DEF Pc
  <2>2. q \in Request
    BY <2>1, FieldsTyped
  <2>3. q.pc = pc /\ q.picked = {} /\ q.cut = {} /\ q.added = {}
    BY DEF Idle
  <2>4. Untouched(q) /\ Underway(q)
    BY <2>3 DEF Untouched, Underway
  <2> QED BY <1>5, <2>2, <2>4, StartKeeps
<1>6. ASSUME NEW q, req' = [req EXCEPT ![r] = q], film' = film,
             q.pc \in {"detail", "summary", "delete", "derive", "store"}, q.edit = req[r].edit,
             q.picked = req[r].picked, q.cut = req[r].cut, q.added = req[r].added,
             req[r].pc \notin {"wait_cut", "fetch", "genres", "relabel", "seal"}
      PROVE  AllFit' /\ OneCuts' /\ Whole'
  <2>1. Untouched(q) /\ Underway(q)
    BY <1>4, <1>6 DEF Untouched, Underway, Fits
  <2> QED BY <1>6, <2>1, LocalKeeps, UntouchedFits DEF Untouched
<1>7. ASSUME NEW pc \in {"detail", "summary", "delete"}, Goto(r, pc), film' = film,
             req[r].pc \notin {"wait_cut", "fetch", "genres", "relabel", "seal"}
      PROVE  AllFit' /\ OneCuts' /\ Whole'
  <2> DEFINE q == [req[r] EXCEPT !.pc = pc]
  <2>1. /\ q.pc = pc /\ q.edit = req[r].edit /\ q.picked = req[r].picked
        /\ q.cut = req[r].cut /\ q.added = req[r].added /\ req' = [req EXCEPT ![r] = q]
    BY <1>4, <1>7 DEF Request, Goto
  <2> HIDE DEF q
  <2> QED BY <1>6, <1>7, <2>1
<1>8. ASSUME NEW answer \in {Success, Lost}, Finish(r, answer), film' = film
      PROVE  AllFit' /\ OneCuts' /\ Whole'
  BY <1>8, FinishKeeps, SuccessTyped
<1>9. CASE ReadStep(r)
  <2>1. CASE BeginRead(r)
    BY <1>5, <2>1 DEF BeginRead
  <2>2. CASE Load(r)
    BY <1>7, <1>8, <2>2, RaiseKeeps DEF Load
  <2>3. CASE DetailTitles(r)
    <3> DEFINE q == [req[r] EXCEPT !.pc = "answer", !.shown = film.titles]
    <3>1. req' = [req EXCEPT ![r] = q] /\ film' = film /\ req[r].pc = "detail"
      BY <2>3 DEF DetailTitles
    <3>2. /\ q.pc = "answer" /\ q.edit = req[r].edit /\ q.picked = req[r].picked
          /\ q.cut = req[r].cut /\ q.added = req[r].added /\ q.shown = film.titles
      BY <1>4 DEF Request
    <3> HIDE DEF q
    <3>3. Underway(q) /\ Fits(q, film) /\ q.cut = {}
      BY <1>4, <3>1, <3>2 DEF Underway, Fits, TitlesInv, Whole
    <3> QED BY <3>1, <3>3, LocalKeeps
  <2>4. CASE Answer(r)
    BY <1>8, <2>4 DEF Answer
  <2> QED BY <1>9, <2>1, <2>2, <2>3, <2>4 DEF ReadStep
<1>10. CASE CheckStep(r)
  <2>1. CASE BeginCheck(r)
    BY <1>5, <2>1 DEF BeginCheck
  <2>2. CASE Check(r)
    BY <1>7, <1>8, <2>2 DEF Check
  <2>3. CASE Summary(r)
    BY <1>8, <2>3, RaiseKeeps DEF Summary
  <2> QED BY <1>10, <2>1, <2>2, <2>3 DEF CheckStep
<1>11. CASE DeleteStep(r)
  <2>1. CASE BeginDelete(r)
    BY <1>5, <2>1 DEF BeginDelete
  <2>2. CASE DeleteFind(r)
    BY <1>7, <2>2, RaiseKeeps DEF DeleteFind
  <2> QED BY <1>11, <2>1, <2>2, DeleteKeeps DEF DeleteStep
<1>12. CASE BackfillStep(r)
  <2>1. CASE BeginBackfill(r)
    BY <1>5, <2>1 DEF BeginBackfill
  <2>2. CASE Pick(r)
    <3> DEFINE loaded == [poster |-> film.poster, palette |-> film.palette]
               q == [req[r] EXCEPT !.pc = "derive", !.seen = loaded, !.new = loaded]
    <3>1. /\ req' = [req EXCEPT ![r] = q] \/ Finish(r, Success)
          /\ film' = film /\ req[r].pc = "pick"
      BY <2>2 DEF Pick
    <3>2. /\ q.pc = "derive" /\ q.edit = req[r].edit /\ q.picked = req[r].picked
          /\ q.cut = req[r].cut /\ q.added = req[r].added
      BY <1>4 DEF Request
    <3> HIDE DEF q
    <3> QED BY <1>6, <1>8, <3>1, <3>2
  <2>3. CASE Derive(r)
    <3>1. PICK p \in palette_from_url(req[r].seen.poster) :
            req' = [req EXCEPT ![r].pc = "store",
                               ![r].new = IF p = None THEN @ ELSE [@ EXCEPT !.palette = p]]
      BY <2>3 DEF Derive
    <3> DEFINE new == IF p = None THEN req[r].new ELSE [req[r].new EXCEPT !.palette = p]
               q == [req[r] EXCEPT !.pc = "store", !.new = new]
    <3>2. req' = [req EXCEPT ![r] = q] /\ film' = film /\ req[r].pc = "derive"
      BY <2>3, <3>1 DEF Derive
    <3> HIDE DEF new
    <3>3. /\ q.pc = "store" /\ q.edit = req[r].edit /\ q.picked = req[r].picked
          /\ q.cut = req[r].cut /\ q.added = req[r].added
      BY <1>4 DEF Request
    <3> HIDE DEF q
    <3> QED BY <1>6, <3>2, <3>3
  <2>4. CASE StorePalette(r)
    <3>1. \/ Finish(r, Success) /\ film' = film
          \/ Raise(r, "StaleDataError")
          \/ film' = [film EXCEPT !.palette = req[r].new.palette] /\ Finish(r, Success)
      BY <2>4 DEF StorePalette
    <3>2. LET f == [film EXCEPT !.palette = req[r].new.palette]
          IN  f.titles = film.titles /\ f.live = film.live
      BY DEF TitlesInv, TypeOK, Film
    <3> QED BY <1>8, <3>1, <3>2, FinishKeeps, RaiseKeeps, SuccessTyped
  <2> QED BY <1>12, <2>1, <2>2, <2>3, <2>4 DEF BackfillStep
<1>13. CASE Abort(r)
  BY <1>8, <1>13 DEF Abort
<1> QED BY <1>9, <1>10, <1>11, <1>12, <1>13, EditKeeps

LEMMA TitlesInit ==
  ASSUME Init
  PROVE  TitlesInv
<1>1. Idle \in Request /\ Untouched(Idle) /\ Underway(Idle) /\ Fits(Idle, film)
  BY IdleUntouched, SuccessTyped, UntouchedFits
<1>2. \A r \in Requests : req[r] = Idle
  BY DEF Init
<1>3. AllFit /\ OneCuts
  BY <1>1, <1>2 DEF AllFit, OneCuts, Untouched
<1>4. NumberedByName \in Positioned
  BY DetailsAssumption, OrderTyped DEF NumberedByName
<1>5. film \in Film /\ (~film.live => film = NoFilm) /\ Whole
  <2>1. CASE film = NoFilm
    BY <2>1 DEF NoFilm, Film, NoGenres, Positioned, Whole
  <2>2. CASE film \in Migrated
    <3> DEFINE position == NumberedByName
    <3>1. PICK e \in {d \in Edits : d.titles # NotNamed /\ Allowed(d)}, p \in Posters \cup {None} :
            film = [live |-> TRUE, poster |-> p, palette |-> None, titles |-> TitleRowsOf(e),
                    position |-> position]
      BY <2>2 DEF Migrated
    <3> HIDE DEF position
    <3>2. position \in Positioned
      BY <1>4 DEF position
    <3>3. TitleRowsOf(e) \subseteq TitleRow /\ OneList(TitleRowsOf(e))
      BY RowsTyped DEF OneList
    <3> QED BY <3>1, <3>2, <3>3 DEF Film, Whole
  <2> QED BY <2>1, <2>2 DEF Init
<1>6. req \in [Requests -> Request] /\ crossed \subseteq {"poster", "genre"}
  BY <1>1 DEF Init
<1> QED BY <1>3, <1>5, <1>6 DEF TitlesInv, TypeOK

LEMMA TitlesInvariant == Spec => []TitlesInv
<1>1. Init => TitlesInv
  BY TitlesInit
<1>2. TitlesInv /\ [Next]_vars => TitlesInv'
  BY TitlesStep
<1> QED BY <1>1, <1>2, PTL DEF Spec

-----------------------------------------------------------------------------
(* The poster and the genres *)

PosterOf(f) == [poster |-> f.poster, palette |-> f.palette]
Linked(f) == {g \in Genres : f.position[g] # Unlinked}

EditLoaded == {"list_titles", "cut", "wait_cut", "fetch", "genres", "relabel", "seal"}
Loaded == EditLoaded \cup {"derive", "store"}

\* What a request has made of its payload so far.
Prepared(q) ==
    /\ q.pc = "idle" => q.edit = Blankly
    /\ q.pc \in EditLoaded /\ q.edit.poster_image = NotNamed => q.new = q.seen
    /\ q.pc \in {"genres", "relabel", "seal"} /\ q.edit.poster_image # NotNamed
         => q.new.poster = q.edit.poster_image
    /\ q.pc \in {"derive", "store"} => q.new.poster = q.seen.poster
    /\ q.links = IF q.pc = "seal" /\ q.edit.genre # NotNamed THEN Positions(q.edit.genre)
                                                             ELSE NotNamed
    /\ q.pc = "seal" /\ q.edit.genre # NotNamed => NamesValid(q.edit.genre)

\* The only writer of a field has read what the rows f hold of it.
PosterRead(q, f) ==
    "poster" \notin crossed /\ "poster" \in Writes(q) /\ q.pc \in Loaded
      => q.seen = PosterOf(f) /\ q.new.palette \in {q.new.poster, None}
GenresRead(q, f) ==
    "genre" \notin crossed /\ "genre" \in Writes(q) /\ q.pc \in {"relabel", "seal"}
      => Linked(f) \subseteq q.have

\* A request nothing has overlapped: the film it found is there, the titles it cut are all.
AloneFits(q, f) ==
    q.pc # "idle" /\ q.alone =>
      /\ q.pc \in Loaded \cup {"summary"} => f.live
      /\ q.edit.titles # NotNamed =>
           /\ q.pc = "wait_cut" => q.picked = f.titles
           /\ q.pc \in {"fetch", "genres", "relabel", "seal"} => q.cut = f.titles

Current(q, f) ==
    /\ Prepared(q)
    /\ f.live => PosterRead(q, f) /\ GenresRead(q, f)
    /\ AloneFits(q, f)

AllCurrent == \A r \in Requests : Current(req[r], film)
OneWriter ==
    \A field \in {"poster", "genre"} \ crossed : \A r, s \in Requests :
        r # s => field \notin Writes(req[r]) \cap Writes(req[s])
Uninterrupted ==
    \A r \in Requests : req[r].pc # "idle" /\ req[r].alone
                          => \A s \in Others(r) : req[s].pc = "idle"

\* The inductive invariant.
DetailsInv == TitlesInv /\ AllCurrent /\ OneWriter /\ Uninterrupted /\ PaletteIsOfPoster

\* A request that has not come to the film's rows.
Fresh(q) ==
    /\ q.pc \notin Loaded \cup {"summary"}
    /\ q.pc = "idle" => q.edit = Blankly
    /\ q.links = NotNamed

LEMMA FreshCurrent ==
  ASSUME NEW q, NEW f, Fresh(q)
  PROVE  Current(q, f)
<1>1. q.pc \notin {"list_titles", "cut", "wait_cut", "fetch", "genres", "relabel", "seal",
                   "derive", "store", "summary"}
  BY DEF Fresh, Loaded, EditLoaded
<1>2. Prepared(q)
  BY <1>1 DEF Prepared, Fresh, EditLoaded
<1>3. PosterRead(q, f) /\ GenresRead(q, f)
  BY <1>1 DEF PosterRead, GenresRead, Loaded, EditLoaded
<1>4. AloneFits(q, f)
  BY <1>1 DEF AloneFits, Loaded, EditLoaded
<1> QED BY <1>2, <1>3, <1>4 DEF Current

\* A step of one request that touches no row and starts to write no field.
LEMMA LocalCurrent ==
  ASSUME DetailsInv, NEW r \in Requests, NEW q, req' = [req EXCEPT ![r] = q],
         Current(q, film), Writes(q) \subseteq Writes(req[r]),
         q.pc = "idle" \/ (req[r].pc # "idle" /\ q.alone = req[r].alone),
         film' = film, crossed' = crossed
  PROVE  AllCurrent' /\ OneWriter' /\ Uninterrupted' /\ PaletteIsOfPoster'
<1>1. \A s \in Requests : req'[s] = IF s = r THEN q ELSE req[s]
  BY DEF DetailsInv, TitlesInv, TypeOK
<1>2. \A s \in Requests : Current(req'[s], film)
  BY <1>1 DEF DetailsInv, AllCurrent
<1>3. AllCurrent'
  BY <1>2 DEF AllCurrent, Current, PosterRead, GenresRead
<1>4. \A s \in Requests : Writes(req'[s]) \subseteq Writes(req[s])
  BY <1>1
<1>5. OneWriter'
  BY <1>4 DEF DetailsInv, OneWriter
<1>6. Uninterrupted'
  BY <1>1 DEF DetailsInv, Uninterrupted, Others
<1> QED BY <1>3, <1>5, <1>6 DEF DetailsInv, PaletteIsOfPoster

LEMMA FinishedFresh ==
  ASSUME NEW answer, NEW q \in {Idle, [Idle EXCEPT !.answer = answer]}
  PROVE  Fresh(q) /\ Writes(q) = {} /\ q.pc = "idle"
<1>1. q.pc = "idle" /\ q.edit = Blankly /\ q.links = NotNamed
  BY DEF Idle
<1>2. Blankly.poster_image = NotNamed /\ Blankly.genre = NotNamed
  BY DEF Blankly
<1>3. Writes(q) = {}
  BY <1>1, <1>2 DEF Writes
<1> QED BY <1>1, <1>3 DEF Fresh, Loaded, EditLoaded

LEMMA FinishCurrent ==
  ASSUME DetailsInv, NEW r \in Requests, NEW answer, Finish(r, answer),
         film' = film, crossed' = crossed
  PROVE  AllCurrent' /\ OneWriter' /\ Uninterrupted' /\ PaletteIsOfPoster'
<1> DEFINE q == [Idle EXCEPT !.answer = answer]
<1>1. Fresh(q) /\ Writes(q) = {} /\ q.pc = "idle" /\ req' = [req EXCEPT ![r] = q]
  BY FinishedFresh DEF Finish
<1> HIDE DEF q
<1> QED BY <1>1, FreshCurrent, LocalCurrent

LEMMA RaiseCurrent ==
  ASSUME DetailsInv, NEW r \in Requests, NEW exception, Raise(r, exception)
  PROVE  AllCurrent' /\ OneWriter' /\ Uninterrupted' /\ PaletteIsOfPoster'
  BY FinishCurrent DEF Raise, RolledBack

\* What a request writes is told by where it is and by its payload.
LEMMA SameWrites ==
  ASSUME NEW q, NEW t, q.pc = t.pc, q.edit = t.edit
  PROVE  Writes(q) = Writes(t)
  BY DEF Writes

\* The fields of a request that say what it is current about.
LEMMA SameCurrent ==
  ASSUME NEW q, NEW t, NEW f, Current(t, f), q.pc = t.pc, q.edit = t.edit, q.seen = t.seen,
         q.new = t.new, q.have = t.have, q.links = t.links, q.pc = "idle" \/ ~q.alone
  PROVE  Current(q, f)
<1>1. Writes(q) = Writes(t)
  BY SameWrites
<1>2. Prepared(q)
  BY DEF Current, Prepared
<1>3. PosterRead(t, f) => PosterRead(q, f)
  BY <1>1 DEF PosterRead
<1>4. GenresRead(t, f) => GenresRead(q, f)
  BY <1>1 DEF GenresRead
<1>5. AloneFits(q, f)
  BY DEF AloneFits
<1> QED BY <1>2, <1>3, <1>4, <1>5 DEF Current

LEMMA StartCurrent ==
  ASSUME DetailsInv, NEW r \in Requests, NEW q \in Request, Fresh(q), q.pc # "idle", Start(r, q)
  PROVE  AllCurrent' /\ OneWriter' /\ Uninterrupted' /\ PaletteIsOfPoster'
<1>0. /\ req \in [Requests -> Request] /\ crossed \subseteq crossed' /\ film' = film
      /\ crossed' = crossed \cup UNION {Writes(q) \cap Writes(req[s]) : s \in Others(r)}
  BY DEF DetailsInv, TitlesInv, TypeOK, Start
<1>1. \A t \in Request, b \in BOOLEAN : \A u : u = [t EXCEPT !.alone = b] =>
        /\ u.pc = t.pc /\ u.edit = t.edit /\ u.seen = t.seen /\ u.new = t.new
        /\ u.have = t.have /\ u.links = t.links /\ u.alone = b
  BY DEF Request
<1>2. /\ req'[r].pc = q.pc /\ req'[r].edit = q.edit /\ req'[r].links = q.links
      /\ req'[r].alone => \A t \in Others(r) : req[t].pc = "idle"
  <2>1. req'[r] = [q EXCEPT !.alone = \A t \in Others(r) : req[t].pc = "idle"]
    BY DEF Start
  <2> DEFINE b == \A t \in Others(r) : req[t].pc = "idle"
  <2>2. b \in BOOLEAN /\ req'[r] = [q EXCEPT !.alone = b]
    BY <2>1
  <2> HIDE DEF b
  <2>3. req'[r].pc = q.pc /\ req'[r].edit = q.edit /\ req'[r].links = q.links /\ req'[r].alone = b
    BY <1>1, <2>2
  <2> QED BY <2>3 DEF b
<1>3. Fresh(req'[r]) /\ Writes(req'[r]) = Writes(q)
  BY <1>2, SameWrites DEF Fresh
<1>4. ASSUME NEW s \in Others(r)
      PROVE  /\ Current(req'[s], film) /\ Writes(req'[s]) \subseteq Writes(req[s])
             /\ req'[s].pc = req[s].pc /\ (req'[s].pc = "idle" \/ ~req'[s].alone)
  <2>0. s \in Requests /\ s # r /\ Current(req[s], film) /\ req[s] \in Request
    BY <1>0 DEF Others, DetailsInv, AllCurrent
  <2>1. CASE req[s].pc = "idle"
    <3>1. req'[s] = Idle
      BY <2>0, <2>1 DEF Start
    <3>2. Fresh(Idle) /\ Writes(Idle) = {} /\ Idle.pc = "idle"
      BY FinishedFresh
    <3> QED BY <2>1, <3>1, <3>2, FreshCurrent
  <2>2. CASE req[s].pc # "idle"
    <3> DEFINE u == [req[s] EXCEPT !.alone = FALSE]
    <3>1. req'[s] = u
      BY <2>0, <2>2 DEF Start
    <3>2. /\ u.pc = req[s].pc /\ u.edit = req[s].edit /\ u.seen = req[s].seen
          /\ u.new = req[s].new /\ u.have = req[s].have /\ u.links = req[s].links /\ ~u.alone
      BY <1>1, <2>0
    <3> HIDE DEF u
    <3>3. Current(u, film)
      BY <2>0, <3>2, SameCurrent
    <3>4. Writes(u) = Writes(req[s])
      BY <3>2, SameWrites
    <3> QED BY <3>1, <3>2, <3>3, <3>4
  <2> QED BY <2>1, <2>2
<1>5. \A s \in Requests : Current(req'[s], film)
  BY <1>3, <1>4, FreshCurrent DEF Others
<1>6. AllCurrent'
  BY <1>0, <1>5 DEF AllCurrent, Current, PosterRead, GenresRead
<1>7. OneWriter'
  <2> SUFFICES ASSUME NEW field \in {"poster", "genre"} \ crossed', NEW s \in Requests,
                      NEW t \in Requests, s # t,
                      field \in Writes(req'[s]) \cap Writes(req'[t])
               PROVE  FALSE
    BY DEF OneWriter, Writes
  <2>1. \A u \in Others(r) : field \notin Writes(q) \cap Writes(req[u])
    BY <1>0
  <2>2. CASE s = r
    BY <1>3, <1>4, <2>1, <2>2 DEF Others
  <2>3. CASE t = r
    BY <1>3, <1>4, <2>1, <2>3 DEF Others
  <2>4. CASE s # r /\ t # r
    BY <1>0, <1>4, <2>4 DEF Others, DetailsInv, OneWriter
  <2> QED BY <2>2, <2>3, <2>4
<1>8. Uninterrupted'
  BY <1>2, <1>4 DEF Uninterrupted, Others
<1>9. PaletteIsOfPoster'
  BY <1>0 DEF DetailsInv, PaletteIsOfPoster
<1> QED BY <1>6, <1>7, <1>8, <1>9

\* The steps of an edit up to the one that commits it.
LEMMA EditCurrent ==
  ASSUME DetailsInv, NEW r \in Requests, EditStep(r), ~Seal(r)
  PROVE  AllCurrent' /\ OneWriter' /\ Uninterrupted' /\ PaletteIsOfPoster'
<1>1. /\ req[r] \in Request /\ Underway(req[r]) /\ Fits(req[r], film) /\ Current(req[r], film)
      /\ film \in Film
  BY DEF DetailsInv, TitlesInv, AllFit, TypeOK, AllCurrent
<1>2. CASE BeginEdit(r)
  <2>1. PICK e \in Edits : \/ Start(r, [Idle EXCEPT !.pc = "find", !.edit = e])
                           \/ Raise(r, "RequestValidationError")
    BY <1>2 DEF BeginEdit
  <2>2. CASE Start(r, [Idle EXCEPT !.pc = "find", !.edit = e])
    <3> DEFINE q1 == [Idle EXCEPT !.pc = "find"]
               q == [q1 EXCEPT !.edit = e]
    <3>1. q1 \in Request
      BY IdleUntouched, SuccessTyped, FieldsTyped DEF Pc
    <3>2. q \in Request
      BY <3>1, FieldsTyped
    <3>3. q.pc = "find" /\ q.links = NotNamed
      BY DEF Idle
    <3>4. Start(r, q)
      BY <2>2
    <3> HIDE DEF q
    <3> QED BY <3>2, <3>3, <3>4, StartCurrent DEF Fresh, Loaded, EditLoaded
  <2> QED BY <2>1, <2>2, RaiseCurrent
<1>3. CASE Find(r)
  <2> DEFINE loaded == [poster |-> film.poster, palette |-> film.palette]
             q == [req[r] EXCEPT !.pc = "list_titles", !.seen = loaded, !.new = loaded]
  <2>1. CASE film.live
    <3>1. /\ req' = [req EXCEPT ![r] = q] /\ film' = film /\ crossed' = crossed
          /\ req[r].pc = "find"
      BY <1>3, <2>1 DEF Find
    <3>2. /\ q.pc = "list_titles" /\ q.edit = req[r].edit /\ q.seen = loaded /\ q.new = loaded
          /\ q.links = req[r].links /\ q.alone = req[r].alone
      BY <1>1 DEF Request
    <3> HIDE DEF q
    <3>3. Prepared(q)
      BY <1>1, <3>1, <3>2 DEF Current, Prepared, EditLoaded
    <3>4. Writes(q) = Writes(req[r])
      BY <3>1, <3>2 DEF Writes
    <3>5. PosterRead(q, film) /\ GenresRead(q, film)
      <4>1. loaded = PosterOf(film) /\ loaded.poster = film.poster /\ loaded.palette = film.palette
        BY DEF PosterOf
      <4> HIDE DEF loaded
      <4> QED BY <3>2, <4>1 DEF PosterRead, GenresRead, DetailsInv, PaletteIsOfPoster
    <3>6. AloneFits(q, film)
      BY <2>1, <3>2 DEF AloneFits
    <3> QED BY <3>1, <3>2, <3>3, <3>4, <3>5, <3>6, LocalCurrent DEF Current
  <2> QED BY <1>3, <2>1, RaiseCurrent DEF Find
<1>4. CASE ListTitles(r)
  <2> DEFINE q == [req[r] EXCEPT !.pc = "cut"]
  <2>1. CASE Goto(r, "cut") /\ UNCHANGED <<film, crossed>>
    <3>1. /\ req' = [req EXCEPT ![r] = q] /\ film' = film /\ crossed' = crossed
          /\ req[r].pc = "list_titles"
      BY <1>4, <2>1 DEF ListTitles, Goto
    <3>2. /\ q.pc = "cut" /\ q.edit = req[r].edit /\ q.seen = req[r].seen /\ q.new = req[r].new
          /\ q.links = req[r].links /\ q.alone = req[r].alone
      BY <1>1 DEF Request
    <3> HIDE DEF q
    <3>3. Prepared(q)
      BY <1>1, <3>1, <3>2 DEF Current, Prepared, EditLoaded
    <3>4. Writes(q) = Writes(req[r])
      BY <3>1, <3>2 DEF Writes
    <3>5. film.live => PosterRead(q, film) /\ GenresRead(q, film)
      BY <1>1, <3>1, <3>2, <3>4 DEF Current, PosterRead, GenresRead, Loaded, EditLoaded
    <3>6. AloneFits(q, film)
      BY <1>1, <3>1, <3>2 DEF Current, AloneFits, Loaded, EditLoaded
    <3> QED BY <3>1, <3>2, <3>3, <3>4, <3>5, <3>6, LocalCurrent DEF Current
  <2> QED BY <1>4, <2>1, RaiseCurrent DEF ListTitles
<1>5. CASE Cut(r)
  <2> DEFINE q1 == [req[r] EXCEPT !.pc = "fetch"]
             q2 == [req[r] EXCEPT !.pc = "wait_cut", !.picked = film.titles]
             q == IF req[r].edit.titles = NotNamed THEN q1 ELSE q2
  <2>1. /\ req' = [req EXCEPT ![r] = q] /\ film' = film /\ crossed' = crossed
        /\ req[r].pc = "cut"
    BY <1>5 DEF Cut, Goto
  <2>2. /\ q.edit = req[r].edit /\ q.seen = req[r].seen /\ q.new = req[r].new
        /\ q.links = req[r].links /\ q.alone = req[r].alone
        /\ \/ q.pc = "fetch" /\ req[r].edit.titles = NotNamed
           \/ q.pc = "wait_cut" /\ q.picked = film.titles
    <3>1. /\ q1.edit = req[r].edit /\ q1.seen = req[r].seen /\ q1.new = req[r].new
          /\ q1.links = req[r].links /\ q1.alone = req[r].alone /\ q1.pc = "fetch"
      BY <1>1 DEF Request
    <3>2. /\ q2.edit = req[r].edit /\ q2.seen = req[r].seen /\ q2.new = req[r].new
          /\ q2.links = req[r].links /\ q2.alone = req[r].alone /\ q2.pc = "wait_cut"
          /\ q2.picked = film.titles
      BY <1>1 DEF Request
    <3> HIDE DEF q1, q2
    <3> QED BY <3>1, <3>2
  <2> HIDE DEF q
  <2>3. Prepared(q)
    BY <1>1, <2>1, <2>2 DEF Current, Prepared, EditLoaded
  <2>4. Writes(q) = Writes(req[r])
    BY <2>1, <2>2 DEF Writes
  <2>5. film.live => PosterRead(q, film) /\ GenresRead(q, film)
    BY <1>1, <2>1, <2>2, <2>4 DEF Current, PosterRead, GenresRead, Loaded, EditLoaded
  <2>6. AloneFits(q, film)
    BY <1>1, <2>1, <2>2 DEF Current, AloneFits, Loaded, EditLoaded
  <2> QED BY <2>1, <2>2, <2>3, <2>4, <2>5, <2>6, LocalCurrent DEF Current
<1>6. CASE FinishCut(r)
  <2> DEFINE q == [req[r] EXCEPT !.pc = "fetch", !.cut = req[r].picked, !.picked = {}]
  <2>1. /\ req' = [req EXCEPT ![r] = q] /\ film' = film /\ crossed' = crossed
        /\ req[r].pc = "wait_cut"
    BY <1>6 DEF FinishCut
  <2>2. /\ q.pc = "fetch" /\ q.edit = req[r].edit /\ q.seen = req[r].seen /\ q.new = req[r].new
        /\ q.links = req[r].links /\ q.alone = req[r].alone /\ q.cut = req[r].picked
    BY <1>1 DEF Request
  <2> HIDE DEF q
  <2>3. Prepared(q)
    BY <1>1, <2>1, <2>2 DEF Current, Prepared, EditLoaded
  <2>4. Writes(q) = Writes(req[r])
    BY <2>1, <2>2 DEF Writes
  <2>5. film.live => PosterRead(q, film) /\ GenresRead(q, film)
    BY <1>1, <2>1, <2>2, <2>4 DEF Current, PosterRead, GenresRead, Loaded, EditLoaded
  <2>6. AloneFits(q, film)
    BY <1>1, <2>1, <2>2 DEF Current, AloneFits, Loaded, EditLoaded
  <2> QED BY <2>1, <2>2, <2>3, <2>4, <2>5, <2>6, LocalCurrent DEF Current
<1>7. CASE FetchPalette(r)
  <2> DEFINE next == IF req[r].edit.genre = NotNamed THEN "seal" ELSE "genres"
             url == req[r].edit.poster_image
             Posted(n) == [req[r] EXCEPT !.pc = next, !.new = n]
             Unposted == [req[r] EXCEPT !.pc = next]
  <2>1. /\ \/ /\ url = NotNamed \/ url = req[r].new.poster
              /\ req' = [req EXCEPT ![r] = Unposted]
           \/ /\ url # NotNamed
              /\ \E n \in Reposted(r, url) : req' = [req EXCEPT ![r] = Posted(n)]
        /\ film' = film /\ crossed' = crossed /\ req[r].pc = "fetch"
    BY <1>7 DEF FetchPalette, Goto
  <2>2. /\ Unposted.pc = next /\ Unposted.edit = req[r].edit /\ Unposted.seen = req[r].seen
        /\ Unposted.new = req[r].new /\ Unposted.links = req[r].links
        /\ Unposted.alone = req[r].alone /\ Unposted.cut = req[r].cut
    BY <1>1 DEF Request
  <2>3. ASSUME NEW n
        PROVE  /\ Posted(n).pc = next /\ Posted(n).edit = req[r].edit
               /\ Posted(n).seen = req[r].seen /\ Posted(n).new = n
               /\ Posted(n).links = req[r].links /\ Posted(n).alone = req[r].alone
               /\ Posted(n).cut = req[r].cut
    BY <1>1 DEF Request
  <2> HIDE DEF Posted, Unposted
  <2>4. PICK q, n :
          /\ req' = [req EXCEPT ![r] = q]
          /\ q.pc = next /\ q.edit = req[r].edit /\ q.seen = req[r].seen /\ q.new = n
          /\ q.links = req[r].links /\ q.alone = req[r].alone /\ q.cut = req[r].cut
          /\ \/ n = req[r].new /\ (url = NotNamed \/ url = req[r].new.poster)
             \/ n \in Reposted(r, url) /\ url # NotNamed
    <3>1. CASE /\ url = NotNamed \/ url = req[r].new.poster
               /\ req' = [req EXCEPT ![r] = Unposted]
      BY <2>2, <3>1
    <3>2. CASE /\ url # NotNamed
               /\ \E n \in Reposted(r, url) : req' = [req EXCEPT ![r] = Posted(n)]
      <4>1. PICK n \in Reposted(r, url) : req' = [req EXCEPT ![r] = Posted(n)]
        BY <3>2
      <4> DEFINE q == Posted(n)
      <4>2. /\ req' = [req EXCEPT ![r] = q]
            /\ q.pc = next /\ q.edit = req[r].edit /\ q.seen = req[r].seen /\ q.new = n
            /\ q.links = req[r].links /\ q.alone = req[r].alone /\ q.cut = req[r].cut
        BY <2>3, <4>1
      <4> HIDE DEF q, next, url
      <4> QED BY <3>2, <4>2
    <3> QED BY <2>1, <3>1, <3>2
  <2>5. /\ url = NotNamed => n = req[r].new
        /\ url # NotNamed => n.poster = url
        /\ \/ n = req[r].new
           \/ n.palette \in {n.poster, None}
    BY <2>4 DEF Reposted, palette_from_url
  <2>6. /\ q.pc \in {"seal", "genres"} /\ (q.pc = "seal" => req[r].edit.genre = NotNamed)
        /\ req[r].pc = "fetch" /\ film' = film /\ crossed' = crossed
    BY <2>1, <2>4
  <2>7. Prepared(q)
    BY <1>1, <2>4, <2>5, <2>6 DEF Current, Prepared, EditLoaded
  <2>8. Writes(q) = Writes(req[r])
    BY <2>4, <2>6 DEF Writes
  <2>9. film.live => PosterRead(q, film) /\ GenresRead(q, film)
    <3>2. ASSUME film.live, "poster" \notin crossed, "poster" \in Writes(q)
          PROVE  q.seen = PosterOf(film) /\ q.new.palette \in {q.new.poster, None}
      <4>1. /\ req[r].seen = PosterOf(film)
            /\ req[r].new.palette \in {req[r].new.poster, None}
        BY <1>1, <2>6, <2>8, <3>2 DEF Current, PosterRead, Loaded, EditLoaded
      <4> QED BY <2>4, <2>5, <4>1
    <3>3. q.pc \in {"relabel", "seal"} => "genre" \notin Writes(q)
      BY <2>4, <2>6 DEF Writes
    <3> QED BY <3>2, <3>3 DEF PosterRead, GenresRead
  <2>10. AloneFits(q, film)
    BY <1>1, <2>4, <2>6 DEF Current, AloneFits, Loaded, EditLoaded
  <2> QED BY <2>4, <2>6, <2>7, <2>8, <2>9, <2>10, LocalCurrent DEF Current
<1>8. CASE ReadGenres(r)
  <2>1. CASE Raise(r, "IntegrityError")
    BY <2>1, RaiseCurrent
  <2>2. CASE ~Raise(r, "IntegrityError")
    <3> DEFINE have == {g \in Genres : film.position[g] # Unlinked}
               titles == FlushedTitles(r)
               q == [req[r] EXCEPT !.pc = "relabel", !.added = titles, !.flushed = TRUE,
                                   !.have = have]
    <3>1. /\ req' = [req EXCEPT ![r] = q] /\ film' = film /\ crossed' = crossed
          /\ req[r].pc = "genres"
      BY <1>8, <2>2 DEF ReadGenres
    <3>2. /\ q.pc = "relabel" /\ q.edit = req[r].edit /\ q.seen = req[r].seen
          /\ q.new = req[r].new /\ q.links = req[r].links /\ q.alone = req[r].alone
          /\ q.cut = req[r].cut /\ q.have = have
      BY <1>1 DEF Request
    <3>3. have = Linked(film)
      BY DEF Linked
    <3> HIDE DEF q, have
    <3>4. Prepared(q)
      BY <1>1, <3>1, <3>2 DEF Current, Prepared, EditLoaded
    <3>5. Writes(q) = Writes(req[r])
      BY <3>1, <3>2 DEF Writes
    <3>6. film.live => PosterRead(q, film) /\ GenresRead(q, film)
      BY <1>1, <3>1, <3>2, <3>3, <3>5 DEF Current, PosterRead, GenresRead, Loaded, EditLoaded
    <3>7. AloneFits(q, film)
      BY <1>1, <3>1, <3>2 DEF Current, AloneFits, Loaded, EditLoaded
    <3> QED BY <3>1, <3>2, <3>4, <3>5, <3>6, <3>7, LocalCurrent DEF Current
  <2> QED BY <2>1, <2>2
<1>9. CASE Relabel(r)
  <2> DEFINE q == [req[r] EXCEPT !.pc = "seal", !.links = Positions(req[r].edit.genre)]
  <2>1. CASE NamesValid(req[r].edit.genre) /\ film.live
    <3>1. /\ req' = [req EXCEPT ![r] = q] /\ film' = film /\ crossed' = crossed
          /\ req[r].pc = "relabel"
      BY <1>9, <2>1 DEF Relabel
    <3>2. /\ q.pc = "seal" /\ q.edit = req[r].edit /\ q.seen = req[r].seen
          /\ q.new = req[r].new /\ q.links = Positions(req[r].edit.genre)
          /\ q.alone = req[r].alone /\ q.cut = req[r].cut /\ q.have = req[r].have
      BY <1>1 DEF Request
    <3>3. req[r].edit.genre # NotNamed
      BY <1>1, <3>1 DEF Underway
    <3> HIDE DEF q
    <3>4. Prepared(q)
      BY <1>1, <2>1, <3>1, <3>2, <3>3 DEF Current, Prepared, EditLoaded
    <3>5. Writes(q) = Writes(req[r])
      BY <3>1, <3>2 DEF Writes
    <3>6. film.live => PosterRead(q, film) /\ GenresRead(q, film)
      BY <1>1, <3>1, <3>2, <3>5 DEF Current, PosterRead, GenresRead, Loaded, EditLoaded
    <3>7. AloneFits(q, film)
      BY <1>1, <3>1, <3>2 DEF Current, AloneFits, Loaded, EditLoaded
    <3> QED BY <3>1, <3>2, <3>4, <3>5, <3>6, <3>7, LocalCurrent DEF Current
  <2> QED BY <1>9, <2>1, RaiseCurrent DEF Relabel
<1> QED BY <1>2, <1>3, <1>4, <1>5, <1>6, <1>7, <1>8, <1>9 DEF EditStep

\* A step that commits and thereby touches rows: the others keep their local variables, and
\* none of them can be alone.
LEMMA CommitCurrent ==
  ASSUME DetailsInv, NEW r \in Requests, req[r].pc # "idle", NEW q,
         Fresh(q), Writes(q) = {}, q.pc = "idle" \/ q.alone = req[r].alone,
         req'[r] = q,
         \A s \in Others(r) :
           /\ req'[s].pc = req[s].pc /\ req'[s].edit = req[s].edit
           /\ req'[s].seen = req[s].seen /\ req'[s].new = req[s].new
           /\ req'[s].have = req[s].have /\ req'[s].links = req[s].links
           /\ req'[s].alone = req[s].alone,
         film'.live => /\ film.live
                       /\ "poster" \notin crossed /\ "poster" \notin Writes(req[r])
                            => PosterOf(film') = PosterOf(film)
                       /\ "genre" \notin crossed /\ "genre" \notin Writes(req[r])
                            => film'.position = film.position,
         crossed' = crossed
  PROVE  AllCurrent' /\ OneWriter' /\ Uninterrupted'
<1>1. Current(q, film')
  BY FreshCurrent
<1>2. ASSUME NEW s \in Others(r)
      PROVE  Current(req'[s], film') /\ Writes(req'[s]) = Writes(req[s])
  <2>1. s \in Requests /\ s # r /\ Current(req[s], film)
    BY DEF Others, DetailsInv, AllCurrent
  <2>2. Writes(req'[s]) = Writes(req[s])
    BY SameWrites
  <2>3. req[s].pc = "idle" \/ ~req[s].alone
    BY <2>1 DEF DetailsInv, Uninterrupted, Others
  <2>4. Prepared(req'[s])
    BY <2>1 DEF Current, Prepared
  <2>5. AloneFits(req'[s], film')
    BY <2>3 DEF AloneFits
  <2>6. ASSUME film'.live, "poster" \notin crossed, "poster" \in Writes(req'[s]),
               req'[s].pc \in Loaded
        PROVE  /\ req'[s].seen = PosterOf(film')
               /\ req'[s].new.palette \in {req'[s].new.poster, None}
    <3>1. "poster" \notin Writes(req[r])
      BY <2>1, <2>2, <2>6 DEF DetailsInv, OneWriter
    <3>2. /\ req[s].seen = PosterOf(film)
          /\ req[s].new.palette \in {req[s].new.poster, None}
      BY <2>1, <2>2, <2>6 DEF Current, PosterRead
    <3> QED BY <2>6, <3>1, <3>2
  <2>7. ASSUME film'.live, "genre" \notin crossed, "genre" \in Writes(req'[s]),
               req'[s].pc \in {"relabel", "seal"}
        PROVE  Linked(film') \subseteq req'[s].have
    <3>1. "genre" \notin Writes(req[r])
      BY <2>1, <2>2, <2>7 DEF DetailsInv, OneWriter
    <3>2. Linked(film) \subseteq req[s].have
      BY <2>1, <2>2, <2>7 DEF Current, GenresRead
    <3>3. film'.position = film.position
      BY <2>7, <3>1
    <3> QED BY <3>2, <3>3 DEF Linked
  <2> QED BY <2>2, <2>4, <2>5, <2>6, <2>7 DEF Current, PosterRead, GenresRead
<1>3. AllCurrent'
  BY <1>1, <1>2 DEF AllCurrent, Current, PosterRead, GenresRead, Others
<1>4. OneWriter'
  BY <1>2 DEF DetailsInv, OneWriter, Others
<1>5. Uninterrupted'
  BY DEF DetailsInv, Uninterrupted, Others
<1> QED BY <1>3, <1>4, <1>5

LEMMA ReleaseRest ==
  ASSUME TypeOK, NEW r \in Requests, NEW rows, NEW q, Release(r, rows, q)
  PROVE  \A s \in Others(r) :
           /\ req'[s].seen = req[s].seen /\ req'[s].new = req[s].new
           /\ req'[s].have = req[s].have /\ req'[s].links = req[s].links
           /\ req'[s].alone = req[s].alone
<1> SUFFICES ASSUME NEW s \in Others(r)
             PROVE  /\ req'[s].seen = req[s].seen /\ req'[s].new = req[s].new
                    /\ req'[s].have = req[s].have /\ req'[s].links = req[s].links
                    /\ req'[s].alone = req[s].alone
  OBVIOUS
<1>1. req[s] \in Request /\ req'[s] = [req[s] EXCEPT !.picked = @ \ rows]
  BY DEF Others, Release, TypeOK
<1> QED BY <1>1 DEF Request

\* The poster a transaction commits goes with the palette it commits.
LEMMA SealedFilm ==
  ASSUME DetailsInv, NEW r \in Requests, req[r].pc = "seal", film.live
  PROVE  /\ req[r].edit.poster_image = NotNamed => PosterOf(Sealed(r)) = PosterOf(film)
         /\ "poster" \notin crossed /\ req[r].edit.poster_image # NotNamed
              => /\ Sealed(r).poster = req[r].edit.poster_image
                 /\ Sealed(r).palette \in {Sealed(r).poster, None}
         /\ req[r].edit.genre = NotNamed => Sealed(r).position = film.position
         /\ "genre" \notin crossed /\ req[r].edit.genre # NotNamed
              => Sealed(r).position = Positions(req[r].edit.genre)
         /\ Sealed(r).live
<1> DEFINE rows == (film.titles \ req[r].cut) \cup FlushedTitles(r)
           moved == Moved(r)
<1>1. /\ Sealed(r).poster = IF req[r].new.poster # req[r].seen.poster THEN req[r].new.poster
                            ELSE film.poster
      /\ Sealed(r).palette = IF req[r].new.palette # req[r].seen.palette
                             THEN req[r].new.palette ELSE film.palette
      /\ Sealed(r).position = moved /\ Sealed(r).live = film.live
  BY DEF Sealed
<1>2. Current(req[r], film) /\ film \in Film
  BY DEF DetailsInv, AllCurrent, TitlesInv, TypeOK
<1> HIDE DEF moved
<1>3. req[r].edit.poster_image = NotNamed => PosterOf(Sealed(r)) = PosterOf(film)
  BY <1>1, <1>2 DEF Current, Prepared, EditLoaded, PosterOf
<1>4. ASSUME "poster" \notin crossed, req[r].edit.poster_image # NotNamed
      PROVE  /\ Sealed(r).poster = req[r].edit.poster_image
             /\ Sealed(r).palette \in {Sealed(r).poster, None}
  <2>1. req[r].new.poster = req[r].edit.poster_image
    BY <1>2, <1>4 DEF Current, Prepared
  <2>2. req[r].seen = PosterOf(film) /\ req[r].new.palette \in {req[r].new.poster, None}
    BY <1>2, <1>4 DEF Current, PosterRead, Loaded, EditLoaded, Writes
  <2>3. req[r].seen.poster = film.poster /\ req[r].seen.palette = film.palette
    BY <2>2 DEF PosterOf
  <2> QED BY <1>1, <2>1, <2>2, <2>3
<1>5. req[r].edit.genre = NotNamed => moved = film.position
  BY <1>2 DEF Current, Prepared, Moved, moved
<1>6. ASSUME "genre" \notin crossed, req[r].edit.genre # NotNamed
      PROVE  moved = Positions(req[r].edit.genre)
  <2> DEFINE links == Positions(req[r].edit.genre)
  <2>1. req[r].links = links
    BY <1>2, <1>6 DEF Current, Prepared
  <2>2. req[r].edit \in Edits
    BY DEF DetailsInv, TitlesInv, AllFit, Underway
  <2>3. links \in Positioned
    BY <1>6, <2>2, PositionsTyped
  <2>4. NotNamed \notin Positioned
    <3>1. Positioned \subseteq [Genres -> Int]
      BY DEF Positioned, Unlinked
    <3> QED BY <3>1, DetailsAssumption
  <2>5. Linked(film) \subseteq req[r].have
    BY <1>2, <1>6 DEF Current, GenresRead, Writes
  <2> HIDE DEF links
  <2>6. moved = [g \in Genres |-> IF links[g] # Unlinked \/ g \in req[r].have THEN links[g]
                                 ELSE film.position[g]]
    BY <2>1, <2>3, <2>4 DEF Moved, moved
  <2>7. \A g \in Genres : moved[g] = links[g]
    BY <2>5, <2>6 DEF Linked
  <2>8. moved = links
    BY <2>3, <2>6, <2>7 DEF Positioned
  <2> QED BY <2>8 DEF links
<1> QED BY <1>1, <1>3, <1>4, <1>5, <1>6

LEMMA SealCurrent ==
  ASSUME DetailsInv, NEW r \in Requests, Seal(r)
  PROVE  AllCurrent' /\ OneWriter' /\ Uninterrupted' /\ PaletteIsOfPoster'
<1> DEFINE q == [Idle EXCEPT !.pc = "detail", !.alone = req[r].alone]
<1>1. \/ Raise(r, "IntegrityError")
      \/ /\ ~FlushFails(r, TRUE) /\ film' = Sealed(r)
         /\ Release(r, req[r].cut, q) /\ crossed' = crossed
  BY DEF Seal
<1>2. q.pc = "detail" /\ q.links = NotNamed /\ q.alone = req[r].alone /\ q.edit = Blankly
  BY DEF Idle
<1>3. Fresh(q) /\ Writes(q) = {}
  <2>1. Blankly.poster_image = NotNamed /\ Blankly.genre = NotNamed
    BY DEF Blankly
  <2> QED BY <1>2, <2>1 DEF Fresh, Loaded, EditLoaded, Writes
<1> HIDE DEF q
<1>4. CASE Raise(r, "IntegrityError")
  BY <1>4, RaiseCurrent
<1>5. CASE /\ ~FlushFails(r, TRUE) /\ film' = Sealed(r)
           /\ Release(r, req[r].cut, q) /\ crossed' = crossed
  <2>1. req[r].pc = "seal" /\ film.live /\ TypeOK
    BY <1>5 DEF Seal, FlushFails, DetailsInv, TitlesInv
  <2>2. /\ req[r].edit.poster_image = NotNamed => PosterOf(film') = PosterOf(film)
        /\ "poster" \notin crossed /\ req[r].edit.poster_image # NotNamed
             => film'.palette \in {film'.poster, None}
        /\ req[r].edit.genre = NotNamed => film'.position = film.position
    BY <1>5, <2>1, SealedFilm
  <2>3. /\ "poster" \notin Writes(req[r]) => req[r].edit.poster_image = NotNamed
        /\ "genre" \notin Writes(req[r]) => req[r].edit.genre = NotNamed
    BY <2>1 DEF Writes
  <2>4. \A s \in Others(r) :
          /\ req'[s].pc = req[s].pc /\ req'[s].edit = req[s].edit
          /\ req'[s].seen = req[s].seen /\ req'[s].new = req[s].new
          /\ req'[s].have = req[s].have /\ req'[s].links = req[s].links
          /\ req'[s].alone = req[s].alone
    BY <1>5, <2>1, ReleaseFields, ReleaseRest
  <2>5. req'[r] = q
    BY <1>5, <2>1, ReleaseFields
  <2>6. AllCurrent' /\ OneWriter' /\ Uninterrupted'
    BY <1>2, <1>3, <1>5, <2>1, <2>2, <2>3, <2>4, <2>5, CommitCurrent
  <2>7. PaletteIsOfPoster'
    <3>1. CASE req[r].edit.poster_image = NotNamed
      <4>1. film'.poster = film.poster /\ film'.palette = film.palette
        BY <2>2, <3>1 DEF PosterOf
      <4> QED BY <1>5, <4>1 DEF DetailsInv, PaletteIsOfPoster
    <3>2. CASE req[r].edit.poster_image # NotNamed
      BY <1>5, <2>2, <3>2 DEF PaletteIsOfPoster
    <3> QED BY <3>1, <3>2
  <2> QED BY <2>6, <2>7
<1> QED BY <1>1, <1>4, <1>5

LEMMA DeleteCurrent ==
  ASSUME DetailsInv, NEW r \in Requests, Delete(r)
  PROVE  AllCurrent' /\ OneWriter' /\ Uninterrupted' /\ PaletteIsOfPoster'
<1> DEFINE q == [Idle EXCEPT !.answer = Success]
<1>1. /\ req[r].pc = "delete" /\ film' = NoFilm /\ Release(r, film.titles, q)
      /\ crossed' = crossed
  BY DEF Delete
<1>2. Fresh(q) /\ Writes(q) = {} /\ q.pc = "idle"
  BY FinishedFresh
<1> HIDE DEF q
<1>3. ~film'.live /\ film'.palette = None
  BY <1>1 DEF NoFilm
<1>4. \A s \in Others(r) :
        /\ req'[s].pc = req[s].pc /\ req'[s].edit = req[s].edit
        /\ req'[s].seen = req[s].seen /\ req'[s].new = req[s].new
        /\ req'[s].have = req[s].have /\ req'[s].links = req[s].links
        /\ req'[s].alone = req[s].alone
  BY <1>1, ReleaseFields, ReleaseRest DEF DetailsInv, TitlesInv
<1>5. req'[r] = q
  BY <1>1, ReleaseFields DEF DetailsInv, TitlesInv
<1>6. AllCurrent' /\ OneWriter' /\ Uninterrupted'
  BY <1>1, <1>2, <1>3, <1>4, <1>5, CommitCurrent
<1> QED BY <1>3, <1>6 DEF PaletteIsOfPoster

LEMMA CreateCurrent ==
  ASSUME DetailsInv, NEW e \in Edits, NEW palette, CreateFilm(e, palette)
  PROVE  AllCurrent' /\ OneWriter' /\ Uninterrupted' /\ PaletteIsOfPoster'
<1>1. req' = req /\ crossed' = {} /\ \A r \in Requests : req[r].pc = "idle"
  BY DEF CreateFilm
<1>2. film'.poster = e.poster_image /\ film'.palette = palette
  BY DEF CreateFilm
<1>3. palette \in {e.poster_image, None}
  BY DEF CreateFilm, palette_from_url
<1>4. ASSUME NEW r \in Requests
      PROVE  Fresh(req[r]) /\ Writes(req[r]) = {}
  <2>1. Prepared(req[r]) /\ req[r].pc = "idle"
    BY <1>1 DEF DetailsInv, AllCurrent, Current
  <2>2. req[r].edit = Blankly /\ req[r].links = NotNamed
    BY <2>1 DEF Prepared
  <2>3. Blankly.poster_image = NotNamed /\ Blankly.genre = NotNamed
    BY DEF Blankly
  <2>4. Writes(req[r]) = {}
    BY <2>1, <2>2, <2>3 DEF Writes
  <2> QED BY <2>1, <2>2, <2>4 DEF Fresh, Loaded, EditLoaded
<1>5. \A r \in Requests : Current(req[r], film')
  BY <1>4, FreshCurrent
<1>6. AllCurrent'
  BY <1>1, <1>4, FreshCurrent DEF AllCurrent, Current, PosterRead, GenresRead
<1>7. OneWriter'
  BY <1>1, <1>4 DEF OneWriter
<1>8. Uninterrupted'
  BY <1>1 DEF Uninterrupted
<1> QED BY <1>2, <1>3, <1>6, <1>7, <1>8 DEF PaletteIsOfPoster

LEMMA BackfillCurrent ==
  ASSUME DetailsInv, NEW r \in Requests, Pick(r) \/ Derive(r) \/ StorePalette(r)
  PROVE  AllCurrent' /\ OneWriter' /\ Uninterrupted' /\ PaletteIsOfPoster'
<1>1. /\ req[r] \in Request /\ Current(req[r], film) /\ film \in Film
      /\ ~film.live => film = NoFilm
  BY DEF DetailsInv, TitlesInv, TypeOK, AllCurrent
<1>2. CASE Pick(r)
  <2> DEFINE loaded == [poster |-> film.poster, palette |-> film.palette]
             q == [req[r] EXCEPT !.pc = "derive", !.seen = loaded, !.new = loaded]
  <2>1. /\ \/ film.poster # None /\ req' = [req EXCEPT ![r] = q]
           \/ Finish(r, Success)
        /\ film' = film /\ crossed' = crossed /\ req[r].pc = "pick"
    BY <1>2 DEF Pick
  <2>2. /\ q.pc = "derive" /\ q.edit = req[r].edit /\ q.seen = loaded /\ q.new = loaded
        /\ q.links = req[r].links /\ q.alone = req[r].alone
    BY <1>1 DEF Request
  <2>3. loaded = PosterOf(film) /\ loaded.poster = film.poster /\ loaded.palette = film.palette
    BY DEF PosterOf
  <2> HIDE DEF q, loaded
  <2>4. CASE film.poster # None /\ req' = [req EXCEPT ![r] = q]
    <3>1. film.live
      BY <1>1, <2>4 DEF NoFilm
    <3>2. Prepared(q)
      BY <1>1, <2>1, <2>2 DEF Current, Prepared, EditLoaded
    <3>3. Writes(q) = Writes(req[r])
      BY <2>1, <2>2 DEF Writes
    <3>4. PosterRead(q, film) /\ GenresRead(q, film)
      BY <2>2, <2>3 DEF PosterRead, GenresRead, DetailsInv, PaletteIsOfPoster
    <3>5. AloneFits(q, film)
      BY <2>2, <3>1 DEF AloneFits
    <3> QED BY <2>1, <2>2, <2>4, <3>2, <3>3, <3>4, <3>5, LocalCurrent DEF Current
  <2> QED BY <2>1, <2>4, FinishCurrent
<1>3. CASE Derive(r)
  <2>1. PICK p \in palette_from_url(req[r].seen.poster) :
          req' = [req EXCEPT ![r].pc = "store",
                             ![r].new = IF p = None THEN @ ELSE [@ EXCEPT !.palette = p]]
    BY <1>3 DEF Derive
  <2> DEFINE new == IF p = None THEN req[r].new ELSE [req[r].new EXCEPT !.palette = p]
             q == [req[r] EXCEPT !.pc = "store", !.new = new]
  <2>2. /\ req' = [req EXCEPT ![r] = q] /\ film' = film /\ crossed' = crossed
        /\ req[r].pc = "derive"
    BY <1>3, <2>1 DEF Derive
  <2>3. /\ new.poster = req[r].new.poster
        /\ new.palette = req[r].new.palette \/ new.palette = req[r].seen.poster
    <3>1. req[r].new \in Poster /\ p \in {req[r].seen.poster, None}
      BY <1>1, <2>1 DEF Request, palette_from_url
    <3> QED BY <3>1 DEF Poster
  <2> HIDE DEF new
  <2>4. /\ q.pc = "store" /\ q.edit = req[r].edit /\ q.seen = req[r].seen /\ q.new = new
        /\ q.links = req[r].links /\ q.alone = req[r].alone
    BY <1>1 DEF Request
  <2> HIDE DEF q
  <2>5. req[r].new.poster = req[r].seen.poster
    BY <1>1, <2>2 DEF Current, Prepared
  <2>6. Prepared(q)
    BY <1>1, <2>2, <2>3, <2>4, <2>5 DEF Current, Prepared, EditLoaded
  <2>7. Writes(q) = Writes(req[r])
    BY <2>2, <2>4 DEF Writes
  <2>8. film.live => PosterRead(q, film) /\ GenresRead(q, film)
    BY <1>1, <2>2, <2>3, <2>4, <2>5, <2>7 DEF Current, PosterRead, GenresRead, Loaded, EditLoaded
  <2>9. AloneFits(q, film)
    BY <1>1, <2>2, <2>4 DEF Current, AloneFits, Loaded, EditLoaded
  <2> QED BY <2>2, <2>4, <2>6, <2>7, <2>8, <2>9, LocalCurrent DEF Current
<1>4. CASE StorePalette(r)
  <2>1. /\ req[r].pc = "store"
        /\ \/ Finish(r, Success) /\ film' = film /\ crossed' = crossed
           \/ Raise(r, "StaleDataError")
           \/ /\ film.live /\ film' = [film EXCEPT !.palette = req[r].new.palette]
              /\ Finish(r, Success) /\ crossed' = crossed
    BY <1>4 DEF StorePalette
  <2>2. CASE /\ film.live /\ film' = [film EXCEPT !.palette = req[r].new.palette]
             /\ Finish(r, Success) /\ crossed' = crossed
    <3> DEFINE q == [Idle EXCEPT !.answer = Success]
    <3>1. Fresh(q) /\ Writes(q) = {} /\ q.pc = "idle"
      BY FinishedFresh
    <3>2. req' = [req EXCEPT ![r] = q]
      BY <2>2 DEF Finish
    <3> HIDE DEF q
    <3>3. req'[r] = q /\ \A s \in Others(r) : req'[s] = req[s]
      BY <3>2 DEF DetailsInv, TitlesInv, TypeOK, Others
    <3>4. /\ film'.poster = film.poster /\ film'.palette = req[r].new.palette
          /\ film'.position = film.position /\ film'.live = film.live
      BY <1>1, <2>2 DEF Film
    <3>5. "poster" \in Writes(req[r])
      BY <2>1 DEF Writes
    <3>6. AllCurrent' /\ OneWriter' /\ Uninterrupted'
      BY <2>1, <2>2, <3>1, <3>3, <3>4, <3>5, CommitCurrent
    <3>7. ASSUME "poster" \notin crossed
          PROVE  req[r].new.palette \in {film.poster, None}
      <4>1. /\ req[r].seen = PosterOf(film)
            /\ req[r].new.palette \in {req[r].new.poster, None}
        BY <1>1, <2>1, <2>2, <3>5, <3>7 DEF Current, PosterRead, Loaded
      <4>2. req[r].new.poster = req[r].seen.poster
        BY <1>1, <2>1 DEF Current, Prepared
      <4> QED BY <4>1, <4>2 DEF PosterOf
    <3>8. PaletteIsOfPoster'
      BY <2>2, <3>4, <3>7 DEF PaletteIsOfPoster
    <3> QED BY <3>6, <3>8
  <2> QED BY <2>1, <2>2, FinishCurrent, RaiseCurrent
<1> QED BY <1>2, <1>3, <1>4

\* A step from one statement to the next that neither loads nor stages anything.
LEMMA GotoCurrent ==
  ASSUME DetailsInv, NEW r \in Requests, NEW pc \in {"detail", "summary", "delete"}, Goto(r, pc),
         req[r].pc \in {"load", "check", "delete_find"}, film.live,
         film' = film, crossed' = crossed
  PROVE  AllCurrent' /\ OneWriter' /\ Uninterrupted' /\ PaletteIsOfPoster'
<1> DEFINE q == [req[r] EXCEPT !.pc = pc]
<1>1. req[r] \in Request /\ Current(req[r], film)
  BY DEF DetailsInv, TitlesInv, TypeOK, AllCurrent
<1>2. /\ q.pc = pc /\ q.edit = req[r].edit /\ q.links = req[r].links /\ q.alone = req[r].alone
      /\ req' = [req EXCEPT ![r] = q]
  BY <1>1 DEF Request, Goto
<1> HIDE DEF q
<1>3. Prepared(q)
  BY <1>1, <1>2 DEF Current, Prepared, EditLoaded
<1>4. PosterRead(q, film) /\ GenresRead(q, film)
  BY <1>2 DEF PosterRead, GenresRead, Loaded, EditLoaded
<1>5. AloneFits(q, film)
  BY <1>2 DEF AloneFits
<1>6. Writes(q) = Writes(req[r])
  BY <1>2 DEF Writes
<1> QED BY <1>2, <1>3, <1>4, <1>5, <1>6, LocalCurrent DEF Current

LEMMA DetailsStep ==
  ASSUME DetailsInv, [Next]_vars
  PROVE  DetailsInv'
<1>1. TitlesInv'
  BY TitlesStep DEF DetailsInv
<1> SUFFICES AllCurrent' /\ OneWriter' /\ Uninterrupted' /\ PaletteIsOfPoster'
  BY <1>1 DEF DetailsInv
<1>2. CASE UNCHANGED vars
  <2>1. film' = film /\ req' = req /\ crossed' = crossed
    BY <1>2 DEF vars
  <2>2. AllCurrent'
    BY <2>1 DEF DetailsInv, AllCurrent, Current, PosterRead, GenresRead
  <2> QED BY <2>1, <2>2 DEF DetailsInv, OneWriter, Uninterrupted, PaletteIsOfPoster
<1>3. ASSUME NEW e \in Edits, NEW palette \in Posters \cup {None}, CreateFilm(e, palette)
      PROVE  AllCurrent' /\ OneWriter' /\ Uninterrupted' /\ PaletteIsOfPoster'
  BY <1>3, CreateCurrent
<1> SUFFICES ASSUME NEW r \in Requests,
                    EditStep(r) \/ ReadStep(r) \/ CheckStep(r) \/ DeleteStep(r)
                      \/ BackfillStep(r) \/ Abort(r)
             PROVE  AllCurrent' /\ OneWriter' /\ Uninterrupted' /\ PaletteIsOfPoster'
  BY <1>2, <1>3 DEF Next
<1>4. req[r] \in Request /\ Current(req[r], film)
  BY DEF DetailsInv, TitlesInv, TypeOK, AllCurrent
<1>5. ASSUME NEW pc \in {"load", "check", "delete_find", "pick"},
             NEW q \in {[Idle EXCEPT !.pc = pc], [Idle EXCEPT !.pc = pc, !.all = TRUE],
                        [Idle EXCEPT !.pc = pc, !.all = FALSE]},
             Start(r, q)
      PROVE  AllCurrent' /\ OneWriter' /\ Uninterrupted' /\ PaletteIsOfPoster'
  <2> DEFINE q1 == [Idle EXCEPT !.pc = pc]
  <2>1. q1 \in Request
    BY IdleUntouched, SuccessTyped, FieldsTyped DEF Pc
  <2>2. q \in Request
    BY <2>1, FieldsTyped
  <2>3. q.pc = pc /\ q.links = NotNamed
    BY DEF Idle
  <2>4. Fresh(q) /\ q.pc # "idle"
    BY <2>3 DEF Fresh, Loaded, EditLoaded
  <2> QED BY <1>5, <2>2, <2>4, StartCurrent
<1>6. CASE EditStep(r)
  BY <1>6, EditCurrent, SealCurrent
<1>7. CASE ReadStep(r)
  <2>1. CASE BeginRead(r)
    BY <1>5, <2>1 DEF BeginRead
  <2>2. CASE Load(r)
    BY <2>2, GotoCurrent, FinishCurrent, RaiseCurrent DEF Load
  <2>3. CASE DetailTitles(r)
    <3> DEFINE q == [req[r] EXCEPT !.pc = "answer", !.shown = film.titles]
    <3>1. /\ req' = [req EXCEPT ![r] = q] /\ film' = film /\ crossed' = crossed
          /\ req[r].pc = "detail"
      BY <2>3 DEF DetailTitles
    <3>2. /\ q.pc = "answer" /\ q.edit = req[r].edit /\ q.links = req[r].links
          /\ q.alone = req[r].alone
      BY <1>4 DEF Request
    <3> HIDE DEF q
    <3>3. Fresh(q)
      BY <1>4, <3>1, <3>2 DEF Current, Prepared, Fresh, Loaded, EditLoaded
    <3>4. Writes(q) = Writes(req[r])
      BY <3>1, <3>2 DEF Writes
    <3> QED BY <3>1, <3>2, <3>3, <3>4, FreshCurrent, LocalCurrent
  <2>4. CASE Answer(r)
    BY <2>4, FinishCurrent DEF Answer
  <2> QED BY <1>7, <2>1, <2>2, <2>3, <2>4 DEF ReadStep
<1>8. CASE CheckStep(r)
  <2>1. CASE BeginCheck(r)
    BY <1>5, <2>1 DEF BeginCheck
  <2>2. CASE Check(r)
    BY <2>2, GotoCurrent, FinishCurrent DEF Check
  <2>3. CASE Summary(r)
    BY <2>3, FinishCurrent, RaiseCurrent DEF Summary
  <2> QED BY <1>8, <2>1, <2>2, <2>3 DEF CheckStep
<1>9. CASE DeleteStep(r)
  <2>1. CASE BeginDelete(r)
    BY <1>5, <2>1 DEF BeginDelete
  <2>2. CASE DeleteFind(r)
    BY <2>2, GotoCurrent, RaiseCurrent DEF DeleteFind
  <2> QED BY <1>9, <2>1, <2>2, DeleteCurrent DEF DeleteStep
<1>10. CASE BackfillStep(r)
  <2>1. CASE BeginBackfill(r)
    BY <1>5, <2>1 DEF BeginBackfill
  <2> QED BY <1>10, <2>1, BackfillCurrent DEF BackfillStep
<1>11. CASE Abort(r)
  BY <1>11, FinishCurrent DEF Abort
<1> QED BY <1>6, <1>7, <1>8, <1>9, <1>10, <1>11

LEMMA DetailsInit ==
  ASSUME Init
  PROVE  DetailsInv
<1>1. \A r \in Requests : req[r] = Idle
  BY DEF Init
<1>2. Fresh(Idle) /\ Writes(Idle) = {} /\ Idle.pc = "idle"
  BY FinishedFresh
<1>3. AllCurrent /\ OneWriter /\ Uninterrupted
  BY <1>1, <1>2, FreshCurrent DEF AllCurrent, OneWriter, Uninterrupted
<1>4. film.palette = None
  BY DEF Init, NoFilm, Migrated
<1> QED BY <1>3, <1>4, TitlesInit DEF DetailsInv, PaletteIsOfPoster

LEMMA DetailsInvariant == Spec => []DetailsInv
<1>1. Init => DetailsInv
  BY DetailsInit
<1>2. DetailsInv /\ [Next]_vars => DetailsInv'
  BY DetailsStep
<1> QED BY <1>1, <1>2, PTL DEF Spec

-----------------------------------------------------------------------------
(* Steps of one request *)

StepOf(r) == EditStep(r) \/ ReadStep(r) \/ CheckStep(r) \/ DeleteStep(r) \/ BackfillStep(r) \/ Abort(r)

\* No step of another request moves one under way.
LEMMA OthersStay ==
  ASSUME TypeOK, NEW s \in Requests, StepOf(s), NEW r \in Others(s), req[r].pc # "idle"
  PROVE  req'[r].pc = req[r].pc
<1>1. r \in Requests /\ r # s /\ req[r] \in Request /\ req \in [Requests -> Request]
  BY DEF Others, TypeOK
<1>2. ASSUME NEW q, req' = [req EXCEPT ![s] = q]
      PROVE  req'[r].pc = req[r].pc
  BY <1>1, <1>2
<1>3. ASSUME NEW q, Start(s, q)
      PROVE  req'[r].pc = req[r].pc
  <2>1. req'[r] = [req[r] EXCEPT !.alone = FALSE]
    BY <1>1, <1>3 DEF Start
  <2> QED BY <1>1, <2>1 DEF Request
<1>4. ASSUME NEW rows, NEW q, Release(s, rows, q)
      PROVE  req'[r].pc = req[r].pc
  BY <1>4, ReleaseFields
<1>5. ASSUME NEW exception, Raise(s, exception)
      PROVE  req'[r].pc = req[r].pc
  BY <1>2, <1>5 DEF Raise, Finish
<1>6. CASE EditStep(s)
  <2>1. CASE BeginEdit(s)
    BY <1>3, <1>5, <2>1 DEF BeginEdit
  <2>2. CASE Find(s) \/ ListTitles(s) \/ Cut(s) \/ FinishCut(s)
    BY <1>1, <1>5, <2>2 DEF Find, ListTitles, Cut, FinishCut, Goto
  <2>3. CASE FetchPalette(s)
    BY <1>1, <2>3 DEF FetchPalette, Goto
  <2>4. CASE ReadGenres(s) \/ Relabel(s)
    BY <1>1, <1>5, <2>4 DEF ReadGenres, Relabel
  <2>5. CASE Seal(s)
    BY <1>4, <1>5, <2>5 DEF Seal
  <2> QED BY <1>6, <2>1, <2>2, <2>3, <2>4, <2>5 DEF EditStep
<1>7. CASE ReadStep(s)
  BY <1>1, <1>3, <1>5, <1>7
  DEF ReadStep, BeginRead, Load, DetailTitles, Answer, Goto, Finish
<1>8. CASE CheckStep(s)
  BY <1>1, <1>3, <1>5, <1>8 DEF CheckStep, BeginCheck, Check, Summary, Goto, Finish
<1>9. CASE DeleteStep(s)
  BY <1>1, <1>3, <1>4, <1>5, <1>9 DEF DeleteStep, BeginDelete, DeleteFind, Delete, Goto
<1>10. CASE BackfillStep(s)
  <2>1. CASE BeginBackfill(s)
    BY <1>3, <2>1 DEF BeginBackfill
  <2>2. CASE Pick(s) \/ Derive(s)
    BY <1>1, <2>2 DEF Pick, Derive, Finish
  <2>3. CASE StorePalette(s)
    BY <1>1, <1>5, <2>3 DEF StorePalette, Finish
  <2> QED BY <1>10, <2>1, <2>2, <2>3 DEF BackfillStep
<1>11. CASE Abort(s)
  BY <1>2, <1>11 DEF Abort, Finish
<1> QED BY <1>6, <1>7, <1>8, <1>9, <1>10, <1>11 DEF StepOf

LEMMA StepsOfRequests ==
  ASSUME TypeOK, [Next]_vars, NEW r \in Requests, req[r].pc # "idle", req'[r].pc # req[r].pc
  PROVE  StepOf(r)
<1>1. ~UNCHANGED vars
  BY DEF vars
<1>2. \A e \in Edits : \A palette \in Posters \cup {None} : ~CreateFilm(e, palette)
  BY DEF CreateFilm
<1>3. PICK s \in Requests : StepOf(s)
  BY <1>1, <1>2 DEF Next, StepOf
<1>4. s = r
  BY <1>3, OthersStay DEF Others
<1> QED BY <1>3, <1>4

LEMMA Codes500 ==
  /\ \A exception \in {"FilmNotFoundError", "DuplicateFilmError", "InvalidGenreNameError",
                       "RequestValidationError"} : Handled(exception).code # "INTERNAL_ERROR"
  /\ Success.code # "INTERNAL_ERROR" /\ Lost.code # "INTERNAL_ERROR"
<1>1. Success.code # "INTERNAL_ERROR" /\ Lost.code # "INTERNAL_ERROR"
  BY DEF Success, Lost, envelope
<1>2. DOMAIN AppErrors = {"FilmNotFoundError", "DuplicateFilmError", "InvalidGenreNameError"}
  BY DEF AppErrors
<1>3. /\ AppErrors["FilmNotFoundError"].code = "NOT_FOUND"
      /\ AppErrors["DuplicateFilmError"].code = "DUPLICATE_FILM"
      /\ AppErrors["InvalidGenreNameError"].code = "VALIDATION_ERROR"
  BY DEF AppErrors, envelope
<1>4. \A exception \in {"FilmNotFoundError", "DuplicateFilmError", "InvalidGenreNameError"} :
        Handled(exception) = AppErrors[exception]
  BY <1>2 DEF Handled
<1>5. Handled("RequestValidationError").code = "VALIDATION_ERROR"
  BY <1>2 DEF Handled, envelope
<1> QED BY <1>1, <1>3, <1>4, <1>5

\* The flush of a request nothing overlaps goes through: the film is there, and the titles
\* it replaces have all been cut.
LEMMA AloneFlushes ==
  ASSUME DetailsInv, NEW r \in Requests, req[r].pc \in {"genres", "seal"}, req[r].alone,
         NEW columns
  PROVE  ~FlushFails(r, columns)
<1>1. AloneFits(req[r], film)
  BY DEF DetailsInv, AllCurrent, Current
<1>2. film.live
  BY <1>1 DEF AloneFits, Loaded, EditLoaded
<1>3. UniqueFlags(r)
  <2>1. CASE req[r].edit.titles = NotNamed
    <3>1. NewTitles(r) = {}
      BY <2>1 DEF NewTitles, FlushedTitles
    <3> QED BY <3>1 DEF UniqueFlags, Primaries, Originals
  <2>2. CASE req[r].edit.titles # NotNamed
    <3>1. film.titles \ req[r].cut = {}
      BY <1>1, <2>2 DEF AloneFits
    <3> QED BY <3>1 DEF UniqueFlags, Primaries, Originals
  <2> QED BY <2>1, <2>2
<1> QED BY <1>2, <1>3 DEF FlushFails

LEMMA AloneStep ==
  ASSUME DetailsInv, NEW r \in Requests, StepOf(r), req[r].pc # "idle", req[r].alone,
         req'[r].pc = "idle"
  PROVE  req'[r].answer.code # "INTERNAL_ERROR"
<1>1. /\ req[r] \in Request /\ AloneFits(req[r], film) /\ req \in [Requests -> Request]
      /\ film.live => Primaries(film.titles) # {}
  BY AcceptedHasPrimary
  DEF DetailsInv, TitlesInv, TypeOK, AllCurrent, Current, Whole, OneList
<1>2. ASSUME NEW answer \in {Success, Lost}, Finish(r, answer)
      PROVE  req'[r].answer.code # "INTERNAL_ERROR"
  <2>1. req'[r] = [Idle EXCEPT !.answer = answer]
    BY <1>1, <1>2 DEF Finish
  <2> QED BY <2>1, Codes500 DEF Idle
<1>3. ASSUME NEW exception \in {"FilmNotFoundError", "DuplicateFilmError",
                                "InvalidGenreNameError"},
             Raise(r, exception)
      PROVE  req'[r].answer.code # "INTERNAL_ERROR"
  <2>1. req'[r] = [Idle EXCEPT !.answer = Handled(exception)]
    BY <1>1, <1>3 DEF Raise, Finish
  <2>2. req'[r].answer = Handled(exception)
    BY <2>1 DEF Idle
  <2> QED BY <2>2, Codes500
<1>4. ASSUME NEW q, req' = [req EXCEPT ![r] = q]
      PROVE  q.pc = "idle"
  BY <1>1, <1>4
<1>5. \A pc : Goto(r, pc) => pc = "idle"
  BY <1>1 DEF Goto, Request
<1>6. \A q : Start(r, q) => FALSE
  BY DEF Start
<1>7. req[r].pc \in Loaded \cup {"summary"} => film.live
  BY <1>1 DEF AloneFits
<1>8. CASE EditStep(r)
  <2>1. CASE Find(r)
    BY <1>1, <1>3, <2>1 DEF Find, Request
  <2>2. CASE ListTitles(r)
    BY <1>1, <1>5, <1>7, <2>2 DEF ListTitles, Loaded, EditLoaded
  <2>3. CASE Cut(r) \/ FinishCut(r)
    BY <1>1, <1>5, <2>3 DEF Cut, FinishCut, Request
  <2>4. CASE FetchPalette(r)
    BY <1>1, <1>5, <2>4 DEF FetchPalette, Request
  <2>5. CASE ReadGenres(r)
    <3>1. ~FlushFails(r, req[r].new # req[r].seen)
      BY <2>5, AloneFlushes DEF ReadGenres
    <3> QED BY <1>1, <2>5, <3>1 DEF ReadGenres, Request
  <2>6. CASE Relabel(r)
    BY <1>1, <1>3, <1>7, <2>6 DEF Relabel, Request, Loaded, EditLoaded
  <2>7. CASE Seal(r)
    <3> DEFINE q == [Idle EXCEPT !.pc = "detail", !.alone = req[r].alone]
    <3>1. ~FlushFails(r, TRUE)
      BY <2>7, AloneFlushes DEF Seal
    <3>2. Release(r, req[r].cut, q)
      BY <2>7, <3>1 DEF Seal
    <3>3. req'[r] = q /\ q.pc = "detail"
      BY <3>2, ReleaseFields DEF DetailsInv, TitlesInv, Idle
    <3> QED BY <3>3
  <2>8. ~BeginEdit(r)
    BY DEF BeginEdit, Start
  <2> QED BY <1>8, <2>1, <2>2, <2>3, <2>4, <2>5, <2>6, <2>7, <2>8 DEF EditStep
<1>9. CASE ReadStep(r)
  <2>1. CASE Load(r)
    BY <1>2, <1>3, <1>5, <2>1 DEF Load
  <2>2. CASE DetailTitles(r)
    BY <1>1, <2>2 DEF DetailTitles, Request
  <2>3. CASE Answer(r)
    BY <1>2, <2>3 DEF Answer
  <2> QED BY <1>6, <1>9, <2>1, <2>2, <2>3 DEF ReadStep, BeginRead
<1>10. CASE CheckStep(r)
  <2>1. CASE Check(r)
    BY <1>2, <1>5, <2>1 DEF Check
  <2>2. CASE Summary(r)
    BY <1>1, <1>2, <1>3, <1>7, <2>2 DEF Summary
  <2> QED BY <1>6, <1>10, <2>1, <2>2 DEF CheckStep, BeginCheck
<1>11. CASE DeleteStep(r)
  <2>1. CASE DeleteFind(r)
    BY <1>3, <1>5, <2>1 DEF DeleteFind
  <2>2. CASE Delete(r)
    <3>1. req'[r] = [Idle EXCEPT !.answer = Success]
      BY <2>2, ReleaseFields DEF Delete, DetailsInv, TitlesInv
    <3> QED BY <3>1, Codes500 DEF Idle
  <2> QED BY <1>6, <1>11, <2>1, <2>2 DEF DeleteStep, BeginDelete
<1>12. CASE BackfillStep(r)
  <2>1. CASE Pick(r)
    BY <1>1, <1>2, <2>1 DEF Pick, Request
  <2>2. CASE Derive(r)
    BY <1>1, <2>2 DEF Derive, Request
  <2>3. CASE StorePalette(r)
    BY <1>2, <1>7, <2>3 DEF StorePalette, Loaded
  <2> QED BY <1>6, <1>12, <2>1, <2>2, <2>3 DEF BackfillStep, BeginBackfill
<1>13. CASE Abort(r)
  BY <1>2, <1>13 DEF Abort
<1> QED BY <1>8, <1>9, <1>10, <1>11, <1>12, <1>13 DEF StepOf

-----------------------------------------------------------------------------
(* The positions of names *)

Mentioned(names) == {names[i] : i \in DOMAIN names}
Kept(names, g) == {names[i] : i \in Before(names, g)}

LEMMA KeptFinite ==
  ASSUME NEW S, NEW names \in Seq(S), NEW g
  PROVE  /\ IsFiniteSet(Mentioned(names)) /\ IsFiniteSet(Kept(names, g))
         /\ Kept(names, g) \subseteq Mentioned(names) \ {g}
         /\ KeptPosition(names, g) = Cardinality(Kept(names, g))
         /\ KeptPosition(names, g) \in Nat
<1>1. DOMAIN names = 1..Len(names) /\ Len(names) \in Nat
  OBVIOUS
<1>2. IsFiniteSet(Mentioned(names))
  <2> DEFINE f == [i \in DOMAIN names |-> names[i]]
  <2>1. f \in Surjection(DOMAIN names, Mentioned(names))
    BY DEF Surjection, Mentioned
  <2>2. IsFiniteSet(DOMAIN names)
    BY <1>1, FS_Interval
  <2> HIDE DEF f
  <2> QED BY <2>1, <2>2, FS_Surjection
<1>3. Kept(names, g) \subseteq Mentioned(names) \ {g}
  <2> SUFFICES ASSUME NEW i \in Before(names, g)
               PROVE  names[i] \in Mentioned(names) /\ names[i] # g
    BY DEF Kept
  <2>1. i \in DOMAIN names /\ i \in 1..i /\ \A j \in 1..i : names[j] # g
    BY <1>1 DEF Before
  <2> QED BY <2>1 DEF Mentioned
<1>4. IsFiniteSet(Kept(names, g))
  BY <1>2, <1>3, FS_Subset
<1>5. KeptPosition(names, g) = Cardinality(Kept(names, g))
  BY DEF KeptPosition, Kept
<1> QED BY <1>2, <1>3, <1>4, <1>5, FS_CardinalityType

\* A name is numbered below every name that is first mentioned after it.
LEMMA FirstMentionFirst ==
  ASSUME NEW S, NEW names \in Seq(S), NEW i \in DOMAIN names, NEW h,
         \A k \in 1..i : names[k] # h
  PROVE  KeptPosition(names, names[i]) < KeptPosition(names, h)
<1>0. DOMAIN names = 1..Len(names) /\ Len(names) \in Nat
  OBVIOUS
<1> DEFINE g == names[i]
           K == Kept(names, g)
           L == Kept(names, h)
<1>1. i \in Before(names, h)
  BY DEF Before
<1>2. \A j \in Before(names, g) : j \in Before(names, h)
  <2> SUFFICES ASSUME NEW j \in Before(names, g)
               PROVE  j \in Before(names, h)
    OBVIOUS
  <2>1. j \in 1..Len(names) /\ \A k \in 1..j : names[k] # g
    BY <1>0 DEF Before
  <2>2. j < i
    BY <1>0, <2>1
  <2> QED BY <1>0, <2>1, <2>2 DEF Before
<1>3. K \cup {g} \subseteq L
  BY <1>1, <1>2 DEF Kept
<1>4. /\ IsFiniteSet(K) /\ IsFiniteSet(L) /\ g \notin K
      /\ KeptPosition(names, g) = Cardinality(K) /\ KeptPosition(names, h) = Cardinality(L)
  BY KeptFinite
<1> HIDE DEF g, K, L
<1>5. Cardinality(K \cup {g}) = Cardinality(K) + 1 /\ Cardinality(K \cup {g}) <= Cardinality(L)
  BY <1>3, <1>4, FS_AddElement, FS_Subset
<1>6. Cardinality(K) \in Nat /\ Cardinality(L) \in Nat
  BY <1>4, FS_CardinalityType
<1>7. Cardinality(K) < Cardinality(L)
  BY <1>5, <1>6
<1> QED BY <1>4, <1>7 DEF g

LEMMA PositionsInOrder ==
  ASSUME NEW names \in Seq(Genres)
  PROVE  NumberedInOrder(Positions(names), names)
<1>0. DOMAIN names = 1..Len(names) /\ Len(names) \in Nat
  OBVIOUS
<1> DEFINE position == Positions(names)
           M == Mentioned(names)
           n == Cardinality(M)
<1>1. M \subseteq Genres /\ IsFiniteSet(M) /\ n \in Nat
  <2>1. M \subseteq Genres
    BY <1>0 DEF Mentioned
  <2>2. IsFiniteSet(M)
    BY KeptFinite
  <2> HIDE DEF M
  <2> QED BY <2>1, <2>2, FS_CardinalityType
<1>2. \A g \in Genres :
        position[g] = IF g \in M THEN KeptPosition(names, g) ELSE Unlinked
  BY DEF Positions, Mentioned
<1>3. \A g : KeptPosition(names, g) \in Nat
  BY KeptFinite
<1>4. {g \in Genres : position[g] # Unlinked} = M
  BY <1>1, <1>2, <1>3 DEF Unlinked
<1>5. \A g \in M : position[g] = KeptPosition(names, g)
  BY <1>1, <1>2
<1> HIDE DEF position
<1>6. ASSUME NEW i \in DOMAIN names, NEW j \in DOMAIN names,
             names[j] \notin {names[k] : k \in 1..i}
      PROVE  position[names[i]] < position[names[j]]
  <2>1. KeptPosition(names, names[i]) < KeptPosition(names, names[j])
    BY <1>6, FirstMentionFirst
  <2> QED BY <1>5, <2>1 DEF Mentioned
<1>7. \A g \in M : position[g] \in 0..(n - 1)
  <2> SUFFICES ASSUME NEW g \in M
               PROVE  KeptPosition(names, g) \in 0..(n - 1)
    BY <1>5
  <2> DEFINE K == Kept(names, g)
  <2>1. /\ IsFiniteSet(K) /\ K \subseteq M \ {g}
        /\ KeptPosition(names, g) = Cardinality(K) /\ KeptPosition(names, g) \in Nat
    BY KeptFinite
  <2> HIDE DEF K, M
  <2>2. Cardinality(K \cup {g}) = Cardinality(K) + 1
    BY <2>1, FS_AddElement
  <2>3. K \cup {g} \subseteq M
    BY <2>1
  <2>4. Cardinality(K \cup {g}) <= n
    BY <1>1, <2>3, FS_Subset
  <2> QED BY <1>1, <2>1, <2>2, <2>4
<1>8. \A g, h \in M : position[g] = position[h] => g = h
  <2> SUFFICES ASSUME NEW i \in DOMAIN names, NEW j \in DOMAIN names, names[i] # names[j]
               PROVE  position[names[i]] # position[names[j]]
    BY DEF Mentioned
  \* whichever of the two is mentioned first
  <2>1. \A k \in M : position[k] \in Nat
    BY <1>3, <1>5
  <2>2. position[names[i]] \in Nat /\ position[names[j]] \in Nat
    BY <2>1 DEF Mentioned
  <2>3. CASE \E k \in 1..Len(names) : names[k] = names[i] /\ \A l \in 1..k : names[l] # names[j]
    <3>1. PICK k \in 1..Len(names) : names[k] = names[i] /\ \A l \in 1..k : names[l] # names[j]
      BY <2>3
    <3>2. position[names[k]] < position[names[j]]
      BY <1>0, <1>6, <3>1
    <3> QED BY <2>2, <3>1, <3>2
  <2>4. CASE \E k \in 1..Len(names) : names[k] = names[j] /\ \A l \in 1..k : names[l] # names[i]
    <3>1. PICK k \in 1..Len(names) : names[k] = names[j] /\ \A l \in 1..k : names[l] # names[i]
      BY <2>4
    <3>2. position[names[k]] < position[names[i]]
      BY <1>0, <1>6, <3>1
    <3> QED BY <2>2, <3>1, <3>2
  <2>5. \/ \E k \in 1..Len(names) : names[k] = names[i] /\ \A l \in 1..k : names[l] # names[j]
        \/ \E k \in 1..Len(names) : names[k] = names[j] /\ \A l \in 1..k : names[l] # names[i]
    <3> DEFINE Both == {k \in Nat : k \in 1..Len(names) /\ names[k] \in {names[i], names[j]}}
    <3>1. PICK k \in Both : \A l \in Both : k <= l
      <4>1. Both # {} /\ Both \subseteq Nat
        BY <1>0
      <4> HIDE DEF Both
      <4>2. PICK k \in Both : \A l \in Both : <<l, k>> \notin OpToRel(<, Nat)
        BY <4>1, NatLessThanWellFounded, WFMin
      <4>3. \A l \in Both : ~(l < k)
        BY <4>1, <4>2 DEF OpToRel
      <4> QED BY <4>1, <4>3
    <3>2. \A l \in 1..k : l # k => names[l] \notin {names[i], names[j]}
      BY <1>0, <3>1
    <3> QED BY <3>1, <3>2
  <2> QED BY <2>3, <2>4, <2>5
<1>9. {position[g] : g \in M} = 0..(n - 1)
  <2> DEFINE f == [g \in M |-> position[g]]
             I == 0..(n - 1)
  <2>1. f \in Injection(M, I)
    <3>1. f \in [M -> I]
      BY <1>7
    <3>2. \A g, h \in M : f[g] = f[h] => g = h
      BY <1>8
    <3> HIDE DEF f, I, M
    <3> QED BY <3>1, <3>2 DEF Injection, IsInjective
  <2>2. IsFiniteSet(I) /\ Cardinality(I) = n
    <3>1. n - 1 \in Int /\ (IF 0 > n - 1 THEN 0 ELSE (n - 1) - 0 + 1) = n
      BY <1>1
    <3> HIDE DEF n
    <3> QED BY <3>1, FS_Interval
  <2>3. f \in Surjection(M, I)
    <3> HIDE DEF f, I, M
    <3> QED BY <1>1, <2>1, <2>2, FS_Injection
  <2> QED BY <1>7, <2>3 DEF Surjection
<1>10. NumberedInOrder(position, names)
  BY <1>4, <1>6, <1>9 DEF NumberedInOrder, Mentioned
<1> QED BY <1>10 DEF position

-----------------------------------------------------------------------------
(* An edit as a whole *)

\* What r's edit makes of the film's rows, in the words of EditIsWholeOrNothing.
Applied(r, e) ==
    /\ film'.titles = IF e.titles = NotNamed THEN film.titles ELSE TitleRowsOf(e)
    /\ IF e.genre = NotNamed THEN film'.position = film.position
       ELSE "genre" \notin crossed => NumberedInOrder(film'.position, e.genre)
    /\ IF e.poster_image = NotNamed
         THEN <<film'.poster, film'.palette>> = <<film.poster, film.palette>>
         ELSE "poster" \notin crossed => film'.poster = e.poster_image

LEMMA SealApplies ==
  ASSUME DetailsInv, NEW r \in Requests, req[r].pc = "seal", ~FlushFails(r, TRUE),
         film' = Sealed(r)
  PROVE  Applied(r, req[r].edit)
<1> DEFINE e == req[r].edit
<1>1. /\ film.live /\ Underway(req[r]) /\ Fits(req[r], film) /\ Current(req[r], film)
      /\ TitlesInv /\ e \in Edits
  BY DEF FlushFails, DetailsInv, TitlesInv, AllFit, AllCurrent, Underway
<1>2. film'.titles = IF e.titles = NotNamed THEN film.titles ELSE TitleRowsOf(e)
  <2>1. film'.titles = (film.titles \ req[r].cut) \cup FlushedTitles(r)
    BY DEF Sealed
  <2>2. CASE e.titles = NotNamed
    <3>1. req[r].cut = {} /\ FlushedTitles(r) = {}
      BY <1>1, <2>2 DEF Fits, FlushedTitles
    <3> QED BY <2>1, <2>2, <3>1
  <2>3. CASE e.titles # NotNamed
    <3>1. /\ FlushedTitles(r) = TitleRowsOf(e) /\ FlushedTitles(r) # {}
          /\ req[r].cut = film.titles
      <4>1. CASE NewTitles(r) # {}
        <5>1. UniqueFlags(r)
          BY <4>1 DEF FlushFails
        <5> QED BY <1>1, <2>3, <5>1, FlushReplacesAll
      <4>2. CASE NewTitles(r) = {}
        <5>1. UniqueFlags(r)
          BY <4>2 DEF UniqueFlags, Primaries, Originals
        <5> QED BY <1>1, <2>3, <5>1, FlushReplacesAll
      <4> QED BY <4>1, <4>2
    <3> QED BY <2>1, <2>3, <3>1
  <2> QED BY <2>2, <2>3
<1>3. IF e.genre = NotNamed THEN film'.position = film.position
      ELSE "genre" \notin crossed => NumberedInOrder(film'.position, e.genre)
  <2>1. e.genre = NotNamed => film'.position = film.position
    BY <1>1, SealedFilm
  <2>2. ASSUME e.genre # NotNamed, "genre" \notin crossed
        PROVE  NumberedInOrder(film'.position, e.genre)
    <3>1. film'.position = Positions(e.genre)
      BY <1>1, <2>2, SealedFilm
    <3>2. e.genre \in Seq(Genres \cup {Blank}) /\ Blank \notin {e.genre[i] : i \in DOMAIN e.genre}
      BY <1>1, <2>2, DetailsAssumption DEF Current, Prepared, NamesValid, Edit
    <3> DEFINE names == e.genre
    <3>3. names \in Seq(Genres)
      <4>1. \A i \in 1..Len(names) : names[i] \in Genres
        BY <3>2
      <4> QED BY <3>2, <4>1
    <3> QED BY <3>1, <3>3, PositionsInOrder
  <2> QED BY <2>1, <2>2
<1>4. IF e.poster_image = NotNamed
        THEN <<film'.poster, film'.palette>> = <<film.poster, film.palette>>
        ELSE "poster" \notin crossed => film'.poster = e.poster_image
  BY <1>1, SealedFilm DEF PosterOf
<1> QED BY <1>2, <1>3, <1>4 DEF Applied

\* Whatever else ends one of the statements of an edit writes nothing.
LEMMA EditWrites ==
  ASSUME DetailsInv, NEW r \in Requests, StepOf(r), req[r].pc \in {"seal", "relabel", "genres"}
  PROVE  IF req'[r].pc = "detail" THEN Applied(r, req[r].edit) ELSE film' = film
<1>1. req[r] \in Request /\ req \in [Requests -> Request]
  BY DEF DetailsInv, TitlesInv, TypeOK
<1>2. ASSUME NEW answer, Finish(r, answer)
      PROVE  req'[r].pc # "detail"
  <2>1. req'[r] = [Idle EXCEPT !.answer = answer]
    BY <1>1, <1>2 DEF Finish
  <2> QED BY <2>1 DEF Idle
<1>3. ASSUME NEW exception, Raise(r, exception)
      PROVE  film' = film /\ req'[r].pc # "detail"
  BY <1>2, <1>3 DEF Raise, RolledBack
<1>4. CASE ReadGenres(r)
  <2>1. ASSUME ~Raise(r, "IntegrityError")
        PROVE  film' = film /\ req'[r].pc = "relabel"
    BY <1>1, <1>4, <2>1 DEF ReadGenres, Request
  <2> QED BY <1>3, <2>1
<1>5. CASE Relabel(r)
  <2>1. ASSUME NamesValid(req[r].edit.genre), film.live
        PROVE  film' = film /\ req'[r].pc = "seal"
    BY <1>1, <1>5, <2>1 DEF Relabel, Request
  <2>2. Raise(r, "InvalidGenreNameError") \/ Raise(r, "IntegrityError")
        \/ (NamesValid(req[r].edit.genre) /\ film.live)
    BY <1>5 DEF Relabel
  <2> QED BY <1>3, <2>1, <2>2
<1>6. CASE Seal(r)
  <2>1. CASE FlushFails(r, TRUE)
    BY <1>3, <1>6, <2>1 DEF Seal
  <2>2. CASE ~FlushFails(r, TRUE)
    <3> DEFINE q == [Idle EXCEPT !.pc = "detail", !.alone = req[r].alone]
    <3>1. req[r].pc = "seal" /\ film' = Sealed(r) /\ Release(r, req[r].cut, q)
      BY <1>6, <2>2 DEF Seal
    <3>2. req'[r] = q /\ q.pc = "detail"
      BY <3>1, ReleaseFields DEF DetailsInv, TitlesInv, Idle
    <3> QED BY <2>2, <3>1, <3>2, SealApplies
  <2> QED BY <2>1, <2>2
<1>7. CASE Abort(r)
  BY <1>2, <1>7 DEF Abort
<1>8. ReadGenres(r) \/ Relabel(r) \/ Seal(r) \/ Abort(r)
  <2>1. /\ ~BeginEdit(r) /\ ~Find(r) /\ ~ListTitles(r) /\ ~Cut(r) /\ ~FinishCut(r)
        /\ ~FetchPalette(r)
    BY DEF BeginEdit, Start, Find, ListTitles, Cut, FinishCut, FetchPalette
  <2>2. ~ReadStep(r)
    BY DEF ReadStep, BeginRead, Start, Load, DetailTitles, Answer
  <2>3. ~CheckStep(r)
    BY DEF CheckStep, BeginCheck, Start, Check, Summary
  <2>4. ~DeleteStep(r)
    BY DEF DeleteStep, BeginDelete, Start, DeleteFind, Delete
  <2>5. ~BackfillStep(r)
    BY DEF BackfillStep, BeginBackfill, Start, Pick, Derive, StorePalette
  <2> QED BY <2>1, <2>2, <2>3, <2>4, <2>5 DEF StepOf, EditStep
<1> QED BY <1>4, <1>5, <1>6, <1>7, <1>8

-----------------------------------------------------------------------------
(* Theorems *)

\* The rows of a film and the local variables of the requests have their types, whatever
\* payloads, posters and genres there are and however many requests overlap.
THEOREM DetailsTyped == Spec => []TypeOK
<1>1. TitlesInv => TypeOK
  BY DEF TitlesInv
<1> QED BY <1>1, TitlesInvariant, PTL

\* REQ 4.1: a film's titles, and the titles a request answers, are those of one accepted
\* list.  The unique indexes let new titles in only beside none of the old ones, so an edit
\* commits its list when it has cut every title the film had, and whoever waits for those
\* titles finds them gone and fails: update_film never merges two lists.
THEOREM TitlesNeverMix == Spec => []TitlesAreOneList
<1>1. TitlesInv => TitlesAreOneList
  BY DEF TitlesInv, AllFit, Fits, Whole, TitlesAreOneList
<1> QED BY <1>1, TitlesInvariant, PTL

\* A palette is that of the film's poster, or none: the only writer of the poster has read
\* the poster the film still has, and changes poster and palette together, or the palette to
\* that poster's.
THEOREM PaletteFollowsPoster == Spec => []PaletteIsOfPoster
<1>1. DetailsInv => PaletteIsOfPoster
  BY DEF DetailsInv
<1> QED BY <1>1, DetailsInvariant, PTL

\* FR-LIB-06, NFR-INT-02: update_film is applied whole, with every field the payload names
\* and no other, or not at all, and a genre's position is its place among the names the
\* payload mentions, counted once each.
THEOREM EditsAreWhole == Spec => EditIsWholeOrNothing
<1>1. DetailsInv /\ [Next]_vars =>
        [\A r \in Requests :
           LET e == req[r].edit
               changed == req[r].pc \in {"seal", "relabel", "genres"} /\ req'[r].pc # req[r].pc
               sealed == req'[r].pc = "detail"
           IN  changed => IF ~sealed THEN film' = film
                          ELSE /\ film'.titles
                                    = IF e.titles = NotNamed THEN film.titles ELSE TitleRowsOf(e)
                               /\ IF e.genre = NotNamed THEN film'.position = film.position
                                  ELSE "genre" \notin crossed => NumberedInOrder(film'.position, e.genre)
                               /\ IF e.poster_image = NotNamed
                                    THEN <<film'.poster, film'.palette>> = <<film.poster, film.palette>>
                                    ELSE "poster" \notin crossed => film'.poster = e.poster_image]_vars
  <2> SUFFICES ASSUME DetailsInv, [Next]_vars, NEW r \in Requests,
                      req[r].pc \in {"seal", "relabel", "genres"}, req'[r].pc # req[r].pc
               PROVE  IF req'[r].pc = "detail" THEN Applied(r, req[r].edit) ELSE film' = film
    BY DEF Applied
  <2>1. StepOf(r)
    BY StepsOfRequests DEF DetailsInv, TitlesInv
  <2> QED BY <2>1, EditWrites
<1> QED BY <1>1, DetailsInvariant, PTL DEF Spec, EditIsWholeOrNothing

\* A request that nothing overlaps finds the film it looked up and the titles it cut, so
\* neither next() over no titles, nor a unique index, nor a row gone ends it with a 500.
THEOREM AloneAlwaysAnswers == Spec => AloneNeverFails
<1>1. DetailsInv /\ [Next]_vars =>
        [\A r \in Requests : req[r].pc # "idle" /\ req[r].alone /\ req'[r].pc = "idle"
           => req'[r].answer.code # "INTERNAL_ERROR"]_vars
  BY StepsOfRequests, AloneStep DEF DetailsInv, TitlesInv
<1> QED BY <1>1, DetailsInvariant, PTL DEF Spec, AloneNeverFails
=============================================================================

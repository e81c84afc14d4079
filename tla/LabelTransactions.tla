------------------------- MODULE LabelTransactions --------------------------
(***************************************************************************)
(* The shared labels of the library: tables tags and film_tags, and genres *)
(* and film_genres, which are handled by the same code under two names     *)
(* (a genre link also carries a position, which no decision here reads).   *)
(* A label row is shared by all films that carry the label; films link and *)
(* unlink it, get_or_create makes it on first use, and delete_orphans      *)
(* sweeps every label no film links to.                                    *)
(*                                                                         *)
(* The transactions of the film flows interleave statement by statement    *)
(* under READ COMMITTED, and here what a transaction has written matters   *)
(* before it commits: others wait on its row locks, and it reads its own   *)
(* writes.  A row therefore names the transaction that inserted it, while  *)
(* that is in flight (by), and the one that has deleted it (cut).  The     *)
(* locks are guards on those two fields:                                   *)
(*   - inserting a link takes a KEY SHARE lock on its label and its film   *)
(*     (the foreign keys), so it waits for a transaction that has deleted  *)
(*     either, and deleting either waits for the inserter of the link;     *)
(*   - inserting a label waits for the inserter of the same lower(name).   *)
(* A DELETE picks its rows when it starts; one that has waited for a lock  *)
(* that did not change the row deletes it all the same.                    *)
(*                                                                         *)
(* A label is its folded name: service validation and lower() are done.    *)
(***************************************************************************)
EXTENDS Naturals, FiniteSets

CONSTANTS
    Requests,   \* the threads of the pool
    Films,
    LabelIds,
    Names,
    None,       \* no transaction: a row nobody in flight has inserted, or deleted
    NoRow,
    NoLabel

VARIABLES
    films,   \* films[f]: a row or NoRow
    labels,  \* labels[l]: a row or NoRow
    links,   \* links[<<f, l>>]: a row or NoRow
    req,     \* the handlers' local variables
    crossed  \* history: two requests have been in flight together, not both creating a film

vars == <<films, labels, links, req, crossed>>

-----------------------------------------------------------------------------
(* Types *)

Txn == Requests \cup {None}
Row == [by : Txn, cut : Txn]
LabelRow == [name : Names, by : Txn, cut : Txn]

Pc == {"idle", "create", "list", "unlink", "assign", "link", "sweep", "reap", "save",
       "delete_find", "delete", "commit"}

Request == [pc     : Pc,
            film   : Films \cup {NoRow},
            wish   : SUBSET Names,            \* the labels of the payload, deduplicated
            todo   : SUBSET Names,            \* those still to assign
            picked : LabelIds \cup {NoLabel}, \* the label get_or_create returned
            doomed : SUBSET LabelIds]         \* rows the running DELETE has picked

Idle == [pc |-> "idle", film |-> NoRow, wish |-> {}, todo |-> {}, picked |-> NoLabel,
         doomed |-> {}]

ASSUME RowAssumption ==
    /\ None \notin Requests
    /\ NoRow \notin Row \cup LabelRow \cup Films
    /\ NoLabel \notin LabelIds

TypeOK ==
    /\ films \in [Films -> Row \cup {NoRow}]
    /\ labels \in [LabelIds -> LabelRow \cup {NoRow}]
    /\ links \in [Films \X LabelIds -> Row \cup {NoRow}]
    /\ req \in [Requests -> Request]
    /\ crossed \in BOOLEAN

-----------------------------------------------------------------------------
(* Visibility and locks *)

\* Request r sees a committed row and its own insertions, but nothing it has deleted.
Sees(r, row) == row # NoRow /\ row.by \in {None, r} /\ row.cut # r

Committed(row) == row # NoRow /\ row.by = None

\* Another transaction in flight has inserted, or has deleted, the row.
InsertedByOther(r, row) == row # NoRow /\ row.by \notin {None, r}
DeletedByOther(r, row) == row # NoRow /\ row.cut \notin {None, r}

LabelsSeen(r) == {l \in LabelIds : Sees(r, labels[l])}
LinksSeen(r, f) == {l \in LabelIds : Sees(r, links[<<f, l>>])}

\* The links of label l, and of film f, that others have inserted hold a KEY SHARE lock.
LabelShared(r, l) == \E f \in Films : InsertedByOther(r, links[<<f, l>>])
FilmShared(r, f) == \E l \in LabelIds : InsertedByOther(r, links[<<f, l>>])

\* DELETE of one row: an own insertion disappears, any other row waits for the commit.
Cut(r, row) == IF row = NoRow THEN NoRow ELSE IF row.by = r THEN NoRow ELSE [row EXCEPT !.cut = r]

-----------------------------------------------------------------------------

Init ==
    /\ films = [f \in Films |-> NoRow]
    /\ labels = [l \in LabelIds |-> NoRow]
    /\ links = [fl \in Films \X LabelIds |-> NoRow]
    /\ req = [r \in Requests |-> Idle]
    /\ crossed = FALSE

Goto(r, pc) == req' = [req EXCEPT ![r].pc = pc]
Finish(r) == req' = [req EXCEPT ![r] = Idle]

-----------------------------------------------------------------------------
(* Requests arrive: POST /films, PATCH /films/{id} with labels, DELETE /films/{id} *)

Begin(r) ==
    /\ req[r].pc = "idle"
    /\ \E f \in Films, W \in (SUBSET Names) \ {{}} :
         \/ req' = [req EXCEPT ![r] = [Idle EXCEPT !.pc = "create", !.film = f,
                                                   !.wish = W, !.todo = W]]
         \/ req' = [req EXCEPT ![r] = [Idle EXCEPT !.pc = "list", !.film = f,
                                                   !.wish = W, !.todo = W]]
         \/ req' = [req EXCEPT ![r] = [Idle EXCEPT !.pc = "delete_find", !.film = f]]
    /\ UNCHANGED <<films, labels, links>>

\* create: the film row is staged before its labels; an id in use rejects it.
CreateFilm(r) ==
    /\ req[r].pc = "create"
    /\ films[req[r].film] = NoRow
    /\ films' = [films EXCEPT ![req[r].film] = [by |-> r, cut |-> None]]
    /\ Goto(r, "assign")
    /\ UNCHANGED <<labels, links>>

-----------------------------------------------------------------------------
(* _reassign_tags / _reassign_genres *)

\* The labels list_for_film returns that the payload does not want.
NothingUnwanted(r, f) == {}
UnwantedNames(r, f) == {labels[l].name : l \in LinksSeen(r, f) \cap LabelsSeen(r)} \ req[r].wish
Unwanted(r, f) == {l \in LinksSeen(r, f) \cap LabelsSeen(r) : labels[l].name \notin req[r].wish}

\* update finds the film (or answers 404), and lists its labels to unassign.
ListForFilm(r) ==
    LET f == req[r].film
    IN  /\ req[r].pc = "list"
        /\ req' = IF Sees(r, films[f])
                    THEN [req EXCEPT ![r].pc = "unlink", ![r].doomed = Unwanted(r, f)]
                    ELSE [req EXCEPT ![r] = Idle]
        /\ UNCHANGED <<films, labels, links>>

\* unlink_film, one label after the other; a link that is gone by now is a no-op.
UnlinkFilm(r) ==
    LET f == req[r].film
    IN  /\ req[r].pc = "unlink"
        /\ \/ /\ req[r].doomed = {}
              /\ Goto(r, "assign")
              /\ UNCHANGED links
           \/ \E l \in req[r].doomed :
                /\ ~DeletedByOther(r, links[<<f, l>>])
                /\ req' = [req EXCEPT ![r].doomed = @ \ {l}]
                /\ links' = IF Sees(r, links[<<f, l>>])
                              THEN [links EXCEPT ![<<f, l>>] = Cut(r, @)]
                              ELSE links
        /\ UNCHANGED <<films, labels>>

\* The unique index on lower(name): an insertion waits for the one in flight with that name.
NoUniqueIndex(r, n) == TRUE
NameFree(r, n) == \A l \in LabelIds : InsertedByOther(r, labels[l]) => labels[l].name # n

\* get_or_create: the label of that name, or a new row in a savepoint.  Losing the race
\* waits for the winner and then finds its row.
GetOrCreate(r) ==
    /\ req[r].pc = "assign"
    /\ \E n \in req[r].todo :
         LET found == {l \in LabelsSeen(r) : labels[l].name = n}
         IN  \/ \E l \in found :
                  /\ req' = [req EXCEPT ![r].pc = "link", ![r].picked = l, ![r].todo = @ \ {n}]
                  /\ UNCHANGED labels
             \/ /\ found = {}
                /\ NameFree(r, n)
                /\ \E l \in LabelIds :
                     /\ labels[l] = NoRow
                     /\ \A s \in Requests : req[s].picked # l /\ l \notin req[s].doomed
                     /\ labels' = [labels EXCEPT ![l] = [name |-> n, by |-> r, cut |-> None]]
                     /\ req' = [req EXCEPT ![r].pc = "link", ![r].picked = l,
                                           ![r].todo = @ \ {n}]
    /\ UNCHANGED <<films, links>>

\* The foreign keys of a new link: label and film exist and nobody has deleted them.
UncheckedReference(r, f, l) == TRUE
ReferenceHolds(r, f, l) ==
    /\ Sees(r, labels[l]) /\ ~DeletedByOther(r, labels[l])
    /\ Sees(r, films[f]) /\ ~DeletedByOther(r, films[f])

\* link_film: ON CONFLICT makes a link that is already there a no-op.
LinkFilm(r) ==
    LET f == req[r].film
        l == req[r].picked
    IN  /\ req[r].pc = "link"
        /\ req' = [req EXCEPT ![r].pc = "assign", ![r].picked = NoLabel]
        /\ \/ /\ Sees(r, links[<<f, l>>])
              /\ ~DeletedByOther(r, links[<<f, l>>])
              /\ UNCHANGED links
           \/ /\ links[<<f, l>>] = NoRow
              /\ ReferenceHolds(r, f, l)
              /\ links' = [links EXCEPT ![<<f, l>>] = [by |-> r, cut |-> None]]
        /\ UNCHANGED <<films, labels>>

\* A create commits when its labels are linked; an edit sweeps first.
AllAssigned(r) ==
    /\ req[r].pc = "assign"
    /\ req[r].todo = {}
    /\ Goto(r, IF films[req[r].film] # NoRow /\ films[req[r].film].by = r THEN "commit" ELSE "sweep")
    /\ UNCHANGED <<films, labels, links>>

-----------------------------------------------------------------------------
(* delete_orphans *)

\* The labels without a link, as the DELETE's own snapshot has them.
NoOrphans(r) == {}
CarriedByAtMostOne(r) ==
    {l \in LabelsSeen(r) : Cardinality({f \in Films : Sees(r, links[<<f, l>>])}) <= 1}
Orphans(r) == {l \in LabelsSeen(r) : \A f \in Films : ~Sees(r, links[<<f, l>>])}

Sweep(r) ==
    /\ req[r].pc = "sweep"
    /\ req' = [req EXCEPT ![r].pc = "reap", ![r].doomed = Orphans(r)]
    /\ UNCHANGED <<films, labels, links>>

\* One picked row after the other.  A row another transaction has deleted meanwhile is
\* skipped; a row it has linked to meanwhile is deleted once that transaction is over, and
\* the cascade of the link tables takes the new link with it.
Reap(r) ==
    /\ req[r].pc = "reap"
    /\ \/ /\ req[r].doomed = {}
          /\ Goto(r, "save")
          /\ UNCHANGED <<labels, links>>
       \/ \E l \in req[r].doomed :
            /\ ~DeletedByOther(r, labels[l])
            /\ ~LabelShared(r, l)
            /\ \A f \in Films : ~DeletedByOther(r, links[<<f, l>>])
            /\ labels' = [labels EXCEPT ![l] = Cut(r, @)]
            /\ links' = [fl \in Films \X LabelIds |->
                           IF fl[2] = l THEN Cut(r, links[fl]) ELSE links[fl]]
            /\ req' = [req EXCEPT ![r].doomed = @ \ {l}]
    /\ UNCHANGED films

\* The edit's UPDATE of the film row (updated_at) fails when the row is gone and waits for
\* a transaction that has deleted it.  A deletion has nothing left to write.
Save(r) ==
    /\ req[r].pc = "save"
    /\ req[r].wish # {} => Sees(r, films[req[r].film]) /\ ~DeletedByOther(r, films[req[r].film])
    /\ Goto(r, "commit")
    /\ UNCHANGED <<films, labels, links>>

-----------------------------------------------------------------------------
(* delete *)

FindFilm(r) ==
    /\ req[r].pc = "delete_find"
    /\ IF Sees(r, films[req[r].film]) THEN Goto(r, "delete") ELSE Finish(r)
    /\ UNCHANGED <<films, labels, links>>

\* The film row goes and the cascade takes its links; a row already gone only warns.
DeleteFilm(r) ==
    LET f == req[r].film
    IN  /\ req[r].pc = "delete"
        /\ ~DeletedByOther(r, films[f])
        /\ ~FilmShared(r, f)
        /\ \A l \in LabelIds : ~DeletedByOther(r, links[<<f, l>>])
        /\ IF Sees(r, films[f])
             THEN /\ films' = [films EXCEPT ![f] = Cut(r, @)]
                  /\ links' = [fl \in Films \X LabelIds |->
                                 IF fl[1] = f THEN Cut(r, links[fl]) ELSE links[fl]]
             ELSE UNCHANGED <<films, links>>
        /\ Goto(r, "sweep")
        /\ UNCHANGED labels

-----------------------------------------------------------------------------
(* The end of a transaction *)

\* What a table's rows become when r commits, and when it rolls back.
RowCommitted(r, row) ==
    IF row = NoRow THEN NoRow
    ELSE IF row.cut = r THEN NoRow
    ELSE IF row.by = r THEN [row EXCEPT !.by = None] ELSE row
RowRolledBack(r, row) ==
    IF row = NoRow THEN NoRow
    ELSE IF row.by = r THEN NoRow
    ELSE IF row.cut = r THEN [row EXCEPT !.cut = None] ELSE row

Commit(r) ==
    /\ req[r].pc = "commit"
    /\ films' = [f \in Films |-> RowCommitted(r, films[f])]
    /\ labels' = [l \in LabelIds |-> RowCommitted(r, labels[l])]
    /\ links' = [fl \in Films \X LabelIds |-> RowCommitted(r, links[fl])]
    /\ Finish(r)

\* A constraint, an invalid label name, a deadlock victim, a crash.
Abort(r) ==
    /\ req[r].pc # "idle"
    /\ films' = [f \in Films |-> RowRolledBack(r, films[f])]
    /\ labels' = [l \in LabelIds |-> RowRolledBack(r, labels[l])]
    /\ links' = [fl \in Films \X LabelIds |-> RowRolledBack(r, links[fl])]
    /\ Finish(r)

Creating(r) ==
    \/ req[r].pc = "create"
    \/ \E f \in Films : f = req[r].film /\ films[f] # NoRow /\ films[f].by = r

Crosses(r) ==
    \E s \in Requests \ {r} :
        req[s].pc # "idle" /\ ~(Creating(s) /\ req'[r].pc = "create")

Serve(r) ==
    \/ CreateFilm(r) \/ ListForFilm(r) \/ UnlinkFilm(r) \/ GetOrCreate(r) \/ LinkFilm(r)
    \/ AllAssigned(r) \/ Sweep(r) \/ Reap(r) \/ Save(r) \/ FindFilm(r) \/ DeleteFilm(r)
    \/ Commit(r) \/ Abort(r)

Next ==
    \E r \in Requests :
        \/ Begin(r) /\ crossed' = (crossed \/ Crosses(r))
        \/ Serve(r) /\ UNCHANGED crossed

Spec == Init /\ [][Next]_vars

-----------------------------------------------------------------------------
(* Properties of every interleaving *)

\* FR-TAG-02: one row per label, also while two transactions are creating it.
LabelNamesUnique ==
    \A l, m \in LabelIds :
        labels[l] # NoRow /\ labels[m] # NoRow /\ labels[l].name = labels[m].name => l = m

\* No link outlives its label or its film, whichever of the two is deleted while another
\* transaction is linking them.
LinksHaveBothEnds ==
    \A f \in Films, l \in LabelIds :
        Committed(links[<<f, l>>]) => Committed(films[f]) /\ Committed(labels[l])

-----------------------------------------------------------------------------
(* Properties of requests that do not overlap, or overlap only in creating films *)

\* FR-TAG-04: no label is left without a film.
NoOrphanLabels ==
    ~crossed =>
        \A l \in LabelIds : Committed(labels[l]) => \E f \in Films : Committed(links[<<f, l>>])

\* A film always keeps at least one label: the sweep takes only labels no film carries.
EveryFilmLabelled ==
    \A f \in Films : Committed(films[f]) => \E l \in LabelIds : Committed(links[<<f, l>>])
FilmsKeepLabels == ~crossed => EveryFilmLabelled

\* An edit replaces the film's labels: when it has committed, the film carries the labels
\* of the payload and no other.
EditReplacesLabels ==
    [][\A r \in Requests :
         ~crossed /\ req[r].pc = "commit" /\ req[r].wish # {} /\ req'[r] = Idle
             /\ links' = [fl \in Films \X LabelIds |-> RowCommitted(r, links[fl])]
             => {labels'[l].name : l \in {m \in LabelIds : Committed(links'[<<req[r].film, m>>])}}
                  = req[r].wish]_vars
=============================================================================

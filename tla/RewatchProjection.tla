------------------------- MODULE RewatchProjection --------------------------
(***************************************************************************)
(* The stored due-list (table rewatch_suggestions): reads recompute it     *)
(* when its stamp is not of today, writes of the film service age the      *)
(* stamp in their own transaction (FilmService._commit).  Requests run in  *)
(* threads with a READ COMMITTED transaction each; one action per          *)
(* statement, and per row for the statements that touch many rows, because *)
(* such a statement fixes its rows when it starts and then waits for the   *)
(* row locks one by one.  A row that was deleted while it waited is        *)
(* skipped, and one inserted since is not seen.                            *)
(*                                                                         *)
(* Abstractions: a film is the day it falls due (what the inputs of        *)
(* algorithm.py and its interval add up to, module RewatchAlgorithm), a    *)
(* write is a change of that day.  The order of the list follows the days. *)
(* Films other than by existing do not interact here, so two writers of    *)
(* one film simply take turns.                                             *)
(***************************************************************************)
EXTENDS Integers, FiniteSets

CONSTANTS
    Requests, \* the threads of the pool
    Films,
    LastDay,  \* bound on the clock
    Gone,     \* not in the library
    NoRow     \* not on the due-list

ASSUME DayAssumption ==
    /\ LastDay \in Nat
    /\ Gone \notin Int

VARIABLES
    today,    \* the local date of the backend process
    library,  \* library[f]: the day film f falls due, or Gone
    rows,     \* table rewatch_suggestions: rows[f] or NoRow
    req,      \* the requests' local variables and what they have staged
    crossed   \* history: today two requests, or a request and midnight, have overlapped

vars == <<today, library, rows, req, crossed>>

-----------------------------------------------------------------------------
(* Types *)

DueDays == 0..LastDay
STALE_COMPUTED_AT == -1      \* the epoch, before every day
Stamps == {STALE_COMPUTED_AT} \cup 0..LastDay

Row == [days : (-LastDay)..0, computed_at : Stamps]
ASSUME RowAssumption == NoRow \notin Row

Pc == {"idle", "collect", "replace", "erase", "list",
       "cascade", "age"}

Request == [pc     : Pc,
            day    : 0..LastDay,              \* read: date.today() of the router
            due    : [Films -> (-LastDay)..0 \cup {NoRow}], \* read: the run's output
            stamp  : Stamps,                  \* read: utc_now() of the run
            film   : Films \cup {Gone},       \* write: the film and its new due day
            to     : DueDays \cup {Gone},
            picked : SUBSET Films,            \* rows the running statement has yet to reach
            cut    : SUBSET Films,            \* rows this transaction has deleted
            aged   : SUBSET Films]            \* rows it has marked stale

Nothing == [f \in Films |-> NoRow]
Idle == [pc |-> "idle", day |-> 0, due |-> Nothing, stamp |-> STALE_COMPUTED_AT,
         film |-> Gone, to |-> Gone, picked |-> {}, cut |-> {}, aged |-> {}]

TypeOK ==
    /\ today \in 0..LastDay
    /\ library \in [Films -> DueDays \cup {Gone}]
    /\ rows \in [Films -> Row \cup {NoRow}]
    /\ req \in [Requests -> Request]
    /\ crossed \in BOOLEAN

-----------------------------------------------------------------------------
(* Queries *)

Stored == {f \in Films : rows[f] # NoRow}

\* suggest over collect_inputs: the films due on day d, with the days until then.
WithFilmsNotYetDue(d) == [f \in Films |-> IF library[f] # Gone THEN library[f] - d ELSE NoRow]
suggest(d) ==
    [f \in Films |-> IF library[f] # Gone /\ library[f] <= d THEN library[f] - d ELSE NoRow]

\* list_all
Listed == [f \in Films |-> IF rows[f] = NoRow THEN NoRow ELSE rows[f].days]

\* list_suggestions' test that the projection is of day d: its greatest stamp is.
AnyFilmStored(d) == Stored # {}
ComputedOn(d) ==
    /\ \E f \in Stored : rows[f].computed_at = d
    /\ \A f \in Stored : rows[f].computed_at <= d

\* Row f, or film f, that another transaction than r has changed and not yet committed.
RowLocked(r, s, f) == s # r /\ f \in req[s].cut \cup req[s].aged
FilmLocked(r, s, f) == s # r /\ req[s].pc \in {"cascade", "age"} /\ req[s].film = f

-----------------------------------------------------------------------------

Init ==
    /\ today = 0
    /\ library = [f \in Films |-> Gone]
    /\ rows = Nothing
    /\ req = [r \in Requests |-> Idle]
    /\ crossed = FALSE

Quiet == \A r \in Requests : req[r].pc = "idle"

Goto(r, pc) == req' = [req EXCEPT ![r].pc = pc]
Finish(r) == req' = [req EXCEPT ![r] = Idle]

\* r commits and goes on with the given locals.  The rows it has deleted are skipped by the
\* statements that wait for them.
Leave(r, locals) ==
    req' = [s \in Requests |-> IF s = r THEN locals
                               ELSE [req[s] EXCEPT !.picked = @ \ req[r].cut]]

Tick ==
    /\ today < LastDay
    /\ today' = today + 1
    /\ crossed' = ~Quiet
    /\ UNCHANGED <<library, rows, req>>

-----------------------------------------------------------------------------
(* GET /rewatch-suggestions: RewatchService.list_suggestions *)

\* The router's date.today(), then last_computed_at; an empty projection has none.  What comes
\* between the two might as well have come before, a midnight excepted.
BeginRead(r) ==
    /\ req[r].pc = "idle"
    /\ req' = [req EXCEPT ![r].pc = IF ComputedOn(today) THEN "list" ELSE "collect",
                          ![r].day = today]
    /\ UNCHANGED <<today, library, rows>>

\* recompute: the algorithm over what the library holds now, for the day of the request.
Collect(r) ==
    /\ req[r].pc = "collect"
    /\ req' = [req EXCEPT ![r].pc = "replace", ![r].due = suggest(req[r].day)]
    /\ UNCHANGED <<today, library, rows>>

\* replace_all starts: utc_now() is taken, and the DELETE fixes the rows it will delete.
BeginReplace(r) ==
    /\ req[r].pc = "replace"
    /\ req' = [req EXCEPT ![r].pc = "erase", ![r].stamp = today, ![r].picked = Stored]
    /\ UNCHANGED <<today, library, rows>>

Erase(r, f) ==
    /\ req[r].pc \in {"erase", "cascade"}
    /\ f \in req[r].picked
    /\ \A s \in Requests : ~RowLocked(r, s, f)
    /\ req' = [req EXCEPT ![r].picked = @ \ {f}, ![r].cut = @ \cup {f}]
    /\ UNCHANGED <<today, library, rows>>

\* Another transaction that has deleted the row of f, or is deleting the film.
Holds(r, s, f) ==
    \/ s # r /\ f \in req[s].cut
    \/ FilmLocked(r, s, f) /\ req[s].to = Gone

\* The row of f can be inserted: its film exists (the foreign key) and no other row has
\* its primary key.  While a deletion of either is in flight the insertion waits.
NoForeignKey(r, f) == rows[f] = NoRow \/ f \in req[r].cut
Insertable(r, f) ==
    /\ library[f] # Gone
    /\ \A s \in Requests : FilmLocked(r, s, f) => req[s].to # Gone
    /\ rows[f] = NoRow \/ f \in req[r].cut

Due(r) == {f \in Films : req[r].due[f] # NoRow}

\* Row f after the run of r: deleted and inserted, rather than updated in place.
NewRow(r, f) == [days |-> req[r].due[f], computed_at |-> req[r].stamp]
Replaced(r, f) ==
    IF f \in Due(r) THEN NewRow(r, f) ELSE IF f \in req[r].cut THEN NoRow ELSE rows[f]

\* The rows of the run are inserted and committed, then list_all reads what is stored.
Store(r) ==
    /\ req[r].pc = "erase"
    /\ req[r].picked = {}
    /\ \A f \in Due(r) : Insertable(r, f)
    /\ rows' = [f \in Films |-> Replaced(r, f)]
    /\ Leave(r, [Idle EXCEPT !.pc = "list", !.day = req[r].day])
    /\ UNCHANGED <<today, library>>

List(r) ==
    /\ req[r].pc = "list"
    /\ Finish(r)
    /\ UNCHANGED <<today, library, rows>>

-----------------------------------------------------------------------------
(* A write of the film service, in the part that concerns the due-list *)

\* The write is flushed, once no other transaction holds the film: one that is not in the
\* library is created, one that is gets edited or watched, or deleted, which cascades to its
\* row of the due-list.
Write(r) ==
    /\ req[r].pc = "idle"
    /\ \E f \in Films, d \in DueDays \cup {Gone} :
         /\ library[f] # Gone \/ d # Gone
         /\ \A s \in Requests : ~FilmLocked(r, s, f)
         /\ req' = [req EXCEPT ![r].pc = "cascade", ![r].film = f, ![r].to = d,
                               ![r].picked = IF d = Gone THEN {f} \cap Stored ELSE {}]
    /\ UNCHANGED <<today, library, rows>>

\* FilmService._commit: mark_stale fixes its rows, ages them one by one, and the
\* transaction commits.
BeginAge(r) ==
    /\ req[r].pc = "cascade"
    /\ req[r].picked = {}
    /\ req' = [req EXCEPT ![r].pc = "age", ![r].picked = Stored \ req[r].cut]
    /\ UNCHANGED <<today, library, rows>>

Age(r, f) ==
    /\ req[r].pc = "age"
    /\ f \in req[r].picked
    /\ \A s \in Requests : ~RowLocked(r, s, f)
    /\ req' = [req EXCEPT ![r].picked = @ \ {f}, ![r].aged = @ \cup {f}]
    /\ UNCHANGED <<today, library, rows>>

\* What mark_stale leaves of a row.
Untouched(row) == row
Stale(row) == [row EXCEPT !.computed_at = STALE_COMPUTED_AT]

Commit(r) ==
    /\ req[r].pc = "age"
    /\ req[r].picked = {}
    /\ library' = [library EXCEPT ![req[r].film] = req[r].to]
    /\ rows' = [f \in Films |-> IF f \in req[r].cut THEN NoRow
                                ELSE IF f \in req[r].aged THEN Stale(rows[f]) ELSE rows[f]]
    /\ Leave(r, Idle)
    /\ UNCHANGED today

-----------------------------------------------------------------------------
(* How a transaction fails *)

\* The foreign key or the primary key rejects the run's rows, and nobody in flight can
\* change that any more.
Reject(r) ==
    /\ req[r].pc = "erase"
    /\ req[r].picked = {}
    /\ \E f \in Due(r) : ~Insertable(r, f) /\ \A s \in Requests : ~Holds(r, s, f)
    /\ Finish(r)
    /\ UNCHANGED <<today, library, rows>>

\* r cannot go on before s ends.
WaitsFor(r, s) ==
    \/ req[r].pc \in {"erase", "cascade", "age"} /\ \E f \in req[r].picked : RowLocked(r, s, f)
    \/ /\ req[r].pc = "erase" /\ req[r].picked = {}
       /\ \E f \in Due(r) : ~Insertable(r, f) /\ Holds(r, s, f)

\* Postgres ends one of a group of transactions that all wait for each other.
DeadlockVictim(r) ==
    /\ \E s \in Requests : WaitsFor(r, s)
    /\ \E group \in SUBSET Requests :
         r \in group /\ \A p \in group : \E q \in group : WaitsFor(p, q)
    /\ Finish(r)
    /\ UNCHANGED <<today, library, rows>>

\* A crash or a lost connection, at any point: nothing staged survives.
Crash(r) ==
    /\ req[r].pc # "idle"
    /\ Finish(r)
    /\ UNCHANGED <<today, library, rows>>

-----------------------------------------------------------------------------

Arrive(r) == BeginRead(r) \/ Write(r)
Serve(r) ==
    \/ Collect(r) \/ BeginReplace(r) \/ Store(r) \/ List(r)
    \/ BeginAge(r) \/ Commit(r)
    \/ \E f \in Films : Erase(r, f) \/ Age(r, f)
    \/ Reject(r) \/ DeadlockVictim(r)

Next ==
    \/ Tick
    \/ \E r \in Requests :
        \/ Arrive(r) /\ crossed' = (crossed \/ ~Quiet)
        \/ (Serve(r) \/ Crash(r)) /\ UNCHANGED crossed

Spec == Init /\ [][Next]_vars

-----------------------------------------------------------------------------
(* Properties of every interleaving *)

\* NFR-INT-02: no row of the due-list outlives its film, also when a run that has read the
\* film inserts its rows while the film is being deleted.
ListedFilmsExist == \A f \in Stored : library[f] # Gone

-----------------------------------------------------------------------------
(* Properties of requests that do not overlap, on days that do not turn under them.  What *)
(* an overlap does lasts, at the longest, until a midnight nobody crosses.               *)

NextReadIsCurrent == Quiet /\ ComputedOn(today) => Listed = suggest(today)

\* DESIGN 5.8: a write stamps the projection stale in its own transaction, so that the next
\* read recomputes.  When nothing is in flight, a projection that the next read will take
\* for today's is the list of the library as it is.
FreshStampMeansCurrent == ~crossed => NextReadIsCurrent

\* FR-RW-03: the list a request answers is the one due on its day.
ServedListIsCurrent ==
    ~crossed => \A r \in Requests : req[r].pc = "list" => Listed = suggest(req[r].day)
=============================================================================

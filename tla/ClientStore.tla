---------------------------- MODULE ClientStore -----------------------------
(***************************************************************************)
(* What one browser tab keeps of the server's data: the library, the       *)
(* due-list and the settings (frontend domain/film, rating, rewatch and    *)
(* settings).  Each is an Angular httpResource, whose load can be in       *)
(* flight, fail, or be given up for a local write; the writes go over the  *)
(* wire beside the loads, edits and settings after they were applied       *)
(* locally.  The server handles a request in one step (how it does that is *)
(* the subject of FilmTransactions and of RewatchProjection), requests     *)
(* reach it in any order and their answers arrive in any order, or never.  *)
(*                                                                         *)
(* Abstractions: the five fields an edit may change are one value, a rating*)
(* history tells how often it lists an entry.  Only this tab writes; apart *)
(* from that, films fall due.  The fallback fetch of a film the list lacks is left out.  *)
(***************************************************************************)
EXTENDS Integers, FiniteSets

CONSTANTS
    Films,      \* ids; one is never used again
    Marks,      \* what an edit can set: favourite, owned, delay, tags and genres
    Entries,    \* ids of rating entries; one is never used again
    Slots,      \* bound on the writes in flight: one each
    Shares,     \* the settings the user chooses: the slider moves in steps of 10, and
    Intervals,  \* the pace field takes a whole number from 1
    Off,        \* null
    Absent      \* no such film; not (or no more) in the library

VARIABLES
    films,    \* the server's library
    due,      \* the films its due-list holds
    settings, \* its row of settings
    unused,   \* ids it has yet to give out
    store,    \* the tab's resources
    calls,    \* its writes in flight
    gone,     \* history: films the tab was told have been deleted
    rested,   \* history: films it was told were watched, which are not due since
    crossed   \* history: resources that what overlapped or failed may have left outdated

server == <<films, due, settings, unused>>
vars == <<films, due, settings, unused, store, calls, gone, rested, crossed>>

-----------------------------------------------------------------------------
(* Types *)

Film == [marks : Marks, rating_history : [Entries -> Nat]]
Only(e) == [x \in Entries |-> IF x = e THEN 1 ELSE 0]

ASSUME ClientAssumption ==
    /\ Shares \subseteq {10 * k : k \in 0..10} /\ Intervals \subseteq Nat \ {0}
    /\ Off \notin Int
    /\ Absent \notin Film \cup Entries
    /\ Films \cap Entries = {}    \* to tell the ids of two tables apart

Library == [Films -> Film \cup {Absent}]
NoFilms == [f \in Films |-> Absent]

\* SettingsBody, and the CHECK constraints of the table.
Settings ==
    [rewatch_share : {10 * k : k \in 0..10} \cup {Off},
     watch_interval_days : (Nat \ {0}) \cup {Off}]
SettingsOff == [rewatch_share |-> Off, watch_interval_days |-> Off]

Resources == {"films", "due", "settings"}
Values == [films |-> Library, due |-> SUBSET Films, settings |-> Settings]
Default == [films |-> NoFilms, due |-> {}, settings |-> SettingsOff]

\* A resource: what its value reads as (the last good one under an error, by listSafe and by
\* suggestions), and the load in flight with what it brings; clean while no write has run
\* beside the load (left out for the due-list, which changes by itself).
Resource(R) ==
    [status : {"loading", "resolved", "error"}, value : Values[R],
     load : {"none", "sent", "served"}, brings : Values[R], clean : BOOLEAN]

NoCall == [op |-> "none"]
Pc == {"sent", "done"}
Call ==
    [op : {"update"}, pc : Pc, film : Films, marks : Marks, previous : Marks,
     answer : Film \cup {Absent}]
    \cup [op : {"addRating"}, pc : Pc, film : Films, earlier : BOOLEAN,
          answer : Entries \cup {Absent}]
    \cup [op : {"removeRating"}, pc : Pc, film : Films, entry : Entries, filmDeleted : BOOLEAN]
    \cup [op : {"create", "remove"}, pc : Pc, film : Films]
    \cup [op : {"save"}, pc : Pc, field : DOMAIN SettingsOff, next : Settings,
          previous : Settings]
    \cup {NoCall}

TypeOK ==
    /\ films \in Library
    /\ due \subseteq {f \in Films : films[f] # Absent}
    /\ settings \in Settings
    /\ unused \subseteq Films \cup Entries
    /\ DOMAIN store = Resources /\ \A R \in Resources : store[R] \in Resource(R)
    /\ calls \in [Slots -> Call]
    /\ gone \subseteq Films /\ rested \subseteq Films /\ crossed \subseteq Resources

-----------------------------------------------------------------------------
(* Resources *)

\* The resource whose copy a write keeps up to date.
Touches(op) ==
    CASE op = "save" -> {"settings"}
      [] op = "none" -> {}
      [] OTHER -> {"films"}

Writing(R) == \E s \in Slots : R \in Touches(calls[s].op)

Fresh(R) == [status |-> "loading", value |-> Default[R], load |-> "sent",
             brings |-> Default[R], clean |-> R # "due"]

\* reload(): not while a load is in flight, and from an error the value is the default again.
Reloaded(st, R) ==
    IF st[R].status = "loading" THEN st
    ELSE [st EXCEPT ![R] = [Fresh(R) EXCEPT !.value = IF st[R].status = "error" THEN @
                                                      ELSE st[R].value,
                                            !.clean = R # "due" /\ ~Writing(R)]]

\* value.set: a local value, and the load in flight is given up.
LoadKept(st, R, v) == [st EXCEPT ![R].value = v]
WithLocal(st, R, v) ==
    [st EXCEPT ![R].status = "resolved", ![R].value = v, ![R].load = "none",
               ![R].brings = Default[R], ![R].clean = FALSE]

\* updateFilm, wherever the film is listed, and removeFilmLocally.
updateFilm(st, f, film) ==
    WithLocal(st, "films", IF st.films.value[f] = Absent THEN st.films.value
                           ELSE [st.films.value EXCEPT ![f] = film])
removeFilmLocally(st, f) == WithLocal(st, "films", [st.films.value EXCEPT ![f] = Absent])

Listed(f) == store.films.value[f] # Absent

-----------------------------------------------------------------------------
(* Loads *)

Init ==
    /\ \E f \in Films, m \in Marks, e \in Entries :
         \/ films = NoFilms /\ unused = Films \cup Entries
         \/ /\ films = [NoFilms EXCEPT ![f] = [marks |-> m, rating_history |-> Only(e)]]
            /\ unused = (Films \cup Entries) \ {f, e}
    /\ due = {}
    /\ settings = SettingsOff
    /\ store = [R \in Resources |-> Fresh(R)]
    /\ calls = [s \in Slots |-> NoCall]
    /\ gone = {} /\ rested = {} /\ crossed = {"films", "settings"}

\* The user opens a view again, or tries again.
Reload(R) ==
    /\ store[R].status # "loading"
    /\ store' = Reloaded(store, R)
    /\ crossed' = IF R # "due" /\ (store[R].status = "error" \/ Writing(R))
                  THEN crossed \cup {R} ELSE crossed
    /\ UNCHANGED <<films, due, settings, unused, calls, gone, rested>>

ServeLoad(R) ==
    /\ store[R].load = "sent"
    /\ store' = [store EXCEPT ![R].load = "served",
                              ![R].brings = CASE R = "films" -> films
                                              [] R = "due" -> due
                                              [] OTHER -> settings]
    /\ UNCHANGED <<films, due, settings, unused, calls, gone, rested, crossed>>

Loaded(R) ==
    /\ store[R].load = "served"
    /\ store' = [store EXCEPT ![R] = [@ EXCEPT !.status = "resolved", !.value = store[R].brings,
                                               !.load = "none", !.brings = Default[R],
                                               !.clean = FALSE]]
    /\ crossed' = IF store[R].clean THEN crossed \ {R} ELSE crossed
    /\ UNCHANGED <<films, due, settings, unused, calls, gone, rested>>

\* Of the settings nothing is left then: hasValue() is false.
LoadFails(R) ==
    /\ store[R].load # "none"
    /\ store' = [store EXCEPT ![R] = [@ EXCEPT !.status = "error", !.load = "none",
                                               !.brings = Default[R], !.clean = FALSE,
                                               !.value = IF R = "settings" THEN Default[R]
                                                         ELSE store[R].value]]
    /\ crossed' = IF R = "settings" THEN crossed \cup {R} ELSE crossed
    /\ UNCHANGED <<films, due, settings, unused, calls, gone, rested>>

-----------------------------------------------------------------------------
(* Writes begin *)

\* A call in a free slot, and what it does to the tab's copy at once.
Begin(s, call, st) ==
    LET R == Touches(call.op)
    IN  /\ calls[s] = NoCall
        /\ calls' = [calls EXCEPT ![s] = call]
        /\ store' = [Q \in Resources |-> IF Q \in R THEN [st[Q] EXCEPT !.clean = FALSE]
                                                    ELSE st[Q]]
        /\ crossed' = crossed \cup {Q \in R : Writing(Q) \/ store[Q].status = "loading"}
        /\ UNCHANGED <<films, due, settings, unused, gone, rested>>

\* FilmFacade.update: the edit shows at once.
BeginUpdate(s, f, m) ==
    /\ Listed(f)
    /\ Begin(s, [op |-> "update", pc |-> "sent", film |-> f, marks |-> m,
                 previous |-> store.films.value[f].marks, answer |-> Absent],
             updateFilm(store, f, [store.films.value[f] EXCEPT !.marks = m]))

\* RatingFacade.add and remove, FilmFacade.remove: nothing shows until the answer.
BeginAddRating(s, f, earlier) ==
    /\ Listed(f)
    /\ Begin(s, [op |-> "addRating", pc |-> "sent", film |-> f, earlier |-> earlier,
                 answer |-> Absent], store)

BeginRemoveRating(s, f, e) ==
    /\ Listed(f) /\ store.films.value[f].rating_history[e] > 0
    /\ Begin(s, [op |-> "removeRating", pc |-> "sent", film |-> f, entry |-> e,
                 filmDeleted |-> FALSE], store)

BeginRemove(s, f) ==
    /\ Listed(f)
    /\ Begin(s, [op |-> "remove", pc |-> "sent", film |-> f], store)

BeginCreate(s) ==
    \E f \in unused \cap Films :
        /\ \A t \in Slots : calls[t] # NoCall => calls[t].op # "create"
        /\ Begin(s, [op |-> "create", pc |-> "sent", film |-> f], store)

\* SettingsFacade.save: both settings travel, the one that is changed and the one shown.
WithSetting(field, value) == [store.settings.value EXCEPT ![field] = value]
BeginSave(s, field, value) ==
    LET next == WithSetting(field, value)
    IN  Begin(s, [op |-> "save", pc |-> "sent", field |-> field, next |-> next,
                  previous |-> store.settings.value],
              WithLocal(store, "settings", next))

-----------------------------------------------------------------------------
(* The server handles them *)

Answered(s, call) ==
    /\ calls' = [calls EXCEPT ![s] = [call EXCEPT !.pc = "done"]]
    /\ UNCHANGED <<store, gone, rested, crossed>>

Sent(s, op) == calls[s].op = op /\ calls[s].pc = "sent"
Stored(s) == films[calls[s].film] # Absent

ServeUpdate(s) ==
    LET film == [films[calls[s].film] EXCEPT !.marks = calls[s].marks]
    IN  /\ Sent(s, "update") /\ Stored(s)
        /\ films' = [films EXCEPT ![calls[s].film] = film]
        /\ Answered(s, [calls[s] EXCEPT !.answer = film])
        /\ UNCHANGED <<due, settings, unused>>

\* A watch takes the film off the due-list, and so does its deletion.
KeptDue(f) == due
OffDue(f) == due \ {f}

ServeAddRating(s) ==
    LET f == calls[s].film
    IN  /\ Sent(s, "addRating") /\ Stored(s)
        /\ \E e \in unused \cap Entries :
             /\ films' = [films EXCEPT ![f].rating_history[e] = 1]
             /\ unused' = unused \ {e}
             /\ Answered(s, [calls[s] EXCEPT !.answer = e])
        /\ due' = OffDue(f)
        /\ UNCHANGED settings

\* The last rating takes its film with it.
ServeRemoveRating(s) ==
    LET f == calls[s].film
        e == calls[s].entry
        last == films[f].rating_history = Only(e)
    IN  /\ Sent(s, "removeRating") /\ Stored(s) /\ films[f].rating_history[e] > 0
        /\ films' = [films EXCEPT ![f] = IF last THEN Absent
                                         ELSE [@ EXCEPT !.rating_history[e] = 0]]
        /\ due' = IF last THEN OffDue(f) ELSE due
        /\ Answered(s, [calls[s] EXCEPT !.filmDeleted = last])
        /\ UNCHANGED <<settings, unused>>

ServeRemove(s) ==
    /\ Sent(s, "remove") /\ Stored(s)
    /\ films' = [films EXCEPT ![calls[s].film] = Absent]
    /\ due' = OffDue(calls[s].film)
    /\ Answered(s, calls[s])
    /\ UNCHANGED <<settings, unused>>

ServeCreate(s) ==
    /\ Sent(s, "create")
    /\ \E m \in Marks, e \in unused \cap Entries :
         /\ films' = [films EXCEPT ![calls[s].film] = [marks |-> m, rating_history |-> Only(e)]]
         /\ unused' = unused \ {calls[s].film, e}
    /\ Answered(s, calls[s])
    /\ UNCHANGED <<due, settings>>

\* replace_settings: the whole row is written.
ServeSave(s) ==
    /\ Sent(s, "save")
    /\ calls[s].next \in Settings
    /\ settings' = calls[s].next
    /\ Answered(s, calls[s])
    /\ UNCHANGED <<films, due, unused>>

\* The days go by.
FallDue(f) ==
    /\ films[f] # Absent /\ f \notin due
    /\ due' = due \cup {f}
    /\ rested' = rested \ {f}
    /\ UNCHANGED <<films, settings, unused, store, calls, gone, crossed>>

-----------------------------------------------------------------------------
(* Their answers arrive *)

Shown(call) == store.films.value[call.film]
Answers(call) ==
    CASE call.op = "update" -> updateFilm(store, call.film, call.answer)
      [] call.op = "addRating" ->
           updateFilm(store, call.film,
                      [Shown(call) EXCEPT !.rating_history[call.answer] = @ + 1])
      [] call.op = "removeRating" /\ ~call.filmDeleted ->
           updateFilm(store, call.film, [Shown(call) EXCEPT !.rating_history[call.entry] = 0])
      [] call.op = "create" -> Reloaded(store, "films")
      [] call.op = "save" -> WithLocal(store, "settings", call.next)
      [] OTHER -> removeFilmLocally(store, call.film)

Deletes(call) == call.op = "remove" \/ (call.op = "removeRating" /\ call.filmDeleted)

\* removeFilm calls list.value.update, which reads the value and throws under an error: the
\* film stays on the shown list, and the view reports that the watch could not be saved.
LeavesGrid(call) == call.op = "addRating" /\ ~call.earlier /\ store.due.status # "error"

Succeed(s) ==
    LET call == calls[s]
    IN  /\ call # NoCall /\ call.pc = "done"
        /\ calls' = [calls EXCEPT ![s] = NoCall]
        /\ store' = IF LeavesGrid(call)
                      THEN WithLocal(Answers(call), "due", store.due.value \ {call.film})
                      ELSE Answers(call)
        /\ gone' = IF Deletes(call) THEN gone \cup {call.film} ELSE gone
        /\ rested' = IF LeavesGrid(call) THEN rested \cup ({call.film} \ due) ELSE rested
        /\ crossed' = IF call.op = "create" THEN crossed \cup {"films"} ELSE crossed
        /\ UNCHANGED server

NotRolledBack(call) == store

\* What an error leaves: an edit and a save are taken back.
RolledBack(call) ==
    CASE call.op = "update" ->
           updateFilm(store, call.film, [Shown(call) EXCEPT !.marks = call.previous])
      [] call.op = "save" -> WithLocal(store, "settings", call.previous)
      [] OTHER -> store

\* The server refuses, or the connection breaks before or after it has done what was asked.
Fail(s) ==
    LET call == calls[s]
    IN  /\ call # NoCall
        /\ calls' = [calls EXCEPT ![s] = NoCall]
        /\ store' = RolledBack(call)
        /\ crossed' = IF call.pc = "done" THEN crossed \cup Touches(call.op) ELSE crossed
        /\ UNCHANGED <<films, due, settings, unused, gone, rested>>

-----------------------------------------------------------------------------

Write(s) ==
    \/ BeginCreate(s)
    \/ \E f \in Films :
         \/ BeginRemove(s, f) \/ \E e \in Entries : BeginRemoveRating(s, f, e)
         \/ \E m \in Marks : BeginUpdate(s, f, m)
         \/ \E earlier \in BOOLEAN : BeginAddRating(s, f, earlier)
    \/ \E v \in Shares \cup {Off} : BeginSave(s, "rewatch_share", v)
    \/ \E v \in Intervals \cup {Off} : BeginSave(s, "watch_interval_days", v)

Serve(s) ==
    \/ ServeUpdate(s) \/ ServeAddRating(s) \/ ServeRemoveRating(s) \/ ServeRemove(s)
    \/ ServeCreate(s) \/ ServeSave(s)

Next ==
    \/ \E R \in Resources : Reload(R) \/ ServeLoad(R) \/ Loaded(R) \/ LoadFails(R)
    \/ \E s \in Slots : Write(s) \/ Serve(s) \/ Succeed(s) \/ Fail(s)
    \/ \E f \in Films : FallDue(f)

Spec == Init /\ [][Next]_vars

-----------------------------------------------------------------------------
(* Properties *)

Settled(R) == ~Writing(R) /\ store[R].status # "loading"

\* "A write already returns success/error over the wire, so a second round trip to learn what
\* it just told us is redundant": when nothing is in flight, the library and the settings the
\* tab shows are the server's, whatever sequence of edits, failures and reloads went before.
\* An overlap may spoil them until the next load that no write runs beside.
SettledStoreIsServer ==
    /\ Settled("films") /\ "films" \notin crossed => store.films.value = films
    /\ Settled("settings") /\ "settings" \notin crossed => store.settings.value = settings

\* What the tab was told has left is not shown again, however its loads and writes overlap:
\* a deleted film in the library, and a film just watched among the suggestions.
GoneStaysGone ==
    /\ \A f \in gone : ~Listed(f)
    /\ rested \cap store.due.value = {}

\* "One row, so both settings travel together": the setting that is not being changed keeps
\* its stored value, also after saves that were refused and taken back.  Not claimed before the
\* settings are loaded, after a failed load or a lost answer, and of saves that overlap another
\* or a load: what travels along may then be outdated, or Off.
OneSettingAtATime ==
    [][\A s \in Slots :
         Sent(s, "save") /\ calls'[s] # NoCall /\ calls'[s].pc = "done"
           /\ "settings" \notin crossed
         => \A field \in DOMAIN settings \ {calls[s].field} :
              settings'[field] = settings[field]]_vars
=============================================================================

------------------------- MODULE ClientStoreProofs --------------------------
(***************************************************************************)
(* What the tab's copies are worth, for any number of films, entries and   *)
(* writes in flight: they keep their types, what has left does not come    *)
(* back, and a settled copy that nothing overlapped is the server's.       *)
(*                                                                         *)
(* The last rests on SteadyLibrary and SteadySettings: where nothing has   *)
(* overlapped, the copy differs from the server's by the one write in      *)
(* flight, and in the way which its answer, or its failure, will make      *)
(* good.                                                                   *)
(***************************************************************************)
EXTENDS ClientStore, TLAPS

Kept == {"films", "settings"}
Server(R) == IF R = "films" THEN films ELSE settings

\* What an answer brings is there once the server has given it.
AnswersTyped ==
    \A s \in Slots :
        /\ calls[s].op = "update" /\ calls[s].pc = "done" => calls[s].answer \in Film
        /\ calls[s].op = "addRating" /\ calls[s].pc = "done" => calls[s].answer \in Entries

\* An id not given out is nobody's but the film's that is being created.
IdsInv ==
    /\ \A f \in unused \cap Films : films[f] = Absent
    /\ \A e \in unused \cap Entries, f \in Films :
         films[f] # Absent => films[f].rating_history[e] = 0
    /\ \A s \in Slots : Sent(s, "create") => calls[s].film \in unused
    /\ \A s, t \in Slots : calls[s].op = "create" /\ calls[t].op = "create" => s = t

\* A deleted film is on no copy and on none that is under way.
Left(f) == films[f] = Absent /\ f \notin unused
GoneInv ==
    /\ \A f \in gone : /\ Left(f)
                       /\ store["films"].value[f] = Absent
                       /\ store["films"].brings[f] = Absent
    /\ \A s \in Slots : calls[s] # NoCall /\ calls[s].pc = "done" /\ Deletes(calls[s])
         => Left(calls[s].film)

\* Nor is a watched film among the suggestions.
RestInv == rested \cap (due \cup store["due"].value \cup store["due"].brings) = {}

\* A load that no write has run beside brings what the server has.
LoadOk(R) ==
    /\ store[R].status = "loading" <=> store[R].load # "none"
    /\ store[R].clean =>
         /\ R \in Kept /\ store[R].status = "loading" /\ ~Writing(R)
         /\ store[R].load = "served" => store[R].brings = Server(R)
    /\ R \in Kept \ crossed /\ store[R].status = "loading" => store[R].clean
LoadInv == \A R \in Resources : LoadOk(R)

\* How a write in flight leaves the copy v of the library lib, and of the settings row.
AheadLibrary(c, v, lib) ==
    LET f == c.film
    IN  CASE c.op = "update" /\ c.pc = "sent" ->
               /\ lib[f] # Absent /\ c.previous = lib[f].marks
               /\ v = [lib EXCEPT ![f] = [lib[f] EXCEPT !.marks = c.marks]]
          [] c.op = "update" /\ c.pc = "done" -> v = lib /\ c.answer = lib[f]
          [] c.op = "addRating" /\ c.pc = "done" ->
               /\ v[f] # Absent /\ v[f].rating_history[c.answer] = 0
               /\ lib = [v EXCEPT ![f] = [v[f] EXCEPT !.rating_history[c.answer] = 1]]
          [] c.op = "removeRating" /\ c.pc = "done" ->
               /\ v[f] # Absent
               /\ lib = [v EXCEPT ![f] = IF c.filmDeleted THEN Absent
                                         ELSE [v[f] EXCEPT !.rating_history[c.entry] = 0]]
          [] c.op = "remove" /\ c.pc = "done" -> lib = [v EXCEPT ![f] = Absent]
          [] c.op = "create" /\ c.pc = "done" -> TRUE
          [] OTHER -> v = lib

AheadSettings(c, v, row) ==
    /\ v = c.next
    /\ c.pc = "sent" =>
         /\ row = c.previous
         /\ \A field \in DOMAIN SettingsOff \ {c.field} : c.next[field] = c.previous[field]
    /\ c.pc = "done" => row = c.next

OnFilms == {"update", "addRating", "removeRating", "create", "remove"}

SteadyLibrary ==
    "films" \notin crossed =>
      /\ ~Writing("films") => store["films"].value = films
      /\ \A s \in Slots : calls[s].op \in OnFilms =>
           /\ AheadLibrary(calls[s], store["films"].value, films)
           /\ \A t \in Slots : calls[t].op \in OnFilms => t = s

SteadySettings ==
    "settings" \notin crossed =>
      /\ ~Writing("settings") => store["settings"].value = settings
      /\ \A s \in Slots : calls[s].op = "save" =>
           /\ AheadSettings(calls[s], store["settings"].value, settings)
           /\ \A t \in Slots : calls[t].op = "save" => t = s

ClientInv ==
    /\ AnswersTyped /\ IdsInv /\ GoneInv /\ RestInv /\ LoadInv
    /\ SteadyLibrary /\ SteadySettings
-----------------------------------------------------------------------------
(* The operations on a resource *)

StoreTyped(st) == DOMAIN st = Resources /\ \A R \in Resources : st[R] \in Resource(R)

\* What value.set leaves of a resource, and what reload() does.
Local(R, v) ==
    [status |-> "resolved", value |-> v, load |-> "none", brings |-> Default[R], clean |-> FALSE]
Reloading(st, R) ==
    [status |-> "loading", value |-> IF st[R].status = "error" THEN Default[R] ELSE st[R].value,
     load |-> "sent", brings |-> Default[R], clean |-> R # "due" /\ ~Writing(R)]

LEMMA PerResource ==
  /\ Default["films"] = NoFilms /\ Default["due"] = {} /\ Default["settings"] = SettingsOff
  /\ Values["films"] = Library /\ Values["due"] = SUBSET Films /\ Values["settings"] = Settings
  BY DEF Default, Values

LEMMA LocalIsNotClean ==
  ASSUME NEW R, NEW v
  PROVE  [Local(R, v) EXCEPT !.clean = FALSE] = Local(R, v)
<1>1. /\ Local(R, v) \in [status : {"resolved"}, value : {v}, load : {"none"},
                          brings : {Default[R]}, clean : BOOLEAN]
      /\ Local(R, v).clean = FALSE
  BY DEF Local
<1> QED
  BY <1>1

LEMMA DefaultsTyped == \A R \in Resources : Default[R] \in Values[R]
<1>1. NoFilms \in Library
  BY DEF NoFilms, Library
<1>2. SettingsOff \in Settings
  BY DEF SettingsOff, Settings
<1> QED
  BY <1>1, <1>2, PerResource DEF Resources

LEMMA SetLocally ==
  ASSUME NEW st, StoreTyped(st), NEW R \in Resources, NEW v
  PROVE  /\ DOMAIN WithLocal(st, R, v) = Resources
         /\ WithLocal(st, R, v)[R] = Local(R, v)
         /\ \A Q \in Resources \ {R} : WithLocal(st, R, v)[Q] = st[Q]
  BY DEF WithLocal, Local, StoreTyped, Resource

LEMMA SetReloading ==
  ASSUME NEW st, StoreTyped(st), NEW R \in Resources
  PROVE  /\ DOMAIN Reloaded(st, R) = Resources
         /\ st[R].status = "loading" => Reloaded(st, R)[R] = st[R]
         /\ st[R].status # "loading" => Reloaded(st, R)[R] = Reloading(st, R)
         /\ \A Q \in Resources \ {R} : Reloaded(st, R)[Q] = st[Q]
  BY DEF Reloaded, Reloading, StoreTyped, Resource, Fresh

LEMMA LocalTyped ==
  ASSUME NEW st, StoreTyped(st), NEW R \in Resources, NEW v \in Values[R]
  PROVE  StoreTyped(WithLocal(st, R, v))
<1>1. Local(R, v) \in Resource(R)
  BY DefaultsTyped DEF Local, Resource
<1> QED
  BY <1>1, SetLocally DEF StoreTyped

LEMMA ReloadingTyped ==
  ASSUME NEW st, StoreTyped(st), NEW R \in Resources
  PROVE  StoreTyped(Reloaded(st, R))
<1>1. Reloading(st, R) \in Resource(R)
  BY DefaultsTyped DEF Reloading, Resource, StoreTyped
<1> QED
  BY <1>1, SetReloading DEF StoreTyped
LEMMA UpdateTyped ==
  ASSUME NEW st, StoreTyped(st), NEW f \in Films, NEW film,
         st["films"].value[f] # Absent => film \in Film
  PROVE  StoreTyped(updateFilm(st, f, film))
<1> DEFINE v == IF st.films.value[f] = Absent THEN st.films.value
                ELSE [st.films.value EXCEPT ![f] = film]
<1>1. "films" \in Resources
  BY DEF Resources
<1>2. st["films"].value \in Library
  BY <1>1, PerResource DEF StoreTyped, Resource
<1>3. v \in Values["films"]
  BY <1>2, PerResource DEF Library
<1> HIDE DEF v
<1>4. StoreTyped(WithLocal(st, "films", v))
  BY <1>1, <1>3, LocalTyped
<1> QED
  BY <1>4 DEF updateFilm, v

LEMMA RemoveTyped ==
  ASSUME NEW st, StoreTyped(st), NEW f \in Films
  PROVE  StoreTyped(removeFilmLocally(st, f))
<1> DEFINE v == [st.films.value EXCEPT ![f] = Absent]
<1>1. "films" \in Resources
  BY DEF Resources
<1>2. st["films"].value \in Library
  BY <1>1, PerResource DEF StoreTyped, Resource
<1>3. v \in Values["films"]
  BY <1>2, PerResource DEF Library
<1> HIDE DEF v
<1>4. StoreTyped(WithLocal(st, "films", v))
  BY <1>1, <1>3, LocalTyped
<1> QED
  BY <1>4 DEF removeFilmLocally, v

-----------------------------------------------------------------------------
(* Calls *)

LEMMA CallFields ==
  ASSUME NEW c \in Call
  PROVE  /\ c = NoCall <=> c.op = "none"
         /\ c # NoCall => c.op \in OnFilms \cup {"save"} /\ c.pc \in Pc
         /\ c.op \in OnFilms => c.film \in Films
         /\ c.op = "update" => c.marks \in Marks /\ c.previous \in Marks
                               /\ c.answer \in Film \cup {Absent}
         /\ c.op = "addRating" => c.earlier \in BOOLEAN /\ c.answer \in Entries \cup {Absent}
         /\ c.op = "removeRating" => c.entry \in Entries /\ c.filmDeleted \in BOOLEAN
         /\ c.op = "save" => c.field \in DOMAIN SettingsOff /\ c.next \in Settings
                             /\ c.previous \in Settings
  BY DEF Call, NoCall, OnFilms

LEMMA Touched ==
  ASSUME NEW c \in Call
  PROVE  /\ c.op \in OnFilms => Touches(c.op) = {"films"}
         /\ c.op = "save" => Touches(c.op) = {"settings"}
         /\ c.op = "none" => Touches(c.op) = {}
  BY DEF Touches, OnFilms

\* The call c, answered: what it becomes, and what it keeps.
Done(c) == [c EXCEPT !.pc = "done"]
Same(d, c) == d \in Call /\ d.op = c.op /\ d.film = c.film /\ d.pc = "done"

LEMMA AnsweredCall ==
  ASSUME NEW c \in Call
  PROVE  /\ c.op \in {"create", "remove"} => Same(Done(c), c)
         /\ c.op = "save" => /\ Done(c) \in Call /\ Done(c).op = "save" /\ Done(c).pc = "done"
                             /\ Done(c).next = c.next
         /\ \A film \in Film : c.op = "update" =>
              LET d == Done([c EXCEPT !.answer = film]) IN Same(d, c) /\ d.answer = film
         /\ \A e \in Entries : c.op = "addRating" =>
              LET d == Done([c EXCEPT !.answer = e]) IN Same(d, c) /\ d.answer = e
         /\ \A b \in BOOLEAN : c.op = "removeRating" =>
              LET d == Done([c EXCEPT !.filmDeleted = b])
              IN  Same(d, c) /\ d.filmDeleted = b /\ d.entry = c.entry
<1>1. CASE c.op = "update"
  <2>1. c \in [op : {"update"}, pc : Pc, film : Films, marks : Marks, previous : Marks,
               answer : Film \cup {Absent}]
    BY <1>1 DEF Call, NoCall
  <2> QED
    BY <1>1, <2>1 DEF Call, Pc, Done, Same
<1>2. CASE c.op = "addRating"
  <2>1. c \in [op : {"addRating"}, pc : Pc, film : Films, earlier : BOOLEAN,
               answer : Entries \cup {Absent}]
    BY <1>2 DEF Call, NoCall
  <2> QED
    BY <1>2, <2>1 DEF Call, Pc, Done, Same
<1>3. CASE c.op = "removeRating"
  <2>1. c \in [op : {"removeRating"}, pc : Pc, film : Films, entry : Entries,
               filmDeleted : BOOLEAN]
    BY <1>3 DEF Call, NoCall
  <2> QED
    BY <1>3, <2>1 DEF Call, Pc, Done, Same
<1>4. CASE c.op \in {"create", "remove"}
  <2>1. c \in [op : {"create", "remove"}, pc : Pc, film : Films]
    BY <1>4 DEF Call, NoCall
  <2> QED
    BY <1>4, <2>1 DEF Call, Pc, Done, Same
<1>5. CASE c.op = "save"
  <2>1. c \in [op : {"save"}, pc : Pc, field : DOMAIN SettingsOff, next : Settings,
               previous : Settings]
    BY <1>5 DEF Call, NoCall
  <2> QED
    BY <1>5, <2>1 DEF Call, Pc, Done, Same
<1> QED
  BY <1>1, <1>2, <1>3, <1>4, <1>5
-----------------------------------------------------------------------------
(* Types *)

Typed == TypeOK /\ AnswersTyped

LEMMA TypeParts ==
  ASSUME TypeOK
  PROVE  /\ StoreTyped(store)
         /\ \A R \in Resources : store[R] \in Resource(R)
         /\ store["films"].value \in Library /\ store["films"].brings \in Library
         /\ store["due"].value \subseteq Films /\ store["due"].brings \subseteq Films
         /\ store["settings"].value \in Settings
         /\ \A s \in Slots : calls[s] \in Call
         /\ {"films", "due", "settings"} = Resources
<1>1. /\ store["films"] \in Resource("films") /\ store["due"] \in Resource("due")
      /\ store["settings"] \in Resource("settings")
  BY DEF TypeOK, Resources
<1> QED
  BY <1>1, PerResource DEF TypeOK, StoreTyped, Resource, Resources

LEMMA BeginTyped ==
  ASSUME Typed, NEW s \in Slots, NEW c \in Call, c # NoCall, c.pc = "sent",
         NEW st, StoreTyped(st), Begin(s, c, st)
  PROVE  Typed'
<1>1. \A R \in Resources : [st[R] EXCEPT !.clean = FALSE] \in Resource(R)
  BY DEF StoreTyped, Resource
<1>2. StoreTyped(store')
  BY <1>1 DEF Begin, StoreTyped
<1>3. crossed' \subseteq Resources
  <2>1. Touches(c.op) \subseteq Resources
    BY Touched, CallFields DEF Resources
  <2>2. crossed \subseteq Resources
    BY DEF Typed, TypeOK
  <2> QED
    BY <2>1, <2>2 DEF Begin
<1>4. calls' \in [Slots -> Call] /\ AnswersTyped'
  BY DEF Begin, Typed, TypeOK, AnswersTyped
<1> QED
  BY <1>2, <1>3, <1>4 DEF Begin, Typed, TypeOK, StoreTyped

\* What a write asks for, and what it shows at once.
Asks(c, st) ==
    /\ c.op # "save" =>
         /\ c.op \in {"update", "addRating", "removeRating", "remove"} => Listed(c.film)
         /\ c.op = "update" =>
              /\ c.previous = store["films"].value[c.film].marks
              /\ st = WithLocal(store, "films",
                       [store["films"].value EXCEPT ![c.film] = [@ EXCEPT !.marks = c.marks]])
         /\ c.op = "create" =>
              /\ c.film \in unused
              /\ \A t \in Slots : calls[t] # NoCall => calls[t].op # "create"
         /\ c.op # "update" => st = store
    /\ c.op = "save" =>
         /\ st = WithLocal(store, "settings", c.next)
         /\ c.previous = store["settings"].value
         /\ \A field \in DOMAIN SettingsOff \ {c.field} : c.next[field] = c.previous[field]

Asking(s, c, st) ==
    /\ c \in Call /\ c # NoCall /\ c.pc = "sent" /\ StoreTyped(st)
    /\ Asks(c, st) /\ Begin(s, c, st)

LEMMA WriteAsks ==
  ASSUME Typed, NEW s \in Slots, Write(s)
  PROVE  \E c, st : Asking(s, c, st)
<1> DEFINE Goal == \E c, st : Asking(s, c, st)
<1>0. StoreTyped(store) /\ store["films"].value \in Library /\ store["settings"].value \in Settings
  BY TypeParts DEF Typed
<1> HIDE DEF Goal
<1>1. ASSUME BeginCreate(s) PROVE Goal
  <2>1. PICK f \in unused \cap Films :
          /\ \A t \in Slots : calls[t] # NoCall => calls[t].op # "create"
          /\ Begin(s, [op |-> "create", pc |-> "sent", film |-> f], store)
    BY <1>1 DEF BeginCreate
  <2>2. [op |-> "create", pc |-> "sent", film |-> f] \in Call
    BY DEF Call, Pc
  <2>3. Asking(s, [op |-> "create", pc |-> "sent", film |-> f], store)
    BY <1>0, <2>1, <2>2 DEF Asking, Asks, NoCall
  <2> QED
    BY <2>3 DEF Goal
<1>2. ASSUME NEW f \in Films, BeginRemove(s, f) PROVE Goal
  <2> DEFINE c == [op |-> "remove", pc |-> "sent", film |-> f]
  <2>1. c \in Call
    BY DEF Call, Pc
  <2>2. Asking(s, c, store)
    BY <1>0, <1>2, <2>1 DEF Asking, Asks, NoCall, BeginRemove
  <2> QED
    BY <2>2 DEF Goal
<1>3. ASSUME NEW f \in Films, NEW e \in Entries, BeginRemoveRating(s, f, e) PROVE Goal
  <2> DEFINE c == [op |-> "removeRating", pc |-> "sent", film |-> f, entry |-> e,
                   filmDeleted |-> FALSE]
  <2>1. c \in Call
    BY DEF Call, Pc
  <2>2. Asking(s, c, store)
    BY <1>0, <1>3, <2>1 DEF Asking, Asks, NoCall, BeginRemoveRating
  <2> QED
    BY <2>2 DEF Goal
<1>4. ASSUME NEW f \in Films, NEW m \in Marks, BeginUpdate(s, f, m) PROVE Goal
  <2> DEFINE film == [store.films.value[f] EXCEPT !.marks = m]
             c == [op |-> "update", pc |-> "sent", film |-> f, marks |-> m,
                   previous |-> store.films.value[f].marks, answer |-> Absent]
             st == updateFilm(store, f, film)
  <2>1. store.films.value[f] \in Film /\ store.films.value[f] # Absent
    BY <1>0, <1>4 DEF BeginUpdate, Listed, Library
  <2>2. film \in Film
    BY <2>1 DEF Film
  <2>3. c \in Call
    BY <2>1 DEF Call, Pc, Film
  <2>4. StoreTyped(st)
    BY <1>0, <2>2, UpdateTyped
  <2>5. st = WithLocal(store, "films", [store["films"].value EXCEPT ![f] = [@ EXCEPT !.marks = m]])
    BY <2>1 DEF updateFilm
  <2>6. Begin(s, c, st) /\ Listed(f)
    BY <1>4 DEF BeginUpdate
  <2>7. /\ c.op = "update" /\ c.pc = "sent" /\ c.film = f /\ c.marks = m
        /\ c.previous = store["films"].value[f].marks
    OBVIOUS
  <2>8. c # NoCall
    BY <2>7 DEF NoCall
  <2> HIDE DEF c, st, film
  <2>9. Asking(s, c, st)
    BY <2>3, <2>4, <2>5, <2>6, <2>7, <2>8 DEF Asking, Asks
  <2> QED
    BY <2>9 DEF Goal
<1>5. ASSUME NEW f \in Films, NEW b \in BOOLEAN, BeginAddRating(s, f, b) PROVE Goal
  <2> DEFINE c == [op |-> "addRating", pc |-> "sent", film |-> f, earlier |-> b, answer |-> Absent]
  <2>1. c \in Call
    BY DEF Call, Pc
  <2>2. Asking(s, c, store)
    BY <1>0, <1>5, <2>1 DEF Asking, Asks, NoCall, BeginAddRating
  <2> QED
    BY <2>2 DEF Goal
<1>6. ASSUME NEW field \in DOMAIN SettingsOff, NEW v, BeginSave(s, field, v),
             WithSetting(field, v) \in Settings
      PROVE  Goal
  <2> DEFINE next == WithSetting(field, v)
             c == [op |-> "save", pc |-> "sent", field |-> field, next |-> next,
                   previous |-> store.settings.value]
             st == WithLocal(store, "settings", next)
  <2>1. c \in Call
    BY <1>0, <1>6 DEF Call, Pc
  <2>2. StoreTyped(st)
    BY <1>0, <1>6, PerResource, LocalTyped DEF Resources
  <2>3. Begin(s, c, st)
    BY <1>6 DEF BeginSave
  <2>4. \A other \in DOMAIN SettingsOff \ {field} : next[other] = store["settings"].value[other]
    BY <1>0 DEF WithSetting, Settings, SettingsOff
  <2>5. /\ c.op = "save" /\ c.pc = "sent" /\ c.field = field /\ c.next = next
        /\ c.previous = store["settings"].value
    OBVIOUS
  <2>6. c # NoCall
    BY <2>5 DEF NoCall
  <2>7. st = WithLocal(store, "settings", c.next)
    BY <2>5
  <2> HIDE DEF c, st, next
  <2>8. Asking(s, c, st)
    BY <2>1, <2>2, <2>3, <2>4, <2>5, <2>6, <2>7 DEF Asking, Asks
  <2> QED
    BY <2>8 DEF Goal
<1>7. ASSUME NEW v \in Shares \cup {Off}, BeginSave(s, "rewatch_share", v) PROVE Goal
  BY <1>0, <1>6, <1>7, ClientAssumption DEF WithSetting, Settings, SettingsOff
<1>8. ASSUME NEW v \in Intervals \cup {Off}, BeginSave(s, "watch_interval_days", v) PROVE Goal
  BY <1>0, <1>6, <1>8, ClientAssumption DEF WithSetting, Settings, SettingsOff
<1>9. Goal
  BY <1>1, <1>2, <1>3, <1>4, <1>5, <1>7, <1>8 DEF Write
<1> QED
  BY <1>9 DEF Goal

LEMMA WriteTyped ==
  ASSUME Typed, NEW s \in Slots, Write(s)
  PROVE  Typed'
<1>1. PICK c, st : Asking(s, c, st)
  BY WriteAsks
<1> QED
  BY <1>1, BeginTyped DEF Asking

\* An answered call has its answer, and the other calls stay what they are.
LEMMA AnsweredTyped ==
  ASSUME Typed, NEW s \in Slots, NEW c, Answered(s, c), Done(c) \in Call,
         Done(c).op = "update" => Done(c).answer \in Film,
         Done(c).op = "addRating" => Done(c).answer \in Entries
  PROVE  /\ calls' \in [Slots -> Call] /\ AnswersTyped'
         /\ StoreTyped(store') /\ gone' \subseteq Films /\ rested' \subseteq Films
         /\ crossed' \subseteq Resources
<1>1. calls' = [calls EXCEPT ![s] = Done(c)]
  BY DEF Answered, Done
<1>2. calls' \in [Slots -> Call]
  BY <1>1 DEF Typed, TypeOK
<1>3. AnswersTyped'
  BY <1>1 DEF AnswersTyped, Typed, TypeOK
<1> QED
  BY <1>2, <1>3 DEF Answered, Typed, TypeOK, StoreTyped

LEMMA ServeTyped ==
  ASSUME Typed, NEW s \in Slots, Serve(s)
  PROVE  Typed'
<1>0. /\ films \in Library /\ settings \in Settings /\ unused \subseteq Films \cup Entries
      /\ due \subseteq {f \in Films : films[f] # Absent} /\ calls[s] \in Call
  BY DEF Typed, TypeOK
<1>1. ASSUME calls' \in [Slots -> Call] /\ AnswersTyped', StoreTyped(store'),
             gone' \subseteq Films, rested' \subseteq Films, crossed' \subseteq Resources,
             films' \in Library, due' \subseteq {f \in Films : films'[f] # Absent},
             settings' \in Settings, unused' \subseteq Films \cup Entries
      PROVE  Typed'
  BY <1>1 DEF Typed, TypeOK, StoreTyped
<1>2. CASE ServeUpdate(s)
  <2> DEFINE film == [films[calls[s].film] EXCEPT !.marks = calls[s].marks]
  <2>1. calls[s].op = "update" /\ calls[s].film \in Films /\ calls[s].marks \in Marks
    BY <1>0, <1>2, CallFields DEF ServeUpdate, Sent, OnFilms
  <2>2. film \in Film
    BY <1>0, <1>2, <2>1 DEF ServeUpdate, Stored, Library, Film
  <2>3. LET d == Done([calls[s] EXCEPT !.answer = film]) IN Same(d, calls[s]) /\ d.answer = film
    BY <1>0, <2>1, <2>2, AnsweredCall
  <2>4. /\ films' = [films EXCEPT ![calls[s].film] = film]
        /\ Answered(s, [calls[s] EXCEPT !.answer = film])
        /\ due' = due /\ settings' = settings /\ unused' = unused
    BY <1>2 DEF ServeUpdate
  <2> HIDE DEF film
  <2>5. films' \in Library
    BY <1>0, <2>1, <2>2, <2>4 DEF Library
  <2>6. due' \subseteq {f \in Films : films'[f] # Absent}
    BY <1>0, <2>1, <2>2, <2>4, ClientAssumption DEF Library
  <2> QED
    BY <1>0, <1>1, <2>1, <2>2, <2>3, <2>4, <2>5, <2>6, AnsweredTyped DEF Same
<1>3. CASE ServeAddRating(s)
  <2> DEFINE f == calls[s].film
  <2>1. calls[s].op = "addRating" /\ f \in Films /\ films[f] \in Film
    BY <1>0, <1>3, CallFields DEF ServeAddRating, Sent, Stored, Library, OnFilms
  <2>2. PICK e \in unused \cap Entries :
          /\ films' = [films EXCEPT ![f].rating_history[e] = 1]
          /\ unused' = unused \ {e}
          /\ Answered(s, [calls[s] EXCEPT !.answer = e])
    BY <1>3 DEF ServeAddRating
  <2>3. LET d == Done([calls[s] EXCEPT !.answer = e]) IN Same(d, calls[s]) /\ d.answer = e
    BY <1>0, <2>1, AnsweredCall
  <2>4. [films[f] EXCEPT !.rating_history[e] = 1] \in Film
    BY <2>1 DEF Film
  <2>5. films' = [films EXCEPT ![f] = [films[f] EXCEPT !.rating_history[e] = 1]]
    BY <2>2
  <2>6. due' = due \ {f} /\ settings' = settings
    BY <1>3 DEF ServeAddRating, OffDue
  <2> HIDE DEF f
  <2>7. films' \in Library
    BY <1>0, <2>1, <2>4, <2>5 DEF Library
  <2>8. due' \subseteq {g \in Films : films'[g] # Absent}
    BY <1>0, <2>1, <2>5, <2>6 DEF Library
  <2> QED
    BY <1>0, <1>1, <2>1, <2>2, <2>3, <2>6, <2>7, <2>8, AnsweredTyped DEF Same
<1>4. CASE ServeRemoveRating(s)
  <2> DEFINE f == calls[s].film
             e == calls[s].entry
             last == films[f].rating_history = Only(e)
  <2>1. /\ calls[s].op = "removeRating" /\ f \in Films /\ e \in Entries /\ films[f] \in Film
        /\ last \in BOOLEAN
    BY <1>0, <1>4, CallFields DEF ServeRemoveRating, Sent, Stored, Library, OnFilms
  <2>2. /\ films' = [films EXCEPT ![f] = IF last THEN Absent
                                         ELSE [@ EXCEPT !.rating_history[e] = 0]]
        /\ due' = IF last THEN due \ {f} ELSE due
        /\ Answered(s, [calls[s] EXCEPT !.filmDeleted = last])
        /\ settings' = settings /\ unused' = unused
    BY <1>4 DEF ServeRemoveRating, OffDue
  <2>3. Same(Done([calls[s] EXCEPT !.filmDeleted = last]), calls[s])
    BY <1>0, <2>1, AnsweredCall
  <2>4. [films[f] EXCEPT !.rating_history[e] = 0] \in Film
    BY <2>1 DEF Film
  <2> HIDE DEF f, e, last
  <2>5. films' \in Library
    BY <1>0, <2>1, <2>2, <2>4 DEF Library
  <2>6. due' \subseteq {g \in Films : films'[g] # Absent}
    BY <1>0, <2>1, <2>2, <2>4, ClientAssumption DEF Library
  <2> QED
    BY <1>0, <1>1, <2>1, <2>2, <2>3, <2>5, <2>6, AnsweredTyped DEF Same
<1>5. CASE ServeRemove(s)
  <2>1. calls[s].op = "remove" /\ calls[s].film \in Films
    BY <1>0, <1>5, CallFields DEF ServeRemove, Sent, OnFilms
  <2>2. /\ films' = [films EXCEPT ![calls[s].film] = Absent]
        /\ due' = due \ {calls[s].film} /\ Answered(s, calls[s])
        /\ settings' = settings /\ unused' = unused
    BY <1>5 DEF ServeRemove, OffDue
  <2>3. films' \in Library /\ due' \subseteq {g \in Films : films'[g] # Absent}
    BY <1>0, <2>1, <2>2 DEF Library
  <2> QED
    BY <1>0, <1>1, <2>1, <2>2, <2>3, AnsweredCall, AnsweredTyped DEF Same
<1>6. CASE ServeCreate(s)
  <2>1. calls[s].op = "create" /\ calls[s].film \in Films
    BY <1>0, <1>6, CallFields DEF ServeCreate, Sent, OnFilms
  <2>2. PICK m \in Marks, e \in unused \cap Entries :
          /\ films' = [films EXCEPT ![calls[s].film] = [marks |-> m, rating_history |-> Only(e)]]
          /\ unused' = unused \ {calls[s].film, e}
    BY <1>6 DEF ServeCreate
  <2>3. Answered(s, calls[s]) /\ due' = due /\ settings' = settings
    BY <1>6 DEF ServeCreate
  <2>4. [marks |-> m, rating_history |-> Only(e)] \in Film
    BY DEF Film, Only
  <2>5. films' \in Library /\ due' \subseteq {g \in Films : films'[g] # Absent}
    BY <1>0, <2>1, <2>2, <2>3, <2>4, ClientAssumption DEF Library
  <2> QED
    BY <1>0, <1>1, <2>1, <2>2, <2>3, <2>5, AnsweredCall, AnsweredTyped DEF Same
<1>7. CASE ServeSave(s)
  <2>1. calls[s].op = "save"
    BY <1>7 DEF ServeSave, Sent
  <2>2. /\ settings' = calls[s].next /\ calls[s].next \in Settings /\ Answered(s, calls[s])
        /\ films' = films /\ due' = due /\ unused' = unused
    BY <1>7 DEF ServeSave
  <2> QED
    BY <1>0, <1>1, <2>1, <2>2, AnsweredCall, AnsweredTyped DEF Same
<1> QED
  BY <1>2, <1>3, <1>4, <1>5, <1>6, <1>7 DEF Serve

\* What an answer and a failure leave of the resources.
LEMMA AnswersKeepTypes ==
  ASSUME Typed, NEW s \in Slots, calls[s] # NoCall, calls[s].pc = "done"
  PROVE  StoreTyped(Answers(calls[s]))
<1> DEFINE c == calls[s]
<1>0. /\ StoreTyped(store) /\ store["films"].value \in Library /\ c \in Call
      /\ c.op = "save" => c.next \in Settings
      /\ c.op \in OnFilms => c.film \in Films
      /\ c.op \in OnFilms \cup {"save"}
  BY TypeParts, CallFields DEF Typed
<1>1. CASE c.op = "update"
  <2>1. Answers(c) = updateFilm(store, c.film, c.answer)
    BY <1>1 DEF Answers
  <2> QED
    BY <1>0, <1>1, <2>1, UpdateTyped DEF Typed, AnswersTyped, OnFilms
<1>2. CASE c.op = "addRating"
  <2> DEFINE film == [Shown(c) EXCEPT !.rating_history[c.answer] = @ + 1]
  <2>1. Answers(c) = updateFilm(store, c.film, film)
    BY <1>2 DEF Answers
  <2>2. store["films"].value[c.film] # Absent => Shown(c) \in Film
    BY <1>0, <1>2 DEF Library, Shown, OnFilms
  <2>3. c.answer \in Entries
    BY <1>2 DEF Typed, AnswersTyped
  <2>4. store["films"].value[c.film] # Absent => film \in Film
    BY <2>2, <2>3 DEF Film
  <2> HIDE DEF film
  <2> QED
    BY <1>0, <1>2, <2>1, <2>4, UpdateTyped DEF OnFilms
<1>3. CASE c.op = "removeRating" /\ ~c.filmDeleted
  <2> DEFINE film == [Shown(c) EXCEPT !.rating_history[c.entry] = 0]
  <2>1. Answers(c) = updateFilm(store, c.film, film)
    BY <1>3 DEF Answers
  <2>2. store["films"].value[c.film] # Absent => Shown(c) \in Film
    BY <1>0, <1>3 DEF Library, Shown, OnFilms
  <2>3. store["films"].value[c.film] # Absent => film \in Film
    BY <2>2 DEF Film
  <2> HIDE DEF film
  <2> QED
    BY <1>0, <1>3, <2>1, <2>3, UpdateTyped DEF OnFilms
<1>4. CASE c.op = "create"
  <2>1. Answers(c) = Reloaded(store, "films")
    BY <1>4 DEF Answers
  <2> QED
    BY <1>0, <2>1, ReloadingTyped DEF Resources
<1>5. CASE c.op = "save"
  <2>1. Answers(c) = WithLocal(store, "settings", c.next)
    BY <1>5 DEF Answers
  <2> QED
    BY <1>0, <1>5, <2>1, LocalTyped, PerResource DEF Resources
<1>6. CASE c.op = "remove" \/ (c.op = "removeRating" /\ c.filmDeleted)
  <2>1. Answers(c) = removeFilmLocally(store, c.film)
    BY <1>6 DEF Answers
  <2> QED
    BY <1>0, <1>6, <2>1, RemoveTyped DEF OnFilms
<1> QED
  BY <1>0, <1>1, <1>2, <1>3, <1>4, <1>5, <1>6 DEF OnFilms

LEMMA RollbackKeepsTypes ==
  ASSUME Typed, NEW s \in Slots, calls[s] # NoCall
  PROVE  StoreTyped(RolledBack(calls[s]))
<1> DEFINE c == calls[s]
<1>0. /\ StoreTyped(store) /\ store["films"].value \in Library /\ c \in Call
      /\ c.op = "save" => c.previous \in Settings
      /\ c.op = "update" => c.film \in Films /\ c.previous \in Marks
  BY TypeParts, CallFields DEF Typed, OnFilms
<1>1. CASE c.op = "update"
  <2> DEFINE film == [Shown(c) EXCEPT !.marks = c.previous]
  <2>1. RolledBack(c) = updateFilm(store, c.film, film)
    BY <1>1 DEF RolledBack
  <2>2. store["films"].value[c.film] # Absent => Shown(c) \in Film
    BY <1>0, <1>1 DEF Library, Shown
  <2>3. store["films"].value[c.film] # Absent => film \in Film
    BY <1>0, <1>1, <2>2 DEF Film
  <2> HIDE DEF film
  <2> QED
    BY <1>0, <1>1, <2>1, <2>3, UpdateTyped
<1>2. CASE c.op = "save"
  <2>1. RolledBack(c) = WithLocal(store, "settings", c.previous)
    BY <1>2 DEF RolledBack
  <2> QED
    BY <1>0, <1>2, <2>1, LocalTyped, PerResource DEF Resources
<1>3. CASE c.op \notin {"update", "save"}
  <2>1. RolledBack(c) = store
    BY <1>3 DEF RolledBack
  <2> QED
    BY <1>0, <2>1
<1> QED
  BY <1>1, <1>2, <1>3

LEMMA EndTyped ==
  ASSUME Typed, NEW s \in Slots, Succeed(s) \/ Fail(s)
  PROVE  Typed'
<1>0. NoCall \in Call /\ NoCall.op = "none"
  BY DEF Call, NoCall
<1>1. /\ calls' = [calls EXCEPT ![s] = NoCall] /\ calls[s] # NoCall
      /\ films' = films /\ due' = due /\ settings' = settings /\ unused' = unused
  BY DEF Succeed, Fail, server
<1>2. calls' \in [Slots -> Call] /\ AnswersTyped'
  BY <1>0, <1>1 DEF Typed, TypeOK, AnswersTyped
<1>3. calls[s] \in Call /\ Touches(calls[s].op) \subseteq Resources
      /\ (calls[s].op \in OnFilms => calls[s].film \in Films)
  BY TypeParts, Touched, CallFields DEF Typed, Resources
<1>4. ASSUME Succeed(s) PROVE /\ StoreTyped(store') /\ gone' \subseteq Films
                              /\ rested' \subseteq Films /\ crossed' \subseteq Resources
  <2>1. StoreTyped(Answers(calls[s]))
    BY <1>4, AnswersKeepTypes DEF Succeed
  <2>2. store["due"].value \ {calls[s].film} \in Values["due"]
    BY TypeParts, PerResource DEF Typed
  <2>3. StoreTyped(store')
    BY <1>4, <2>1, <2>2, LocalTyped DEF Succeed, Resources
  <2>4. gone' \subseteq Films /\ rested' \subseteq Films
    BY <1>3, <1>4 DEF Succeed, Deletes, LeavesGrid, OnFilms, Typed, TypeOK
  <2>5. crossed' \subseteq Resources
    BY <1>4 DEF Succeed, Resources, Typed, TypeOK
  <2> QED
    BY <2>3, <2>4, <2>5
<1>5. ASSUME Fail(s) PROVE /\ StoreTyped(store') /\ gone' \subseteq Films
                           /\ rested' \subseteq Films /\ crossed' \subseteq Resources
  BY <1>3, <1>5, RollbackKeepsTypes DEF Fail, Typed, TypeOK
<1> QED
  BY <1>1, <1>2, <1>4, <1>5 DEF Typed, TypeOK, StoreTyped

LEMMA LoadTyped ==
  ASSUME Typed, NEW R \in Resources, Reload(R) \/ ServeLoad(R) \/ Loaded(R) \/ LoadFails(R)
  PROVE  Typed'
<1>0. StoreTyped(store) /\ store[R] \in Resource(R)
  BY TypeParts DEF Typed
<1>1. CASE Reload(R)
  BY <1>0, <1>1, ReloadingTyped DEF Reload, Typed, TypeOK, AnswersTyped, StoreTyped
<1>2. CASE ServeLoad(R)
  <2> DEFINE brings == CASE R = "films" -> films [] R = "due" -> due [] OTHER -> settings
  <2>1. brings \in Values[R]
    BY PerResource DEF Typed, TypeOK, Resources
  <2>2. store' = [store EXCEPT ![R] = [@ EXCEPT !.load = "served", !.brings = brings]]
    BY <1>2 DEF ServeLoad
  <2> HIDE DEF brings
  <2>3. [store[R] EXCEPT !.load = "served", !.brings = brings] \in Resource(R)
    BY <1>0, <2>1 DEF Resource
  <2>4. StoreTyped(store')
    BY <1>0, <2>2, <2>3 DEF StoreTyped
  <2> QED
    BY <1>2, <2>4 DEF ServeLoad, Typed, TypeOK, AnswersTyped, StoreTyped
<1>3. CASE Loaded(R)
  <2>1. [store[R] EXCEPT !.status = "resolved", !.value = store[R].brings, !.load = "none",
                         !.brings = Default[R], !.clean = FALSE] \in Resource(R)
    BY <1>0, DefaultsTyped DEF Resource
  <2>2. StoreTyped(store')
    BY <1>0, <1>3, <2>1 DEF StoreTyped, Loaded
  <2> QED
    BY <1>3, <2>2 DEF Loaded, Typed, TypeOK, AnswersTyped, StoreTyped
<1>4. CASE LoadFails(R)
  <2> DEFINE failed == [store[R] EXCEPT !.status = "error", !.load = "none", !.brings = Default[R],
                                        !.clean = FALSE, !.value = IF R = "settings" THEN Default[R]
                                                                   ELSE store[R].value]
  <2>1. failed \in Resource(R)
    BY <1>0, DefaultsTyped DEF Resource
  <2>2. store' = [store EXCEPT ![R] = failed]
    BY <1>4 DEF LoadFails
  <2> HIDE DEF failed
  <2>3. StoreTyped(store')
    BY <1>0, <2>1, <2>2 DEF StoreTyped
  <2> QED
    BY <1>4, <2>3 DEF LoadFails, Typed, TypeOK, AnswersTyped, StoreTyped
<1> QED
  BY <1>1, <1>2, <1>3, <1>4

LEMMA TypeInit == Init => Typed
<1> SUFFICES ASSUME Init PROVE Typed
  OBVIOUS
<1>1. films \in Library /\ unused \subseteq Films \cup Entries
  <2>1. \A m \in Marks, e \in Entries : [marks |-> m, rating_history |-> Only(e)] \in Film
    BY DEF Film, Only
  <2> QED
    BY <2>1 DEF Init, Library, NoFilms
<1>2. StoreTyped(store)
  <2>1. \A R \in Resources : Fresh(R) \in Resource(R)
    BY DefaultsTyped DEF Fresh, Resource
  <2> QED
    BY <2>1 DEF Init, StoreTyped
<1>3. calls \in [Slots -> Call] /\ AnswersTyped /\ settings \in Settings
  BY DEF Init, Call, NoCall, AnswersTyped, SettingsOff, Settings
<1> QED
  BY <1>1, <1>2, <1>3 DEF Init, Typed, TypeOK, StoreTyped, Resources

LEMMA TypeStep ==
  ASSUME Typed, [Next]_vars
  PROVE  Typed'
<1>1. ASSUME NEW f \in Films, FallDue(f) PROVE Typed'
  BY <1>1 DEF FallDue, Typed, TypeOK, AnswersTyped
<1>2. CASE UNCHANGED vars
  BY <1>2 DEF vars, Typed, TypeOK, AnswersTyped
<1> QED
  BY <1>1, <1>2, LoadTyped, WriteTyped, ServeTyped, EndTyped DEF Next

\* The tab's copies, its writes and the server's tables keep their types: every film due is a
\* stored one, and no answer or rollback leaves a copy malformed.
THEOREM TypeCorrect == Spec => []TypeOK
<1>1. Typed => TypeOK
  BY DEF Typed
<1> QED
  BY <1>1, TypeInit, TypeStep, PTL DEF Spec

-----------------------------------------------------------------------------
(* What the server does with a call, and how it answers it *)

Creates(f) ==
    \E m \in Marks, e \in unused \cap Entries :
      /\ unused' = unused \ {f, e}
      /\ films' = [films EXCEPT ![f] = [marks |-> m, rating_history |-> Only(e)]]

Answering(s, d) ==
    LET c == calls[s]
        f == c.film
    IN  /\ c \in Call /\ c # NoCall /\ c.pc = "sent"
        /\ d \in Call /\ d # NoCall /\ d.op = c.op /\ d.pc = "done"
        /\ calls' = [calls EXCEPT ![s] = d]
        /\ store' = store /\ gone' = gone /\ rested' = rested /\ crossed' = crossed
        /\ due' \subseteq due
        /\ c.op = "save" =>
             films' = films /\ unused' = unused /\ settings' = c.next /\ d.next = c.next
        /\ c.op \in OnFilms => settings' = settings /\ f \in Films /\ d.film = f
        /\ c.op \in {"update", "addRating", "removeRating", "remove"} => films[f] \in Film
        /\ c.op = "update" =>
             /\ films' = [films EXCEPT ![f] = [films[f] EXCEPT !.marks = c.marks]]
             /\ d.answer = [films[f] EXCEPT !.marks = c.marks]
        /\ c.op = "addRating" =>
             /\ d.answer \in unused \cap Entries /\ unused' = unused \ {d.answer}
             /\ films' = [films EXCEPT ![f] = [films[f] EXCEPT !.rating_history[d.answer] = 1]]
        /\ c.op = "removeRating" =>
             /\ d.entry = c.entry /\ c.entry \in Entries
             /\ films' = [films EXCEPT ![f] = IF d.filmDeleted THEN Absent
                                              ELSE [films[f] EXCEPT !.rating_history[c.entry] = 0]]
        /\ c.op = "remove" => films' = [films EXCEPT ![f] = Absent]
        /\ c.op = "create" => Creates(f)
        /\ c.op \in {"update", "removeRating", "remove"} => unused' = unused

LEMMA ServeAnswers ==
  ASSUME Typed, NEW s \in Slots, Serve(s)
  PROVE  \E d : Answering(s, d)
<1> DEFINE c == calls[s]
           f == c.film
<1>0. c \in Call /\ films \in Library
  BY DEF Typed, TypeOK
<1>1. CASE ServeUpdate(s)
  <2> DEFINE film == [films[f] EXCEPT !.marks = c.marks]
             d == Done([c EXCEPT !.answer = film])
  <2>1. /\ c.op = "update" /\ c.pc = "sent" /\ f \in Films /\ c.marks \in Marks
        /\ films[f] \in Film
    BY <1>0, <1>1, CallFields DEF ServeUpdate, Sent, Stored, Library, OnFilms
  <2>2. film \in Film
    BY <2>1 DEF Film
  <2>3. Same(d, c) /\ d.answer = film
    BY <1>0, <2>1, <2>2, AnsweredCall
  <2>4. /\ calls' = [calls EXCEPT ![s] = d] /\ films' = [films EXCEPT ![f] = film]
        /\ due' = due /\ settings' = settings /\ unused' = unused
        /\ store' = store /\ gone' = gone /\ rested' = rested /\ crossed' = crossed
    BY <1>1 DEF ServeUpdate, Answered, Done
  <2> HIDE DEF d
  <2>5. Answering(s, d)
    BY <1>0, <2>1, <2>3, <2>4 DEF Answering, Same, NoCall, OnFilms
  <2> QED
    BY <2>5
<1>2. CASE ServeAddRating(s)
  <2>1. /\ c.op = "addRating" /\ c.pc = "sent" /\ f \in Films /\ films[f] \in Film
    BY <1>0, <1>2, CallFields DEF ServeAddRating, Sent, Stored, Library, OnFilms
  <2>2. PICK e \in unused \cap Entries :
          /\ films' = [films EXCEPT ![f].rating_history[e] = 1]
          /\ unused' = unused \ {e}
          /\ Answered(s, [c EXCEPT !.answer = e])
    BY <1>2 DEF ServeAddRating
  <2> DEFINE d == Done([c EXCEPT !.answer = e])
  <2>3. Same(d, c) /\ d.answer = e
    BY <1>0, <2>1, AnsweredCall
  <2>4. /\ calls' = [calls EXCEPT ![s] = d]
        /\ films' = [films EXCEPT ![f] = [films[f] EXCEPT !.rating_history[e] = 1]]
    BY <2>2 DEF Answered, Done
  <2>5. store' = store /\ gone' = gone /\ rested' = rested /\ crossed' = crossed
    BY <2>2 DEF Answered
  <2>6. due' \subseteq due /\ settings' = settings
    BY <1>2 DEF ServeAddRating, OffDue
  <2> HIDE DEF d
  <2>7. Answering(s, d)
    BY <1>0, <2>1, <2>2, <2>3, <2>4, <2>5, <2>6 DEF Answering, Same, NoCall, OnFilms
  <2> QED
    BY <2>7
<1>3. CASE ServeRemoveRating(s)
  <2> DEFINE last == films[f].rating_history = Only(c.entry)
             d == Done([c EXCEPT !.filmDeleted = last])
  <2>1. /\ c.op = "removeRating" /\ c.pc = "sent" /\ f \in Films /\ films[f] \in Film
        /\ c.entry \in Entries /\ last \in BOOLEAN
    BY <1>0, <1>3, CallFields DEF ServeRemoveRating, Sent, Stored, Library, OnFilms
  <2>2. /\ films' = [films EXCEPT ![f] = IF last THEN Absent
                                         ELSE [films[f] EXCEPT !.rating_history[c.entry] = 0]]
        /\ due' = IF last THEN due \ {f} ELSE due
        /\ Answered(s, [c EXCEPT !.filmDeleted = last])
        /\ settings' = settings /\ unused' = unused
    BY <1>3 DEF ServeRemoveRating, OffDue
  <2>3. Same(d, c) /\ d.filmDeleted = last /\ d.entry = c.entry
    BY <1>0, <2>1, AnsweredCall
  <2>4. calls' = [calls EXCEPT ![s] = d]
    BY <2>2 DEF Answered, Done
  <2>5. store' = store /\ gone' = gone /\ rested' = rested /\ crossed' = crossed
    BY <2>2 DEF Answered
  <2> HIDE DEF d, last
  <2>6. Answering(s, d)
    BY <1>0, <2>1, <2>2, <2>3, <2>4, <2>5 DEF Answering, Same, NoCall, OnFilms
  <2> QED
    BY <2>6
<1>4. CASE ServeRemove(s)
  <2>1. /\ c.op = "remove" /\ c.pc = "sent" /\ f \in Films /\ films[f] \in Film
    BY <1>0, <1>4, CallFields DEF ServeRemove, Sent, Stored, Library, OnFilms
  <2>2. Same(Done(c), c) /\ calls' = [calls EXCEPT ![s] = Done(c)]
    BY <1>0, <1>4, <2>1, AnsweredCall DEF ServeRemove, Answered, Done
  <2>3. /\ films' = [films EXCEPT ![f] = Absent] /\ due' \subseteq due
        /\ settings' = settings /\ unused' = unused
        /\ store' = store /\ gone' = gone /\ rested' = rested /\ crossed' = crossed
    BY <1>4 DEF ServeRemove, Answered, OffDue
  <2>4. Answering(s, Done(c))
    BY <1>0, <2>1, <2>2, <2>3 DEF Answering, Same, NoCall, OnFilms
  <2> QED
    BY <2>4
<1>5. CASE ServeCreate(s)
  <2>1. c.op = "create" /\ c.pc = "sent" /\ f \in Films
    BY <1>0, <1>5, CallFields DEF ServeCreate, Sent, OnFilms
  <2>2. Same(Done(c), c) /\ calls' = [calls EXCEPT ![s] = Done(c)]
    BY <1>0, <1>5, <2>1, AnsweredCall DEF ServeCreate, Answered, Done
  <2>3. /\ due' = due /\ settings' = settings
        /\ store' = store /\ gone' = gone /\ rested' = rested /\ crossed' = crossed
    BY <1>5 DEF ServeCreate, Answered
  <2>4. Creates(f)
    BY <1>5 DEF ServeCreate, Creates
  <2>5. Answering(s, Done(c))
    BY <1>0, <2>1, <2>2, <2>3, <2>4 DEF Answering, Same, NoCall, OnFilms
  <2> QED
    BY <2>5
<1>6. CASE ServeSave(s)
  <2>1. c.op = "save" /\ c.pc = "sent"
    BY <1>6 DEF ServeSave, Sent
  <2>2. /\ Done(c) \in Call /\ Done(c).op = "save" /\ Done(c).pc = "done"
        /\ Done(c).next = c.next /\ calls' = [calls EXCEPT ![s] = Done(c)]
    BY <1>0, <1>6, <2>1, AnsweredCall DEF ServeSave, Answered, Done
  <2>3. /\ films' = films /\ due' = due /\ unused' = unused /\ settings' = c.next
        /\ store' = store /\ gone' = gone /\ rested' = rested /\ crossed' = crossed
    BY <1>6 DEF ServeSave, Answered
  <2>4. Answering(s, Done(c))
    BY <1>0, <2>1, <2>2, <2>3 DEF Answering, NoCall, OnFilms
  <2> QED
    BY <2>4
<1> QED
  BY <1>1, <1>2, <1>3, <1>4, <1>5, <1>6 DEF Serve

-----------------------------------------------------------------------------
(* What an answer and a failure leave *)

\* The copy v of the library with another record for f, if it lists f.
Updated(v, f, film) == IF v[f] = Absent THEN v ELSE [v EXCEPT ![f] = film]

LEMMA UpdateSets ==
  ASSUME NEW st, StoreTyped(st), NEW f, NEW film
  PROVE  /\ updateFilm(st, f, film)["films"] = Local("films", Updated(st["films"].value, f, film))
         /\ updateFilm(st, f, film)["due"] = st["due"]
         /\ updateFilm(st, f, film)["settings"] = st["settings"]
<1> DEFINE v == Updated(st["films"].value, f, film)
<1>1. updateFilm(st, f, film) = WithLocal(st, "films", v)
  BY DEF updateFilm, Updated
<1> HIDE DEF v
<1>2. /\ WithLocal(st, "films", v)["films"] = Local("films", v)
      /\ WithLocal(st, "films", v)["due"] = st["due"]
      /\ WithLocal(st, "films", v)["settings"] = st["settings"]
  BY SetLocally DEF Resources
<1> QED
  BY <1>1, <1>2 DEF v

\* The record an answered update, or change of the history, puts in the place of the film's.
Replacement(c, film) ==
    CASE c.op = "update" -> c.answer
      [] c.op = "addRating" -> [film EXCEPT !.rating_history[c.answer] = film.rating_history[c.answer] + 1]
      [] OTHER -> [film EXCEPT !.rating_history[c.entry] = 0]

Succeeding(s) ==
    LET c == calls[s]
        f == c.film
        v == store["films"].value
    IN  /\ c \in Call /\ c # NoCall /\ c.pc = "done" /\ calls' = [calls EXCEPT ![s] = NoCall]
        /\ films' = films /\ settings' = settings /\ unused' = unused /\ due' = due
        /\ c.op \in OnFilms => f \in Films
        /\ c.op \in OnFilms \ {"create"} =>
             store'["films"] = Local("films", IF Deletes(c) THEN [v EXCEPT ![f] = Absent]
                                              ELSE Updated(v, f, Replacement(c, v[f])))
        /\ c.op = "create" =>
             /\ store'["films"] = store["films"]
                \/ (store["films"].status # "loading" /\ store'["films"] = Reloading(store, "films"))
             /\ crossed' = crossed \cup {"films"}
        /\ c.op # "create" => crossed' = crossed
        /\ c.op = "save" => /\ store'["films"] = store["films"]
                            /\ store'["settings"] = Local("settings", c.next)
        /\ c.op # "save" => store'["settings"] = store["settings"]
        /\ gone' = IF Deletes(c) THEN gone \cup {f} ELSE gone
        /\ Deletes(c) => c.op \in OnFilms
        /\ \/ /\ store'["due"] = Local("due", store["due"].value \ {f})
              /\ rested' = rested \cup ({f} \ due)
           \/ store'["due"] = store["due"] /\ rested' = rested

Failing(s) ==
    LET c == calls[s]
        f == c.film
        v == store["films"].value
    IN  /\ c \in Call /\ c # NoCall /\ calls' = [calls EXCEPT ![s] = NoCall]
        /\ films' = films /\ settings' = settings /\ unused' = unused /\ due' = due
        /\ gone' = gone /\ rested' = rested /\ store'["due"] = store["due"]
        /\ c.op \in OnFilms => f \in Films
        /\ c.op = "update" =>
             store'["films"] = Local("films", Updated(v, f, [v[f] EXCEPT !.marks = c.previous]))
        /\ c.op # "update" => store'["films"] = store["films"]
        /\ c.op = "save" => store'["settings"] = Local("settings", c.previous)
        /\ c.op # "save" => store'["settings"] = store["settings"]
        /\ crossed' = IF c.pc = "done" THEN crossed \cup Touches(c.op) ELSE crossed

LEMMA FailFails ==
  ASSUME Typed, NEW s \in Slots, Fail(s)
  PROVE  Failing(s)
<1> DEFINE c == calls[s]
           f == c.film
<1>0. StoreTyped(store) /\ c \in Call /\ c # NoCall /\ (c.op \in OnFilms => f \in Films)
  BY TypeParts, CallFields DEF Typed, Fail
<1>1. /\ calls' = [calls EXCEPT ![s] = NoCall] /\ store' = RolledBack(c)
      /\ films' = films /\ settings' = settings /\ unused' = unused /\ due' = due
      /\ gone' = gone /\ rested' = rested
      /\ crossed' = IF c.pc = "done" THEN crossed \cup Touches(c.op) ELSE crossed
  BY DEF Fail
<1>2. CASE c.op = "update"
  <2>1. store' = updateFilm(store, f, [store["films"].value[f] EXCEPT !.marks = c.previous])
    BY <1>1, <1>2 DEF RolledBack, Shown
  <2>2. /\ store'["films"] = Local("films", Updated(store["films"].value, f,
                               [store["films"].value[f] EXCEPT !.marks = c.previous]))
        /\ store'["due"] = store["due"] /\ store'["settings"] = store["settings"]
    BY <1>0, <2>1, UpdateSets
  <2> QED
    BY <1>0, <1>1, <1>2, <2>2 DEF Failing
<1>3. CASE c.op = "save"
  <2>1. store' = WithLocal(store, "settings", c.previous)
    BY <1>1, <1>3 DEF RolledBack
  <2>2. /\ store'["settings"] = Local("settings", c.previous)
        /\ store'["films"] = store["films"] /\ store'["due"] = store["due"]
    BY <1>0, <2>1, SetLocally DEF Resources
  <2> QED
    BY <1>0, <1>1, <1>3, <2>2 DEF Failing
<1>4. CASE c.op \notin {"update", "save"}
  <2>1. store' = store
    BY <1>1, <1>4 DEF RolledBack
  <2> QED
    BY <1>0, <1>1, <1>4, <2>1 DEF Failing
<1> QED
  BY <1>2, <1>3, <1>4

LEMMA SuccessAnswers ==
  ASSUME Typed, NEW s \in Slots, calls[s] # NoCall
  PROVE  LET c == calls[s]
             f == c.film
             v == store["films"].value
             a == Answers(c)
         IN  /\ c.op \in OnFilms \ {"create"} =>
                  /\ a["films"] = Local("films", IF Deletes(c) THEN [v EXCEPT ![f] = Absent]
                                                 ELSE Updated(v, f, Replacement(c, v[f])))
                  /\ a["due"] = store["due"] /\ a["settings"] = store["settings"]
             /\ c.op = "create" =>
                  /\ a["films"] = store["films"]
                     \/ (store["films"].status # "loading" /\ a["films"] = Reloading(store, "films"))
                  /\ a["due"] = store["due"] /\ a["settings"] = store["settings"]
             /\ c.op = "save" =>
                  /\ a["films"] = store["films"] /\ a["due"] = store["due"]
                  /\ a["settings"] = Local("settings", c.next)
<1> DEFINE c == calls[s]
           f == c.film
           v == store["films"].value
           a == Answers(c)
<1>0. StoreTyped(store) /\ c \in Call /\ c # NoCall
  BY TypeParts DEF Typed
<1>1. CASE c.op = "update"
  <2>1. a = updateFilm(store, f, Replacement(c, v[f])) /\ ~Deletes(c)
    BY <1>1 DEF Answers, Deletes, Replacement
  <2> QED
    BY <1>0, <1>1, <2>1, UpdateSets
<1>2. CASE c.op = "addRating"
  <2>1. a = updateFilm(store, f, Replacement(c, v[f])) /\ ~Deletes(c)
    BY <1>2 DEF Answers, Deletes, Replacement, Shown
  <2> QED
    BY <1>0, <1>2, <2>1, UpdateSets
<1>3. CASE c.op = "removeRating" /\ ~c.filmDeleted
  <2>1. a = updateFilm(store, f, Replacement(c, v[f])) /\ ~Deletes(c)
    BY <1>3 DEF Answers, Deletes, Replacement, Shown
  <2> QED
    BY <1>0, <1>3, <2>1, UpdateSets
<1>4. CASE c.op = "remove" \/ (c.op = "removeRating" /\ c.filmDeleted)
  <2>1. a = WithLocal(store, "films", [v EXCEPT ![f] = Absent]) /\ Deletes(c)
    BY <1>4 DEF Answers, Deletes, removeFilmLocally
  <2>2. /\ a["films"] = Local("films", [v EXCEPT ![f] = Absent])
        /\ a["due"] = store["due"] /\ a["settings"] = store["settings"]
    BY <1>0, <2>1, SetLocally DEF Resources
  <2> QED
    BY <1>4, <2>1, <2>2
<1>5. CASE c.op = "create"
  <2>1. a = Reloaded(store, "films")
    BY <1>5 DEF Answers
  <2> QED
    BY <1>0, <1>5, <2>1, SetReloading DEF Resources
<1>6. CASE c.op = "save"
  <2>1. a = WithLocal(store, "settings", c.next)
    BY <1>6 DEF Answers
  <2>2. /\ a["settings"] = Local("settings", c.next)
        /\ a["films"] = store["films"] /\ a["due"] = store["due"]
    BY <1>0, <2>1, SetLocally DEF Resources
  <2> QED
    BY <1>6, <2>2 DEF OnFilms
<1>7. c.op \in OnFilms \cup {"save"}
  BY <1>0, CallFields
<1> QED
  BY <1>1, <1>2, <1>3, <1>4, <1>5, <1>6, <1>7 DEF OnFilms

LEMMA SuccessSucceeds ==
  ASSUME Typed, NEW s \in Slots, Succeed(s)
  PROVE  Succeeding(s)
<1> DEFINE c == calls[s]
           f == c.film
           a == Answers(c)
<1>0. StoreTyped(store) /\ c \in Call /\ (c.op \in OnFilms => f \in Films)
  BY TypeParts, CallFields DEF Typed
<1>1. /\ c # NoCall /\ c.pc = "done" /\ calls' = [calls EXCEPT ![s] = NoCall]
      /\ films' = films /\ settings' = settings /\ unused' = unused /\ due' = due
      /\ gone' = IF Deletes(c) THEN gone \cup {f} ELSE gone
      /\ crossed' = IF c.op = "create" THEN crossed \cup {"films"} ELSE crossed
      /\ store' = IF LeavesGrid(c) THEN WithLocal(a, "due", store["due"].value \ {f}) ELSE a
      /\ rested' = IF LeavesGrid(c) THEN rested \cup ({f} \ due) ELSE rested
  BY DEF Succeed, server
<1>2. StoreTyped(a)
  BY <1>1, AnswersKeepTypes
<1>3. a["due"] = store["due"]
  BY <1>0, <1>1, SuccessAnswers, CallFields
<1>4. /\ store'["films"] = a["films"] /\ store'["settings"] = a["settings"]
      /\ \/ /\ store'["due"] = Local("due", store["due"].value \ {f})
            /\ rested' = rested \cup ({f} \ due)
         \/ store'["due"] = store["due"] /\ rested' = rested
  BY <1>1, <1>2, <1>3, SetLocally DEF Resources
<1>5. Deletes(c) => c.op \in OnFilms
  BY DEF Deletes, OnFilms
<1> HIDE DEF a
<1>6. c.op = "save" => c.op \notin OnFilms
  BY DEF OnFilms
<1>7. /\ c.op \in OnFilms \ {"create"} =>
             store'["films"] = Local("films", IF Deletes(c) THEN [store["films"].value EXCEPT ![f] = Absent]
                                              ELSE Updated(store["films"].value, f,
                                                           Replacement(c, store["films"].value[f])))
      /\ c.op = "create" =>
             store'["films"] = store["films"]
             \/ (store["films"].status # "loading" /\ store'["films"] = Reloading(store, "films"))
      /\ c.op = "save" => /\ store'["films"] = store["films"]
                          /\ store'["settings"] = Local("settings", c.next)
      /\ c.op # "save" => store'["settings"] = store["settings"]
  BY <1>0, <1>1, <1>4, SuccessAnswers, CallFields DEF a, OnFilms
<1> QED
  BY <1>0, <1>1, <1>4, <1>5, <1>7 DEF Succeeding

-----------------------------------------------------------------------------
(* Ids *)

LEMMA IdsStep ==
  ASSUME Typed, IdsInv, [Next]_vars
  PROVE  IdsInv'
<1>0. /\ films \in Library /\ \A t \in Slots : calls[t] \in Call
      /\ calls \in [Slots -> Call]
  BY DEF Typed, TypeOK
<1>1. ASSUME NEW s \in Slots, Write(s) PROVE IdsInv'
  <2>1. PICK c, st : Asking(s, c, st)
    BY <1>1, WriteAsks
  <2>2. /\ calls[s] = NoCall /\ calls' = [calls EXCEPT ![s] = c]
        /\ films' = films /\ unused' = unused
    BY <2>1 DEF Asking, Begin
  <2>3. c.op = "create" => /\ c.film \in unused
                           /\ \A t \in Slots : calls[t].op = "create" => calls[t] = NoCall
    BY <2>1 DEF Asking, Asks
  <2>4. NoCall.op = "none"
    BY DEF NoCall
  <2> QED
    BY <1>0, <2>2, <2>3, <2>4 DEF IdsInv, Sent
<1>2. ASSUME NEW s \in Slots, Serve(s) PROVE IdsInv'
  <2>1. PICK d : Answering(s, d)
    BY <1>2, ServeAnswers
  <2> DEFINE c == calls[s]
             f == c.film
  <2>2. /\ calls' = [calls EXCEPT ![s] = d] /\ d.op = c.op /\ d.pc = "done"
        /\ c \in Call /\ c # NoCall /\ c.pc = "sent" /\ (c.op \in OnFilms => f \in Films)
    BY <2>1 DEF Answering
  <2>3. \A t \in Slots : Sent(t, "create")' => t # s /\ Sent(t, "create") /\ calls'[t] = calls[t]
    BY <1>0, <2>2 DEF Sent
  <2>4. \A t, u \in Slots : calls'[t].op = "create" /\ calls'[u].op = "create" => t = u
    BY <1>0, <2>2 DEF IdsInv
  <2>5. ASSUME films' \in [Films -> Film \cup {Absent}],
               \A g \in Films : films[g] = Absent => films'[g] = Absent,
               \A e \in (unused \cap Entries), g \in Films :
                 e \in unused' /\ films'[g] # Absent => films'[g].rating_history[e] = 0,
               unused' \subseteq unused, unused \ unused' \subseteq Entries
        PROVE  IdsInv'
    <3>1. \A t \in Slots : Sent(t, "create")' => calls'[t].film \in unused'
      <4> SUFFICES ASSUME NEW t \in Slots, Sent(t, "create")' PROVE calls'[t].film \in unused'
        OBVIOUS
      <4>1. calls[t].film \in unused /\ calls'[t] = calls[t] /\ calls[t].op = "create"
        BY <2>3 DEF IdsInv, Sent
      <4>2. calls[t].film \in Films
        BY <1>0, <4>1, CallFields DEF OnFilms
      <4> QED
        BY <2>5, <4>1, <4>2, ClientAssumption
    <3>2. \A g \in unused' \cap Films : films'[g] = Absent
      BY <2>5 DEF IdsInv
    <3>3. \A e \in unused' \cap Entries, g \in Films :
            films'[g] # Absent => films'[g].rating_history[e] = 0
      BY <2>5
    <3> QED
      BY <2>4, <3>1, <3>2, <3>3 DEF IdsInv
  <2>6. CASE c.op = "update"
    <3>1. /\ films' = [films EXCEPT ![f] = [films[f] EXCEPT !.marks = c.marks]]
          /\ films[f] \in Film /\ unused' = unused /\ f \in Films /\ c.marks \in Marks
      BY <2>1, <2>2, <2>6, CallFields DEF Answering, OnFilms
    <3>2. /\ [films[f] EXCEPT !.marks = c.marks] \in Film
          /\ [films[f] EXCEPT !.marks = c.marks].rating_history = films[f].rating_history
      BY <3>1 DEF Film
    <3> QED
      BY <1>0, <2>5, <3>1, <3>2, ClientAssumption DEF IdsInv, Library
  <2>7. CASE c.op = "addRating"
    <3>1. /\ films' = [films EXCEPT ![f] = [films[f] EXCEPT !.rating_history[d.answer] = 1]]
          /\ films[f] \in Film /\ f \in Films
          /\ d.answer \in unused \cap Entries /\ unused' = unused \ {d.answer}
      BY <2>1, <2>2, <2>7 DEF Answering, OnFilms
    <3> DEFINE film == [films[f] EXCEPT !.rating_history[d.answer] = 1]
    <3>2. /\ film \in Film
          /\ \A e \in Entries \ {d.answer} : film.rating_history[e] = films[f].rating_history[e]
      BY <3>1 DEF Film
    <3> HIDE DEF film
    <3>3. films' = [films EXCEPT ![f] = film]
      BY <3>1 DEF film
    <3>4. films' \in [Films -> Film \cup {Absent}]
      BY <1>0, <3>1, <3>2, <3>3 DEF Library
    <3>5. films[f] # Absent
      BY <3>1, ClientAssumption
    <3>6. /\ DOMAIN films = Films /\ films'[f] = film
          /\ \A g \in Films \ {f} : films'[g] = films[g]
      BY <1>0, <3>1, <3>3 DEF Library
    <3>7. \A g \in Films : films[g] = Absent => films'[g] = Absent
      BY <3>5, <3>6
    <3>8. \A e \in unused \cap Entries, g \in Films :
            e \in unused' /\ films'[g] # Absent => films'[g].rating_history[e] = 0
      <4>1. \A e \in unused \cap Entries, g \in Films :
              films[g] # Absent => films[g].rating_history[e] = 0
        BY DEF IdsInv
      <4>2. \A e \in (unused \cap Entries) \cap unused' : films'[f] # Absent =>
              films'[f].rating_history[e] = 0
        BY <3>1, <3>2, <3>5, <3>6, <4>1
      <4> QED
        BY <3>6, <4>1, <4>2
    <3> QED
      BY <2>5, <3>1, <3>4, <3>7, <3>8
  <2>8. CASE c.op = "removeRating"
    <3>1. /\ films' = [films EXCEPT ![f] = IF d.filmDeleted THEN Absent
                                           ELSE [films[f] EXCEPT !.rating_history[c.entry] = 0]]
          /\ films[f] \in Film /\ f \in Films /\ unused' = unused /\ c.entry \in Entries
      BY <2>1, <2>2, <2>8 DEF Answering, OnFilms
    <3> DEFINE film == [films[f] EXCEPT !.rating_history[c.entry] = 0]
    <3>2. /\ film \in Film
          /\ \A e \in Entries :
               films[f].rating_history[e] = 0 => film.rating_history[e] = 0
      BY <3>1 DEF Film
    <3> HIDE DEF film
    <3>3. films' = [films EXCEPT ![f] = IF d.filmDeleted THEN Absent ELSE film]
      BY <3>1 DEF film
    <3>4. films' \in [Films -> Film \cup {Absent}]
      BY <1>0, <3>1, <3>2, <3>3 DEF Library
    <3>5. films[f] # Absent
      BY <3>1, ClientAssumption
    <3>6. /\ DOMAIN films = Films /\ films'[f] = IF d.filmDeleted THEN Absent ELSE film
          /\ \A g \in Films \ {f} : films'[g] = films[g]
      BY <1>0, <3>1, <3>3 DEF Library
    <3>7. \A g \in Films : films[g] = Absent => films'[g] = Absent
      BY <3>5, <3>6
    <3>8. \A e \in unused \cap Entries, g \in Films :
            e \in unused' /\ films'[g] # Absent => films'[g].rating_history[e] = 0
      <4>1. \A e \in unused \cap Entries, g \in Films :
              films[g] # Absent => films[g].rating_history[e] = 0
        BY DEF IdsInv
      <4>2. \A e \in (unused \cap Entries) \cap unused' : films'[f] # Absent =>
              films'[f].rating_history[e] = 0
        BY <3>1, <3>2, <3>5, <3>6, <4>1
      <4> QED
        BY <3>6, <4>1, <4>2
    <3> QED
      BY <2>5, <3>1, <3>4, <3>7, <3>8
  <2>9. CASE c.op = "remove"
    <3>1. films' = [films EXCEPT ![f] = Absent] /\ f \in Films /\ unused' = unused
      BY <2>1, <2>2, <2>9 DEF Answering, OnFilms
    <3> QED
      BY <1>0, <2>5, <3>1 DEF IdsInv, Library
  <2>10. CASE c.op = "create"
    <3>1. f \in Films /\ Creates(f)
      BY <2>1, <2>2, <2>10 DEF Answering, OnFilms
    <3>2. PICK m \in Marks, e \in unused \cap Entries :
            /\ unused' = unused \ {f, e}
            /\ films' = [films EXCEPT ![f] = [marks |-> m, rating_history |-> Only(e)]]
      BY <3>1 DEF Creates
    <3>3. \A x \in Entries \ {e} : Only(e)[x] = 0
      BY DEF Only
    <3>4. \A t \in Slots : ~Sent(t, "create")'
      BY <2>2, <2>3, <2>10 DEF IdsInv, Sent
    <3>5. \A g \in unused' \cap Films : films'[g] = Absent
      BY <1>0, <3>1, <3>2 DEF IdsInv, Library
    <3>6. \A x \in unused' \cap Entries, g \in Films :
            films'[g] # Absent => films'[g].rating_history[x] = 0
      BY <1>0, <3>1, <3>2, <3>3 DEF IdsInv, Library
    <3> QED
      BY <2>4, <3>4, <3>5, <3>6 DEF IdsInv
  <2>11. CASE c.op = "save"
    <3>1. films' = films /\ unused' = unused
      BY <2>1, <2>11 DEF Answering
    <3> QED
      BY <1>0, <2>5, <3>1 DEF IdsInv, Library
  <2> QED
    BY <2>2, <2>6, <2>7, <2>8, <2>9, <2>10, <2>11, CallFields DEF OnFilms
<1>3. ASSUME NEW s \in Slots, Succeed(s) \/ Fail(s) PROVE IdsInv'
  <2>1. films' = films /\ unused' = unused /\ calls' = [calls EXCEPT ![s] = NoCall]
    BY <1>3 DEF Succeed, Fail, server
  <2>2. NoCall.op = "none"
    BY DEF NoCall
  <2> QED
    BY <1>0, <2>1, <2>2 DEF IdsInv, Sent
<1>4. CASE films' = films /\ unused' = unused /\ calls' = calls
  BY <1>4 DEF IdsInv, Sent
<1> QED
  BY <1>1, <1>2, <1>3, <1>4
     DEF Next, vars, Reload, ServeLoad, Loaded, LoadFails, FallDue

-----------------------------------------------------------------------------
(* What the steps of a load leave *)

Loading(R) ==
    LET old == store[R]
        new == store'[R]
    IN  /\ \A Q \in Resources \ {R} : store'[Q] = store[Q]
        /\ films' = films /\ settings' = settings /\ unused' = unused /\ due' = due
        /\ calls' = calls /\ gone' = gone /\ rested' = rested
        /\ \/ /\ old.status # "loading" /\ new = Reloading(store, R)
              /\ crossed' = IF R # "due" /\ (old.status = "error" \/ Writing(R))
                            THEN crossed \cup {R} ELSE crossed
           \/ /\ old.load = "sent" /\ new.load = "served"
              /\ new.brings = IF R = "due" THEN due ELSE Server(R)
              /\ new.status = old.status /\ new.value = old.value /\ new.clean = old.clean
              /\ crossed' = crossed
           \/ /\ old.load = "served" /\ new = Local(R, old.brings)
              /\ crossed' = IF old.clean THEN crossed \ {R} ELSE crossed
           \/ /\ old.load # "none" /\ new.load = "none" /\ new.status = "error" /\ new.clean = FALSE
              /\ new.brings = Default[R]
              /\ new.value = IF R = "settings" THEN Default[R] ELSE old.value
              /\ crossed' = IF R = "settings" THEN crossed \cup {R} ELSE crossed

LEMMA LoadLoads ==
  ASSUME Typed, NEW R \in Resources, Reload(R) \/ ServeLoad(R) \/ Loaded(R) \/ LoadFails(R)
  PROVE  Loading(R)
<1>0. StoreTyped(store) /\ store[R] \in Resource(R) /\ DOMAIN store = Resources
  BY TypeParts DEF Typed, TypeOK
<1>1. CASE Reload(R)
  <2>1. /\ \A Q \in Resources \ {R} : store'[Q] = store[Q]
        /\ store'[R] = Reloading(store, R)
    BY <1>0, <1>1, SetReloading DEF Reload
  <2> QED
    BY <1>1, <2>1 DEF Loading, Reload
<1>2. CASE ServeLoad(R)
  <2> DEFINE b == CASE R = "films" -> films [] R = "due" -> due [] OTHER -> settings
  <2>1. b = IF R = "due" THEN due ELSE Server(R)
    BY DEF Resources, Server
  <2>2. store' = [store EXCEPT ![R] = [@ EXCEPT !.load = "served", !.brings = b]]
    BY <1>2 DEF ServeLoad
  <2> HIDE DEF b
  <2> DEFINE new == [store[R] EXCEPT !.load = "served", !.brings = b]
  <2>3. /\ new.load = "served" /\ new.brings = b /\ new.status = store[R].status
        /\ new.value = store[R].value /\ new.clean = store[R].clean
    BY <1>0 DEF Resource
  <2>4. store'[R] = new /\ \A Q \in Resources \ {R} : store'[Q] = store[Q]
    BY <1>0, <2>2
  <2> HIDE DEF new
  <2> QED
    BY <1>2, <2>1, <2>3, <2>4 DEF Loading, ServeLoad
<1>3. CASE Loaded(R)
  <2>1. store'[R] = Local(R, store[R].brings) /\ \A Q \in Resources \ {R} : store'[Q] = store[Q]
    BY <1>0, <1>3 DEF Loaded, Local, Resource
  <2> QED
    BY <1>3, <2>1 DEF Loading, Loaded
<1>4. CASE LoadFails(R)
  <2> DEFINE new == [store[R] EXCEPT !.status = "error", !.load = "none", !.brings = Default[R],
                                     !.clean = FALSE, !.value = IF R = "settings" THEN Default[R]
                                                                ELSE store[R].value]
  <2>1. store' = [store EXCEPT ![R] = new]
    BY <1>4 DEF LoadFails
  <2>2. /\ new.load = "none" /\ new.status = "error" /\ new.clean = FALSE
        /\ new.brings = Default[R]
        /\ new.value = IF R = "settings" THEN Default[R] ELSE store[R].value
    BY <1>0 DEF Resource
  <2> HIDE DEF new
  <2>3. store'[R] = new /\ \A Q \in Resources \ {R} : store'[Q] = store[Q]
    BY <1>0, <2>1
  <2> QED
    BY <1>4, <2>2, <2>3 DEF Loading, LoadFails
<1> QED
  BY <1>1, <1>2, <1>3, <1>4

-----------------------------------------------------------------------------
(* What has left *)

LEMMA UpdatedKeeps ==
  ASSUME NEW v \in Library, NEW f \in Films, NEW film, NEW g \in Films, v[g] = Absent
  PROVE  Updated(v, f, film)[g] = Absent
  BY DEF Updated, Library

\* What a write shows at once of the library, and what it has asked for.
LEMMA AskShows ==
  ASSUME Typed, NEW s \in Slots, NEW c, NEW st, Asking(s, c, st)
  PROVE  /\ calls[s] = NoCall /\ calls' = [calls EXCEPT ![s] = c]
         /\ films' = films /\ settings' = settings /\ unused' = unused /\ due' = due
         /\ gone' = gone /\ rested' = rested
         /\ crossed' = crossed \cup {Q \in Touches(c.op) : Writing(Q) \/ store[Q].status = "loading"}
         /\ store'["due"] = store["due"]
         /\ c.op = "update" =>
              store'["films"] = Local("films",
                [store["films"].value EXCEPT ![c.film] =
                   [store["films"].value[c.film] EXCEPT !.marks = c.marks]])
         /\ c.op \in OnFilms \ {"update"} =>
              store'["films"] = [store["films"] EXCEPT !.clean = FALSE]
         /\ c.op = "save" => store'["films"] = store["films"]
         /\ c.op = "save" => store'["settings"] = Local("settings", c.next)
         /\ c.op # "save" => store'["settings"] = store["settings"]
<1>0. StoreTyped(store) /\ c \in Call /\ c # NoCall /\ c.op \in OnFilms \cup {"save"}
  BY TypeParts, CallFields DEF Typed, Asking
<1>1. /\ calls[s] = NoCall /\ calls' = [calls EXCEPT ![s] = c]
      /\ films' = films /\ settings' = settings /\ unused' = unused /\ due' = due
      /\ gone' = gone /\ rested' = rested
      /\ crossed' = crossed \cup {Q \in Touches(c.op) : Writing(Q) \/ store[Q].status = "loading"}
      /\ store' = [Q \in Resources |-> IF Q \in Touches(c.op) THEN [st[Q] EXCEPT !.clean = FALSE]
                                       ELSE st[Q]]
  BY DEF Asking, Begin
<1>2. CASE c.op = "update"
  <2> DEFINE v == [store["films"].value EXCEPT ![c.film] = [@ EXCEPT !.marks = c.marks]]
  <2>1. st = WithLocal(store, "films", v)
    BY <1>2 DEF Asking, Asks
  <2> HIDE DEF v
  <2>2. st["films"] = Local("films", v) /\ st["due"] = store["due"]
        /\ st["settings"] = store["settings"]
    BY <1>0, <2>1, SetLocally DEF Resources
  <2>3. Touches(c.op) = {"films"}
    BY <1>0, <1>2, Touched DEF OnFilms
  <2>4. [Local("films", v) EXCEPT !.clean = FALSE] = Local("films", v)
    BY LocalIsNotClean
  <2>5. store'["films"] = Local("films", v) /\ store'["due"] = store["due"]
        /\ store'["settings"] = store["settings"]
    BY <1>1, <2>2, <2>3, <2>4 DEF Resources
  <2> QED
    BY <1>1, <1>2, <2>5 DEF v
<1>3. CASE c.op \in OnFilms \ {"update"}
  <2>1. st = store /\ Touches(c.op) = {"films"} /\ c.op # "save"
    BY <1>0, <1>3, Touched DEF Asking, Asks, OnFilms
  <2>2. store'["films"] = [store["films"] EXCEPT !.clean = FALSE] /\ store'["due"] = store["due"]
        /\ store'["settings"] = store["settings"]
    BY <1>1, <2>1 DEF Resources
  <2> QED
    BY <1>1, <1>3, <2>1, <2>2
<1>4. CASE c.op = "save"
  <2>1. st = WithLocal(store, "settings", c.next) /\ Touches(c.op) = {"settings"}
    BY <1>0, <1>4, Touched DEF Asking, Asks
  <2>2. st["settings"] = Local("settings", c.next) /\ st["due"] = store["due"]
        /\ st["films"] = store["films"]
    BY <1>0, <2>1, SetLocally DEF Resources
  <2>3. [Local("settings", c.next) EXCEPT !.clean = FALSE] = Local("settings", c.next)
    BY LocalIsNotClean
  <2>4. store'["settings"] = Local("settings", c.next) /\ store'["due"] = store["due"]
        /\ store'["films"] = store["films"]
    BY <1>1, <2>1, <2>2, <2>3 DEF Resources
  <2> QED
    BY <1>1, <1>4, <2>4 DEF OnFilms
<1> QED
  BY <1>0, <1>2, <1>3, <1>4

LEMMA RestStep ==
  ASSUME Typed, RestInv, [Next]_vars
  PROVE  RestInv'
<1>1. ASSUME NEW s \in Slots, Write(s) PROVE RestInv'
  <2>1. PICK c, st : Asking(s, c, st)
    BY <1>1, WriteAsks
  <2> QED
    BY <2>1, AskShows DEF RestInv
<1>2. ASSUME NEW s \in Slots, Serve(s) PROVE RestInv'
  <2>1. PICK d : Answering(s, d)
    BY <1>2, ServeAnswers
  <2> QED
    BY <2>1 DEF Answering, RestInv
<1>3. ASSUME NEW s \in Slots, Succeed(s) PROVE RestInv'
  <2> DEFINE f == calls[s].film
  <2>1. Succeeding(s)
    BY <1>3, SuccessSucceeds
  <2>2. CASE /\ store'["due"] = Local("due", store["due"].value \ {f})
             /\ rested' = rested \cup ({f} \ due)
    <3>1. store'["due"].value = store["due"].value \ {f} /\ store'["due"].brings = {}
      BY <2>2, PerResource DEF Local
    <3>2. due' = due
      BY <2>1 DEF Succeeding
    <3> QED
      BY <2>2, <3>1, <3>2 DEF RestInv
  <2>3. CASE store'["due"] = store["due"] /\ rested' = rested
    BY <2>1, <2>3 DEF Succeeding, RestInv
  <2> QED
    BY <2>1, <2>2, <2>3 DEF Succeeding
<1>4. ASSUME NEW s \in Slots, Fail(s) PROVE RestInv'
  BY <1>4, FailFails DEF Failing, RestInv
<1>5. ASSUME NEW R \in Resources, Reload(R) \/ ServeLoad(R) \/ Loaded(R) \/ LoadFails(R)
      PROVE  RestInv'
  <2>1. Loading(R)
    BY <1>5, LoadLoads
  <2>2. rested' = rested /\ due' = due
    BY <2>1 DEF Loading
  <2>3. CASE R # "due"
    BY <2>1, <2>2, <2>3 DEF Loading, RestInv, Resources
  <2>4. CASE R = "due"
    <3>1. /\ Reloading(store, "due").value \in {{}, store["due"].value}
          /\ Reloading(store, "due").brings = {}
      BY PerResource DEF Reloading
    <3>2. \A v : Local("due", v).value = v /\ Local("due", v).brings = {}
      BY PerResource DEF Local
    <3>3. /\ store'["due"].value \in {{}, store["due"].value, store["due"].brings}
          /\ store'["due"].brings \in {{}, due}
      BY <2>1, <2>4, <3>1, <3>2, PerResource DEF Loading
    <3> QED
      BY <2>2, <3>3 DEF RestInv
  <2> QED
    BY <2>3, <2>4
<1>6. ASSUME NEW f \in Films, FallDue(f) PROVE RestInv'
  BY <1>6 DEF FallDue, RestInv
<1>7. CASE UNCHANGED vars
  BY <1>7 DEF vars, RestInv
<1> QED
  BY <1>1, <1>2, <1>3, <1>4, <1>5, <1>6, <1>7 DEF Next

\* What a film that has left is kept out of.
LeftNext(f) == films'[f] = Absent /\ f \notin unused'
OffTheCopy(f) == store["films"].value[f] = Absent /\ store["films"].brings[f] = Absent

LEMMA OffAfterLocal ==
  ASSUME NEW v, NEW f \in Films, v[f] = Absent, store'["films"] = Local("films", v)
  PROVE  OffTheCopy(f)'
<1>1. store'["films"].value = v /\ store'["films"].brings = NoFilms
  BY PerResource DEF Local
<1> QED
  BY <1>1 DEF OffTheCopy, NoFilms

LEMMA GoneStep ==
  ASSUME Typed, IdsInv, GoneInv, [Next]_vars
  PROVE  GoneInv'
<1>0. /\ films \in Library /\ store["films"].value \in Library /\ gone \subseteq Films
      /\ \A t \in Slots : calls[t] \in Call
      /\ calls \in [Slots -> Call]
  BY TypeParts DEF Typed, TypeOK
<1>a. \A f \in gone : Left(f) /\ OffTheCopy(f)
  BY DEF GoneInv, OffTheCopy
<1>b. ASSUME \A f \in gone' : LeftNext(f) /\ OffTheCopy(f)',
             \A s \in Slots : calls'[s] # NoCall /\ calls'[s].pc = "done" /\ Deletes(calls'[s])
               => LeftNext(calls'[s].film)
      PROVE  GoneInv'
  BY <1>b DEF GoneInv, Left, LeftNext, OffTheCopy
<1>1. ASSUME NEW s \in Slots, Write(s) PROVE GoneInv'
  <2>1. PICK c, st : Asking(s, c, st)
    BY <1>1, WriteAsks
  <2>2. c \in Call /\ c # NoCall /\ c.pc = "sent" /\ (c.op = "update" => Listed(c.film))
    BY <2>1 DEF Asking, Asks
  <2>3. ASSUME NEW f \in gone PROVE OffTheCopy(f)'
    <3>1. CASE c.op = "update"
      <4>1. c.film # f
        BY <1>a, <2>2, <2>3, <3>1 DEF OffTheCopy, Listed
      <4> DEFINE v == [store["films"].value EXCEPT ![c.film] =
                        [store["films"].value[c.film] EXCEPT !.marks = c.marks]]
      <4>2. v[f] = Absent
        BY <1>0, <1>a, <2>3, <4>1 DEF Library, OffTheCopy
      <4>3. store'["films"] = Local("films", v)
        BY <2>1, <3>1, AskShows
      <4> HIDE DEF v
      <4> QED
        BY <1>0, <2>3, <4>2, <4>3, OffAfterLocal
    <3>2. CASE c.op \in OnFilms \ {"update"}
      <4>1. store'["films"] = [store["films"] EXCEPT !.clean = FALSE]
        BY <2>1, <3>2, AskShows
      <4>2. store["films"] \in Resource("films")
        BY TypeParts DEF Typed
      <4>3. /\ store'["films"].value = store["films"].value
            /\ store'["films"].brings = store["films"].brings
        BY <4>1, <4>2 DEF Resource
      <4> QED
        BY <1>a, <2>3, <4>3 DEF OffTheCopy
    <3>3. CASE c.op = "save"
      BY <1>a, <2>1, <2>3, <3>3, AskShows DEF OffTheCopy
    <3> QED
      BY <2>2, <3>1, <3>2, <3>3, CallFields
  <2>4. gone' = gone /\ films' = films /\ unused' = unused /\ calls' = [calls EXCEPT ![s] = c]
    BY <2>1, AskShows
  <2> QED
    BY <1>0, <1>a, <1>b, <2>2, <2>3, <2>4 DEF GoneInv, Left, LeftNext
<1>2. ASSUME NEW s \in Slots, Serve(s) PROVE GoneInv'
  <2>1. PICK d : Answering(s, d)
    BY <1>2, ServeAnswers
  <2> DEFINE c == calls[s]
             f == c.film
  <2>2. /\ store' = store /\ gone' = gone /\ calls' = [calls EXCEPT ![s] = d]
        /\ d.op = c.op /\ d.pc = "done" /\ c \in Call /\ c # NoCall /\ c.pc = "sent"
        /\ c.op \in OnFilms => f \in Films /\ d.film = f
    BY <2>1 DEF Answering
  <2>3. ASSUME NEW g \in Films, Left(g) PROVE LeftNext(g)
    <3>1. CASE c.op \in {"update", "addRating", "removeRating", "remove"}
      <4>1. films[f] # Absent /\ f \in Films
        BY <2>1, <2>2, <3>1, ClientAssumption DEF Answering, OnFilms
      <4>2. f # g
        BY <2>3, <4>1 DEF Left, LeftNext
      <4>3. unused' \subseteq unused
        BY <2>1, <3>1 DEF Answering
      <4>4. films'[g] = films[g]
        BY <1>0, <2>1, <3>1, <4>1, <4>2 DEF Answering, Library
      <4> QED
        BY <2>3, <4>3, <4>4 DEF Left, LeftNext
    <3>2. CASE c.op = "create"
      <4>1. f \in unused /\ f \in Films
        BY <2>2, <3>2 DEF IdsInv, Sent, OnFilms
      <4>2. Creates(f)
        BY <2>1, <3>2 DEF Answering
      <4>3. f # g
        BY <2>3, <4>1 DEF Left, LeftNext
      <4> QED
        BY <1>0, <2>3, <4>1, <4>2, <4>3 DEF Left, LeftNext, Creates, Library
    <3>3. CASE c.op = "save"
      BY <2>1, <2>3, <3>3 DEF Answering, Left, LeftNext
    <3> QED
      BY <2>2, <3>1, <3>2, <3>3, CallFields DEF OnFilms
  <2>4. Deletes(d) => LeftNext(f) /\ f \in Films /\ d.film = f
    <3>1. SUFFICES ASSUME Deletes(d) PROVE LeftNext(f) /\ f \in Films /\ d.film = f
      OBVIOUS
    <3>2. d.op \in {"remove", "removeRating"} /\ (d.op = "removeRating" => d.filmDeleted)
      BY <3>1 DEF Deletes
    <3>3. /\ f \in Films /\ d.film = f /\ films[f] # Absent /\ unused' = unused
          /\ films' = [films EXCEPT ![f] = Absent]
      BY <2>1, <2>2, <3>2, ClientAssumption DEF Answering, OnFilms
    <3>4. f \notin unused
      BY <3>3 DEF IdsInv
    <3> QED
      BY <1>0, <3>3, <3>4 DEF Left, LeftNext, Library
  <2>5. \A t \in Slots : calls'[t] # NoCall /\ calls'[t].pc = "done" /\ Deletes(calls'[t])
          => LeftNext(calls'[t].film)
    <3> SUFFICES ASSUME NEW t \in Slots, calls'[t] # NoCall, calls'[t].pc = "done",
                        Deletes(calls'[t])
                 PROVE  LeftNext(calls'[t].film)
      OBVIOUS
    <3>1. CASE t = s
      BY <1>0, <2>2, <2>4, <3>1
    <3>2. CASE t # s
      <4>1. calls'[t] = calls[t]
        BY <1>0, <2>2, <3>2
      <4>2. Left(calls[t].film) /\ calls[t].op \in OnFilms
        BY <4>1 DEF GoneInv, Deletes, OnFilms
      <4>3. calls[t].film \in Films
        BY <1>0, <4>2, CallFields
      <4> QED
        BY <2>3, <4>1, <4>2, <4>3
    <3> QED
      BY <3>1, <3>2
  <2> QED
    BY <1>0, <1>a, <1>b, <2>2, <2>3, <2>5 DEF OffTheCopy
<1>3. ASSUME NEW s \in Slots, Succeed(s) PROVE GoneInv'
  <2>1. Succeeding(s)
    BY <1>3, SuccessSucceeds
  <2> DEFINE c == calls[s]
             f == c.film
             v == store["films"].value
  <2>2. /\ c \in Call /\ c # NoCall /\ c.pc = "done" /\ calls' = [calls EXCEPT ![s] = NoCall]
        /\ films' = films /\ unused' = unused
        /\ c.op \in OnFilms => f \in Films
        /\ gone' = IF Deletes(c) THEN gone \cup {f} ELSE gone
        /\ Deletes(c) => c.op \in OnFilms
    BY <2>1 DEF Succeeding
  <2>3. \A g \in Films : Left(g) => LeftNext(g)
    BY <2>2 DEF Left, LeftNext
  <2>4. Deletes(c) => Left(f) /\ f \in Films
    BY <2>2 DEF GoneInv
  <2>5. ASSUME NEW g \in gone' PROVE OffTheCopy(g)'
    <3>0. g \in Films /\ (g \in gone \/ (g = f /\ Deletes(c)))
      BY <1>0, <2>2, <2>4, <2>5
    <3>1. CASE c.op \in OnFilms \ {"create"}
      <4> DEFINE w == IF Deletes(c) THEN [v EXCEPT ![f] = Absent]
                      ELSE Updated(v, f, Replacement(c, v[f]))
      <4>1. store'["films"] = Local("films", w)
        BY <2>1, <3>1 DEF Succeeding
      <4>2. w[g] = Absent
        <5>1. CASE Deletes(c)
          BY <1>0, <1>a, <2>2, <3>0, <3>1, <5>1 DEF Library, OffTheCopy
        <5>2. CASE ~Deletes(c)
          BY <1>0, <1>a, <2>2, <3>0, <3>1, <5>2, UpdatedKeeps DEF OffTheCopy
        <5> QED
          BY <5>1, <5>2
      <4> HIDE DEF w
      <4> QED
        BY <3>0, <4>1, <4>2, OffAfterLocal
    <3>2. CASE c.op = "create"
      <4>1. g \in gone
        BY <3>0, <3>2 DEF Deletes
      <4>2. \/ store'["films"] = store["films"]
            \/ store'["films"] = Reloading(store, "films")
        BY <2>1, <3>2 DEF Succeeding
      <4>3. /\ Reloading(store, "films").value \in {NoFilms, v}
            /\ Reloading(store, "films").brings = NoFilms
        BY PerResource DEF Reloading
      <4> QED
        BY <1>a, <3>0, <4>1, <4>2, <4>3 DEF OffTheCopy, NoFilms
    <3>3. CASE c.op = "save"
      <4>1. store'["films"] = store["films"] /\ g \in gone
        BY <2>1, <3>0, <3>3 DEF Succeeding, Deletes
      <4> QED
        BY <1>a, <4>1 DEF OffTheCopy
    <3> QED
      BY <2>2, <3>1, <3>2, <3>3, CallFields
  <2>6. \A g \in gone' : LeftNext(g)
    BY <1>0, <1>a, <2>2, <2>3, <2>4
  <2>7. \A t \in Slots : calls'[t] # NoCall => calls'[t] = calls[t]
    BY <1>0, <2>2
  <2>8. \A t \in Slots : calls'[t] # NoCall /\ calls'[t].pc = "done" /\ Deletes(calls'[t])
          => LeftNext(calls'[t].film)
    BY <2>2, <2>7 DEF GoneInv, Left, LeftNext
  <2> QED
    BY <1>b, <2>5, <2>6, <2>8
<1>4. ASSUME NEW s \in Slots, Fail(s) PROVE GoneInv'
  <2>1. Failing(s)
    BY <1>4, FailFails
  <2> DEFINE c == calls[s]
             f == c.film
             v == store["films"].value
  <2>2. /\ calls' = [calls EXCEPT ![s] = NoCall] /\ films' = films /\ unused' = unused
        /\ gone' = gone /\ (c.op \in OnFilms => f \in Films)
    BY <2>1 DEF Failing
  <2>3. ASSUME NEW g \in gone PROVE OffTheCopy(g)'
    <3>1. CASE c.op = "update"
      <4> DEFINE w == Updated(v, f, [v[f] EXCEPT !.marks = c.previous])
      <4>1. store'["films"] = Local("films", w)
        BY <2>1, <3>1 DEF Failing
      <4>2. w[g] = Absent
        BY <1>0, <1>a, <2>2, <2>3, <3>1, UpdatedKeeps DEF OffTheCopy, OnFilms
      <4> HIDE DEF w
      <4> QED
        BY <1>0, <2>3, <4>1, <4>2, OffAfterLocal
    <3>2. CASE c.op # "update"
      BY <1>a, <2>1, <2>3, <3>2 DEF Failing, OffTheCopy
    <3> QED
      BY <3>1, <3>2
  <2>4. \A t \in Slots : calls'[t] # NoCall => calls'[t] = calls[t]
    BY <1>0, <2>2
  <2> QED
    BY <1>a, <1>b, <2>2, <2>3, <2>4 DEF GoneInv, Left, LeftNext
<1>5. ASSUME NEW R \in Resources, Reload(R) \/ ServeLoad(R) \/ Loaded(R) \/ LoadFails(R)
      PROVE  GoneInv'
  <2>1. Loading(R)
    BY <1>5, LoadLoads
  <2>2. gone' = gone /\ films' = films /\ unused' = unused /\ calls' = calls
    BY <2>1 DEF Loading
  <2>3. CASE R # "films"
    BY <1>a, <1>b, <2>1, <2>2, <2>3 DEF Loading, GoneInv, Left, LeftNext, OffTheCopy, Resources
  <2>4. CASE R = "films"
    <3>1. /\ Reloading(store, "films").value \in {NoFilms, store["films"].value}
          /\ Reloading(store, "films").brings = NoFilms
      BY PerResource DEF Reloading
    <3>2. \A v : Local("films", v).value = v /\ Local("films", v).brings = NoFilms
      BY PerResource DEF Local
    <3>3. /\ store'["films"].value \in {NoFilms, store["films"].value, store["films"].brings}
          /\ store'["films"].brings \in {NoFilms, films}
      BY <2>1, <2>4, <3>1, <3>2, PerResource DEF Loading, Server
    <3>4. \A f \in gone : OffTheCopy(f)'
      BY <1>0, <1>a, <3>3 DEF OffTheCopy, NoFilms, Left, LeftNext
    <3> QED
      BY <1>a, <1>b, <2>2, <3>4 DEF GoneInv, Left, LeftNext
  <2> QED
    BY <2>3, <2>4
<1>6. CASE gone' = gone /\ films' = films /\ unused' = unused /\ calls' = calls /\ store' = store
  BY <1>6 DEF GoneInv, Left, LeftNext
<1> QED
  BY <1>1, <1>2, <1>3, <1>4, <1>5, <1>6 DEF Next, vars, FallDue

LEMMA LeftInit == Init => IdsInv /\ GoneInv /\ RestInv
<1> SUFFICES ASSUME Init PROVE IdsInv /\ GoneInv /\ RestInv
  OBVIOUS
<1>1. \A s \in Slots : calls[s] = NoCall /\ calls[s].op = "none"
  BY DEF Init, NoCall
<1>2. RestInv /\ GoneInv
  BY <1>1 DEF Init, RestInv, GoneInv
<1>3. PICK f \in Films, m \in Marks, e \in Entries :
         \/ films = NoFilms /\ unused = Films \cup Entries
         \/ /\ films = [NoFilms EXCEPT ![f] = [marks |-> m, rating_history |-> Only(e)]]
            /\ unused = (Films \cup Entries) \ {f, e}
  BY DEF Init
<1>4. \A g \in unused \cap Films : films[g] = Absent
  BY <1>3 DEF NoFilms
<1>5. \A x \in unused \cap Entries, g \in Films : films[g] # Absent => films[g].rating_history[x] = 0
  BY <1>3 DEF NoFilms, Only
<1> QED
  BY <1>1, <1>2, <1>4, <1>5 DEF IdsInv, Sent

\* No load, answer or rollback brings back a film the tab was told is deleted, nor puts a film
\* just watched among the suggestions again, however many writes and loads overlap.
THEOREM DeletedStaysDeleted == Spec => []GoneStaysGone
<1>1. GoneInv /\ RestInv => GoneStaysGone
  BY DEF GoneInv, RestInv, GoneStaysGone, Listed
<1> QED
  BY <1>1, TypeInit, TypeStep, LeftInit, IdsStep, GoneStep, RestStep, PTL DEF Spec

-----------------------------------------------------------------------------
(* Loads *)

LEMMA TouchedBy ==
  ASSUME NEW c \in Call
  PROVE  /\ "films" \in Touches(c.op) <=> c.op \in OnFilms
         /\ "settings" \in Touches(c.op) <=> c.op = "save"
         /\ "due" \notin Touches(c.op)
<1>1. c.op \in OnFilms \cup {"save", "none"}
  BY CallFields DEF OnFilms
<1>2. CASE c.op \in OnFilms
  BY <1>2, Touched DEF OnFilms
<1>3. CASE c.op = "save"
  BY <1>3, Touched DEF OnFilms
<1>4. CASE c.op = "none"
  BY <1>4, Touched DEF OnFilms
<1> QED
  BY <1>1, <1>2, <1>3, <1>4

LEMMA Writers ==
  ASSUME Typed
  PROVE  /\ Writing("films") <=> \E s \in Slots : calls[s].op \in OnFilms
         /\ Writing("settings") <=> \E s \in Slots : calls[s].op = "save"
         /\ ~Writing("due")
<1>1. \A s \in Slots : /\ "films" \in Touches(calls[s].op) <=> calls[s].op \in OnFilms
                       /\ "settings" \in Touches(calls[s].op) <=> calls[s].op = "save"
                       /\ "due" \notin Touches(calls[s].op)
  BY TypeParts, TouchedBy DEF Typed
<1> QED
  BY <1>1 DEF Writing

LEMMA WritersNext ==
  ASSUME Typed'
  PROVE  /\ Writing("films")' <=> \E s \in Slots : calls'[s].op \in OnFilms
         /\ Writing("settings")' <=> \E s \in Slots : calls'[s].op = "save"
         /\ ~Writing("due")'
<1>1. \A s \in Slots : calls'[s] \in Call
  BY DEF Typed, TypeOK
<1>2. \A s \in Slots : /\ "films" \in Touches(calls'[s].op) <=> calls'[s].op \in OnFilms
                       /\ "settings" \in Touches(calls'[s].op) <=> calls'[s].op = "save"
                       /\ "due" \notin Touches(calls'[s].op)
  BY <1>1, TouchedBy
<1> QED
  BY <1>2 DEF Writing

LEMMA ReloadIsClean ==
  ASSUME NEW R
  PROVE  /\ Reloading(store, R).status = "loading" /\ Reloading(store, R).load = "sent"
         /\ Reloading(store, R).clean <=> (R # "due" /\ ~Writing(R))
<1> DEFINE clean == R # "due" /\ ~Writing(R)
<1>1. /\ Reloading(store, R).status = "loading" /\ Reloading(store, R).load = "sent"
      /\ Reloading(store, R).clean = clean
  BY DEF Reloading
<1> QED
  BY <1>1, Zenon

LEMMA LoadLeftAlone ==
  ASSUME NEW R \in Resources, LoadOk(R), store'[R] = store[R],
         store[R].clean => Server(R)' = Server(R),
         Writing(R)' => Writing(R), R \in crossed => R \in crossed'
  PROVE  LoadOk(R)'
  BY DEF LoadOk

LEMMA LoadGivenUp ==
  ASSUME NEW R \in Resources, NEW v, store'[R] = Local(R, v)
  PROVE  LoadOk(R)'
<1>1. /\ store'[R].status = "resolved" /\ store'[R].load = "none" /\ store'[R].clean = FALSE
  BY DEF Local
<1> QED
  BY <1>1 DEF LoadOk

LEMMA LoadStep ==
  ASSUME Typed, Typed', LoadInv, [Next]_vars
  PROVE  LoadInv'
<1>0. /\ \A t \in Slots : calls[t] \in Call
      /\ calls \in [Slots -> Call]
      /\ \A R \in Resources : store[R] \in Resource(R)
  BY TypeParts DEF Typed, TypeOK
<1>a. LoadOk("films") /\ LoadOk("settings") /\ LoadOk("due")
  BY DEF LoadInv, Resources
<1>b. ASSUME LoadOk("films")', LoadOk("settings")', LoadOk("due")' PROVE LoadInv'
  BY <1>b DEF LoadInv, Resources
<1>c. ASSUME films' = films, settings' = settings PROVE \A R \in Resources : Server(R)' = Server(R)
  BY <1>c DEF Server
<1>1. ASSUME NEW s \in Slots, Write(s) PROVE LoadInv'
  <2>1. PICK c, st : Asking(s, c, st)
    BY <1>1, WriteAsks
  <2>2. c \in Call /\ c # NoCall /\ calls[s] = NoCall /\ calls' = [calls EXCEPT ![s] = c]
    BY <2>1 DEF Asking, Begin
  <2>3. films' = films /\ settings' = settings
    BY <2>1, AskShows
  <2>4. NoCall.op = "none" /\ "none" \notin OnFilms
    BY DEF NoCall, OnFilms
  <2>5. CASE c.op \in OnFilms
    <3>1. /\ crossed' = crossed \cup {Q \in {"films"} : Writing(Q) \/ store[Q].status = "loading"}
          /\ store'["due"] = store["due"] /\ store'["settings"] = store["settings"]
      BY <2>1, <2>2, <2>5, AskShows, Touched DEF OnFilms
    <3>2. Writing("settings")' => Writing("settings")
      BY <1>0, <2>2, <2>5, Writers, WritersNext DEF OnFilms
    <3>3. LoadOk("settings")' /\ LoadOk("due")'
      BY <1>a, <1>c, <2>3, <3>1, <3>2, LoadLeftAlone, WritersNext DEF Resources
    <3>4. LoadOk("films")'
      <4>1. CASE c.op = "update"
        BY <2>1, <4>1, AskShows, LoadGivenUp DEF Resources
      <4>2. CASE c.op # "update"
        <5>1. store'["films"] = [store["films"] EXCEPT !.clean = FALSE]
          BY <2>1, <2>5, <4>2, AskShows
        <5>2. store["films"] \in Resource("films")
          BY <1>0 DEF Resources
        <5>3. /\ store'["films"].status = store["films"].status
              /\ store'["films"].load = store["films"].load
              /\ store'["films"].clean = FALSE
          BY <5>1, <5>2 DEF Resource
        <5>4. store["films"].status = "loading" => "films" \in crossed'
          BY <3>1
        <5> QED
          BY <1>a, <5>3, <5>4 DEF LoadOk
      <4> QED
        BY <4>1, <4>2
    <3> QED
      BY <1>b, <3>3, <3>4
  <2>6. CASE c.op = "save"
    <3>1. /\ crossed \subseteq crossed'
          /\ store'["due"] = store["due"] /\ store'["films"] = store["films"]
          /\ store'["settings"] = Local("settings", c.next)
      BY <2>1, <2>6, AskShows
    <3>2. Writing("films")' => Writing("films")
      BY <1>0, <2>2, <2>6, Writers, WritersNext DEF OnFilms
    <3>3. LoadOk("films")' /\ LoadOk("due")'
      BY <1>a, <1>c, <2>3, <3>1, <3>2, LoadLeftAlone, WritersNext DEF Resources
    <3>4. LoadOk("settings")'
      BY <3>1, LoadGivenUp DEF Resources
    <3> QED
      BY <1>b, <3>3, <3>4
  <2> QED
    BY <2>2, <2>5, <2>6, CallFields
<1>2. ASSUME NEW s \in Slots, Serve(s) PROVE LoadInv'
  <2>1. PICK d : Answering(s, d)
    BY <1>2, ServeAnswers
  <2> DEFINE c == calls[s]
  <2>2. /\ store' = store /\ crossed' = crossed /\ calls' = [calls EXCEPT ![s] = d]
        /\ d.op = c.op /\ c \in Call /\ c # NoCall
        /\ c.op = "save" => films' = films
        /\ c.op \in OnFilms => settings' = settings
    BY <2>1 DEF Answering
  <2>3. \A t \in Slots : calls'[t].op = calls[t].op
    BY <1>0, <2>2
  <2>4. /\ Writing("films")' <=> Writing("films")
        /\ Writing("settings")' <=> Writing("settings")
    BY <2>3, Writers, WritersNext
  <2>5. /\ ~Writing("films") => films' = films
        /\ ~Writing("settings") => settings' = settings
    BY <2>2, Writers, CallFields
  <2>6. /\ store["films"].clean => Server("films")' = Server("films")
        /\ store["settings"].clean => Server("settings")' = Server("settings")
        /\ ~store["due"].clean
    BY <1>a, <2>5 DEF LoadOk, Server, Kept
  <2> QED
    BY <1>a, <1>b, <2>2, <2>4, <2>6, LoadLeftAlone, WritersNext DEF Resources
<1>3. ASSUME NEW s \in Slots, Succeed(s) PROVE LoadInv'
  <2>1. Succeeding(s)
    BY <1>3, SuccessSucceeds
  <2> DEFINE c == calls[s]
  <2>2. /\ c \in Call /\ c # NoCall /\ calls' = [calls EXCEPT ![s] = NoCall]
        /\ films' = films /\ settings' = settings /\ crossed \subseteq crossed'
    BY <2>1 DEF Succeeding
  <2>3. NoCall.op = "none" /\ "none" \notin OnFilms /\ "save" \notin OnFilms
    BY DEF NoCall, OnFilms
  <2>4. /\ Writing("films")' => Writing("films")
        /\ Writing("settings")' => Writing("settings")
    BY <1>0, <2>2, <2>3, Writers, WritersNext
  <2>5. LoadOk("due")'
    BY <1>a, <1>c, <2>1, <2>2, LoadLeftAlone, LoadGivenUp, WritersNext DEF Succeeding, Resources
  <2>6. LoadOk("settings")'
    <3>1. CASE c.op = "save"
      BY <2>1, <3>1, LoadGivenUp DEF Succeeding, Resources
    <3>2. CASE c.op # "save"
      BY <1>a, <1>c, <2>1, <2>2, <2>4, <3>2, LoadLeftAlone DEF Succeeding, Resources
    <3> QED
      BY <3>1, <3>2
  <2>7. LoadOk("films")'
    <3>1. CASE c.op \in OnFilms \ {"create"}
      BY <2>1, <3>1, LoadGivenUp DEF Succeeding, Resources
    <3>2. CASE c.op = "create"
      <4>1. "films" \in crossed'
        BY <2>1, <3>2 DEF Succeeding
      <4>2. CASE store'["films"] = store["films"]
        BY <1>a, <1>c, <2>2, <2>4, <4>2, LoadLeftAlone DEF Resources
      <4>3. CASE store'["films"] = Reloading(store, "films")
        <5>1. Writing("films")
          BY <3>2, Writers DEF OnFilms
        <5>2. /\ store'["films"].status = "loading" /\ store'["films"].load = "sent"
              /\ ~store'["films"].clean
          BY <4>3, <5>1, ReloadIsClean
        <5> QED
          BY <4>1, <5>2 DEF LoadOk
      <4> QED
        BY <2>1, <3>2, <4>2, <4>3 DEF Succeeding
    <3>3. CASE c.op = "save"
      BY <1>a, <1>c, <2>1, <2>2, <2>4, <3>3, LoadLeftAlone DEF Succeeding, Resources
    <3> QED
      BY <2>2, <3>1, <3>2, <3>3, CallFields
  <2> QED
    BY <1>b, <2>5, <2>6, <2>7
<1>4. ASSUME NEW s \in Slots, Fail(s) PROVE LoadInv'
  <2>1. Failing(s)
    BY <1>4, FailFails
  <2> DEFINE c == calls[s]
  <2>2. /\ c \in Call /\ c # NoCall /\ calls' = [calls EXCEPT ![s] = NoCall]
        /\ films' = films /\ settings' = settings /\ crossed \subseteq crossed'
        /\ store'["due"] = store["due"]
    BY <2>1 DEF Failing
  <2>3. NoCall.op = "none" /\ "none" \notin OnFilms
    BY DEF NoCall, OnFilms
  <2>4. /\ Writing("films")' => Writing("films")
        /\ Writing("settings")' => Writing("settings")
    BY <1>0, <2>2, <2>3, Writers, WritersNext
  <2>5. LoadOk("due")'
    BY <1>a, <1>c, <2>2, LoadLeftAlone, WritersNext DEF Resources
  <2>6. LoadOk("settings")'
    <3>1. CASE c.op = "save"
      BY <2>1, <3>1, LoadGivenUp DEF Failing, Resources
    <3>2. CASE c.op # "save"
      BY <1>a, <1>c, <2>1, <2>2, <2>4, <3>2, LoadLeftAlone DEF Failing, Resources
    <3> QED
      BY <3>1, <3>2
  <2>7. LoadOk("films")'
    <3>1. CASE c.op = "update"
      BY <2>1, <3>1, LoadGivenUp DEF Failing, Resources
    <3>2. CASE c.op # "update"
      BY <1>a, <1>c, <2>1, <2>2, <2>4, <3>2, LoadLeftAlone DEF Failing, Resources
    <3> QED
      BY <3>1, <3>2
  <2> QED
    BY <1>b, <2>5, <2>6, <2>7
<1>5. ASSUME NEW R \in Resources, Reload(R) \/ ServeLoad(R) \/ Loaded(R) \/ LoadFails(R)
      PROVE  LoadInv'
  <2>1. Loading(R)
    BY <1>5, LoadLoads
  <2>2. /\ calls' = calls /\ films' = films /\ settings' = settings
        /\ \A Q \in Resources \ {R} : store'[Q] = store[Q] /\ (Q \in crossed => Q \in crossed')
    BY <2>1 DEF Loading
  <2>3. \A Q \in Resources : Writing(Q)' <=> Writing(Q)
    BY <2>2 DEF Writing
  <2>4. \A Q \in Resources \ {R} : LoadOk(Q)'
    BY <1>c, <2>2, <2>3, LoadLeftAlone DEF LoadInv
  <2>5. LoadOk(R)'
    <3> DEFINE old == store[R]
               new == store'[R]
    <3>0. LoadOk(R) /\ old \in Resource(R)
      BY <1>0 DEF LoadInv
    <3>1. CASE /\ old.status # "loading" /\ new = Reloading(store, R)
               /\ crossed' = IF R # "due" /\ (old.status = "error" \/ Writing(R))
                             THEN crossed \cup {R} ELSE crossed
      <4>1. /\ new.status = "loading" /\ new.load = "sent"
            /\ new.clean <=> (R # "due" /\ ~Writing(R))
        BY <3>1, ReloadIsClean
      <4>2. R \in Kept <=> R # "due"
        BY DEF Kept, Resources
      <4>3. new.clean => R \in Kept /\ ~Writing(R)'
        BY <2>3, <4>1, <4>2
      <4>4. R \in Kept \ crossed' => new.clean
        BY <3>1, <4>1, <4>2
      <4> QED
        BY <4>1, <4>3, <4>4 DEF LoadOk
    <3>2. CASE /\ old.load = "sent" /\ new.load = "served"
               /\ new.brings = IF R = "due" THEN due ELSE Server(R)
               /\ new.status = old.status /\ new.value = old.value /\ new.clean = old.clean
               /\ crossed' = crossed
      <4>1. Server(R)' = Server(R)
        BY <1>c, <2>2
      <4>2. "due" \notin Kept
        BY DEF Kept
      <4> QED
        BY <2>3, <3>0, <3>2, <4>1, <4>2 DEF LoadOk
    <3>3. CASE new = Local(R, old.brings)
      BY <3>3, LoadGivenUp
    <3>4. CASE new.load = "none" /\ new.status = "error" /\ new.clean = FALSE
      BY <3>4 DEF LoadOk
    <3> QED
      BY <2>1, <3>1, <3>2, <3>3, <3>4 DEF Loading
  <2> QED
    BY <2>4, <2>5 DEF LoadInv
<1>6. CASE /\ store' = store /\ calls' = calls /\ films' = films /\ settings' = settings
           /\ crossed' = crossed
  BY <1>6 DEF LoadInv, LoadOk, Writing, Server
<1> QED
  BY <1>1, <1>2, <1>3, <1>4, <1>5, <1>6 DEF Next, vars, FallDue

-----------------------------------------------------------------------------
(* The copies are the server's, but for the write in flight *)

LEMMA LibraryUnchanged ==
  ASSUME SteadyLibrary, Typed, Typed', films' = films, store'["films"].value = store["films"].value,
         "films" \in crossed => "films" \in crossed',
         \A s \in Slots : calls'[s].op \in OnFilms => calls'[s] = calls[s],
         \A s \in Slots : calls[s].op \in OnFilms => calls'[s] = calls[s]
  PROVE  SteadyLibrary'
<1> SUFFICES ASSUME "films" \notin crossed'
             PROVE  /\ ~Writing("films")' => store'["films"].value = films'
                    /\ \A s \in Slots : calls'[s].op \in OnFilms =>
                         /\ AheadLibrary(calls'[s], store'["films"].value, films')
                         /\ \A t \in Slots : calls'[t].op \in OnFilms => t = s
  BY DEF SteadyLibrary
<1>1. Writing("films")' <=> Writing("films")
  BY Writers, WritersNext
<1>2. ASSUME NEW s \in Slots, calls'[s].op \in OnFilms
      PROVE  AheadLibrary(calls'[s], store'["films"].value, films')
  <2>1. AheadLibrary(calls[s], store["films"].value, films) /\ calls'[s] = calls[s]
    BY <1>2 DEF SteadyLibrary
  <2> QED
    BY <2>1
<1> QED
  BY <1>1, <1>2 DEF SteadyLibrary

LEMMA AheadWhenSent ==
  ASSUME NEW c, NEW v, NEW lib, c.pc = "sent", c.op = "update"
  PROVE  AheadLibrary(c, v, lib) <=>
           /\ lib[c.film] # Absent /\ c.previous = lib[c.film].marks
           /\ v = [lib EXCEPT ![c.film] = [lib[c.film] EXCEPT !.marks = c.marks]]
  BY DEF AheadLibrary

LEMMA LevelWhenSent ==
  ASSUME NEW c, NEW v, NEW lib, c.pc = "sent", c.op \in OnFilms \ {"update"},
         AheadLibrary(c, v, lib)
  PROVE  v = lib
  BY DEF AheadLibrary

LEMMA LevelIsAhead ==
  ASSUME NEW c, NEW lib, c.pc = "sent", c.op \in OnFilms \ {"update"}
  PROVE  AheadLibrary(c, lib, lib)
  BY DEF AheadLibrary

\* The server's step turns what is ahead into what the answer will make good.
LEMMA LibraryServed ==
  ASSUME Typed, IdsInv, NEW s \in Slots, NEW d, Answering(s, d), calls[s].op \in OnFilms,
         AheadLibrary(calls[s], store["films"].value, films)
  PROVE  AheadLibrary(d, store["films"].value, films')
<1> DEFINE c == calls[s]
           f == c.film
           v == store["films"].value
<1>0. /\ c.pc = "sent" /\ d.pc = "done" /\ d.op = c.op /\ d.film = f /\ f \in Films
      /\ films \in Library
  BY DEF Answering, Typed, TypeOK
<1>1. CASE c.op = "update"
  <2>1. v = [films EXCEPT ![f] = [films[f] EXCEPT !.marks = c.marks]]
    BY <1>0, <1>1, AheadWhenSent
  <2>2. /\ films' = [films EXCEPT ![f] = [films[f] EXCEPT !.marks = c.marks]]
        /\ d.answer = [films[f] EXCEPT !.marks = c.marks]
    BY <1>1 DEF Answering
  <2>3. films' = v /\ films'[f] = d.answer
    BY <1>0, <2>1, <2>2 DEF Library
  <2> QED
    BY <1>0, <1>1, <2>3 DEF AheadLibrary
<1>2. CASE c.op = "addRating"
  <2>1. v = films
    BY <1>0, <1>2, LevelWhenSent DEF OnFilms
  <2>2. /\ films[f] \in Film /\ d.answer \in unused \cap Entries
        /\ films' = [films EXCEPT ![f] = [films[f] EXCEPT !.rating_history[d.answer] = 1]]
    BY <1>2 DEF Answering
  <2>3. films[f] # Absent
    BY <2>2, ClientAssumption
  <2>4. films[f].rating_history[d.answer] = 0
    BY <1>0, <2>2, <2>3 DEF IdsInv
  <2> QED
    BY <1>0, <1>2, <2>1, <2>2, <2>3, <2>4 DEF AheadLibrary
<1>3. CASE c.op = "removeRating"
  <2>1. v = films
    BY <1>0, <1>3, LevelWhenSent DEF OnFilms
  <2>2. /\ films[f] \in Film /\ d.entry = c.entry
        /\ films' = [films EXCEPT ![f] = IF d.filmDeleted THEN Absent
                                         ELSE [films[f] EXCEPT !.rating_history[c.entry] = 0]]
    BY <1>3 DEF Answering
  <2>3. films[f] # Absent
    BY <2>2, ClientAssumption
  <2> QED
    BY <1>0, <1>3, <2>1, <2>2, <2>3 DEF AheadLibrary
<1>4. CASE c.op = "remove"
  <2>1. v = films
    BY <1>0, <1>4, LevelWhenSent DEF OnFilms
  <2>2. films' = [films EXCEPT ![f] = Absent]
    BY <1>4 DEF Answering
  <2> QED
    BY <1>0, <1>4, <2>1, <2>2 DEF AheadLibrary
<1>5. CASE c.op = "create"
  BY <1>0, <1>5 DEF AheadLibrary
<1> QED
  BY <1>1, <1>2, <1>3, <1>4, <1>5 DEF OnFilms

\* An answer makes good what its write has left ahead.
LEMMA LibraryMadeGood ==
  ASSUME Typed, NEW s \in Slots, calls[s].op \in OnFilms \ {"create"}, calls[s].pc = "done",
         AheadLibrary(calls[s], store["films"].value, films)
  PROVE  LET c == calls[s]
             v == store["films"].value
         IN  films = IF Deletes(c) THEN [v EXCEPT ![c.film] = Absent]
                     ELSE Updated(v, c.film, Replacement(c, v[c.film]))
<1> DEFINE c == calls[s]
           f == c.film
           v == store["films"].value
<1>0. f \in Films /\ films \in Library /\ v \in Library /\ c \in Call
  BY TypeParts, CallFields DEF Typed, TypeOK
<1>1. CASE c.op = "update"
  <2>1. v = films /\ c.answer = films[f]
    BY <1>1 DEF AheadLibrary
  <2>2. Replacement(c, v[f]) = c.answer /\ ~Deletes(c)
    BY <1>1 DEF Replacement, Deletes
  <2>3. films = [films EXCEPT ![f] = films[f]]
    BY <1>0 DEF Library
  <2>4. Updated(films, f, films[f]) = films
    BY <2>3 DEF Updated
  <2> QED
    BY <2>1, <2>2, <2>4
<1>2. CASE c.op = "addRating"
  <2>1. /\ v[f] # Absent /\ v[f].rating_history[c.answer] = 0
        /\ films = [v EXCEPT ![f] = [v[f] EXCEPT !.rating_history[c.answer] = 1]]
    BY <1>2 DEF AheadLibrary
  <2>2. /\ Replacement(c, v[f]) = [v[f] EXCEPT !.rating_history[c.answer] = v[f].rating_history[c.answer] + 1]
        /\ ~Deletes(c)
    BY <1>2 DEF Replacement, Deletes
  <2> DEFINE old == v[f].rating_history[c.answer]
             n == old + 1
  <2>3. old = 0
    BY <2>1
  <2>4. Replacement(c, v[f]) = [v[f] EXCEPT !.rating_history[c.answer] = n]
    BY <2>2
  <2> HIDE DEF old
  <2>5. n = 1
    BY <2>3
  <2> HIDE DEF n
  <2>6. films = [v EXCEPT ![f] = Replacement(c, v[f])]
    BY <2>1, <2>4, <2>5
  <2> QED
    BY <2>1, <2>2, <2>6 DEF Updated
<1>3. CASE c.op = "removeRating"
  <2>1. /\ v[f] # Absent
        /\ films = [v EXCEPT ![f] = IF c.filmDeleted THEN Absent
                                    ELSE [v[f] EXCEPT !.rating_history[c.entry] = 0]]
    BY <1>3 DEF AheadLibrary
  <2>2. /\ Replacement(c, v[f]) = [v[f] EXCEPT !.rating_history[c.entry] = 0]
        /\ Deletes(c) <=> c.filmDeleted
    BY <1>3 DEF Replacement, Deletes
  <2> QED
    BY <2>1, <2>2 DEF Updated
<1>4. CASE c.op = "remove"
  BY <1>4 DEF AheadLibrary, Deletes
<1> QED
  BY <1>1, <1>2, <1>3, <1>4 DEF OnFilms

LEMMA LibraryStep ==
  ASSUME Typed, Typed', IdsInv, LoadInv, SteadyLibrary, [Next]_vars
  PROVE  SteadyLibrary'
<1> DEFINE v == store["films"].value
<1>0. /\ films \in Library /\ v \in Library
      /\ \A t \in Slots : calls[t] \in Call
      /\ calls \in [Slots -> Call]
      /\ LoadOk("films")
  BY TypeParts DEF Typed, TypeOK, LoadInv, Resources
<1>z. NoCall.op = "none" /\ "none" \notin OnFilms /\ "save" \notin OnFilms
  BY DEF NoCall, OnFilms
<1>b. ASSUME "films" \notin crossed' =>
               /\ (\A s \in Slots : calls'[s].op \notin OnFilms) => store'["films"].value = films'
               /\ \A s \in Slots : calls'[s].op \in OnFilms =>
                    /\ AheadLibrary(calls'[s], store'["films"].value, films')
                    /\ \A t \in Slots : calls'[t].op \in OnFilms => t = s
      PROVE  SteadyLibrary'
  BY <1>b, WritersNext DEF SteadyLibrary
<1>c. ASSUME "films" \in crossed' PROVE SteadyLibrary'
  BY <1>b, <1>c
<1>1. ASSUME NEW s \in Slots, Write(s) PROVE SteadyLibrary'
  <2>1. PICK c, st : Asking(s, c, st)
    BY <1>1, WriteAsks
  <2>2. /\ c \in Call /\ c # NoCall /\ c.pc = "sent" /\ Asks(c, st)
        /\ calls[s] = NoCall /\ calls' = [calls EXCEPT ![s] = c] /\ films' = films
        /\ crossed' = crossed \cup {Q \in Touches(c.op) : Writing(Q) \/ store[Q].status = "loading"}
    BY <2>1, AskShows DEF Asking
  <2>3. CASE c.op \in OnFilms
    <3> SUFFICES ASSUME "films" \notin crossed' PROVE SteadyLibrary'
      BY <1>c
    <3>1. Touches(c.op) = {"films"} /\ "films" \notin crossed /\ ~Writing("films")
      BY <2>2, <2>3, Touched
    <3>2. v = films /\ \A t \in Slots : calls[t].op \notin OnFilms
      BY <3>1, Writers DEF SteadyLibrary
    <3>3. AheadLibrary(c, store'["films"].value, films')
      <4>1. CASE c.op = "update"
        <5>1. /\ films[c.film] # Absent /\ c.previous = films[c.film].marks
          BY <2>2, <3>2, <4>1 DEF Asks, Listed
        <5> DEFINE w == [films EXCEPT ![c.film] = [films[c.film] EXCEPT !.marks = c.marks]]
        <5>2. store'["films"] = Local("films", w)
          BY <2>1, <3>2, <4>1, AskShows
        <5> HIDE DEF w
        <5>3. store'["films"].value = w
          BY <5>2 DEF Local
        <5>4. store'["films"].value = [films EXCEPT ![c.film] = [films[c.film] EXCEPT !.marks = c.marks]]
          BY <5>3 DEF w
        <5> QED
          BY <2>2, <2>3, <4>1, <5>1, <5>4, AheadWhenSent
      <4>2. CASE c.op # "update"
        <5>1. store'["films"] = [store["films"] EXCEPT !.clean = FALSE]
          BY <2>1, <2>3, <4>2, AskShows
        <5>2. store'["films"].value = v
          BY <5>1, TypeParts DEF Typed, Resource, Resources
        <5> QED
          BY <2>2, <2>3, <3>2, <4>2, <5>2, LevelIsAhead
      <4> QED
        BY <4>1, <4>2
    <3> QED
      BY <1>0, <1>b, <2>2, <2>3, <3>2, <3>3
  <2>4. CASE c.op = "save"
    <3>1. store'["films"] = store["films"]
      BY <2>1, <2>4, AskShows
    <3> QED
      BY <1>0, <1>z, <2>2, <2>4, <3>1, LibraryUnchanged
  <2> QED
    BY <2>2, <2>3, <2>4, CallFields
<1>2. ASSUME NEW s \in Slots, Serve(s) PROVE SteadyLibrary'
  <2>1. PICK d : Answering(s, d)
    BY <1>2, ServeAnswers
  <2> DEFINE c == calls[s]
  <2>2. /\ store' = store /\ crossed' = crossed /\ calls' = [calls EXCEPT ![s] = d]
        /\ d.op = c.op /\ c \in Call /\ c # NoCall
        /\ c.op = "save" => films' = films
    BY <2>1 DEF Answering
  <2>3. CASE c.op \in OnFilms
    <3> SUFFICES ASSUME "films" \notin crossed' PROVE SteadyLibrary'
      BY <1>c
    <3>1. /\ AheadLibrary(c, v, films)
          /\ \A t \in Slots : calls[t].op \in OnFilms => t = s
      BY <2>2, <2>3 DEF SteadyLibrary
    <3>2. AheadLibrary(d, v, films')
      BY <2>1, <2>3, <3>1, LibraryServed
    <3> QED
      BY <1>0, <1>b, <2>2, <2>3, <3>1, <3>2
  <2>4. CASE c.op = "save"
    BY <1>0, <1>z, <2>2, <2>4, LibraryUnchanged
  <2> QED
    BY <2>2, <2>3, <2>4, CallFields
<1>3. ASSUME NEW s \in Slots, Succeed(s) PROVE SteadyLibrary'
  <2>1. Succeeding(s)
    BY <1>3, SuccessSucceeds
  <2> DEFINE c == calls[s]
  <2>2. /\ c \in Call /\ c # NoCall /\ c.pc = "done" /\ calls' = [calls EXCEPT ![s] = NoCall]
        /\ films' = films /\ (c.op # "create" => crossed' = crossed)
    BY <2>1 DEF Succeeding
  <2>3. CASE c.op \in OnFilms \ {"create"}
    <3> SUFFICES ASSUME "films" \notin crossed' PROVE SteadyLibrary'
      BY <1>c
    <3>1. /\ AheadLibrary(c, v, films)
          /\ \A t \in Slots : calls[t].op \in OnFilms => t = s
      BY <2>2, <2>3 DEF SteadyLibrary
    <3> DEFINE w == IF Deletes(c) THEN [v EXCEPT ![c.film] = Absent]
                    ELSE Updated(v, c.film, Replacement(c, v[c.film]))
    <3>2. films = w
      BY <2>2, <2>3, <3>1, LibraryMadeGood
    <3>3. store'["films"] = Local("films", w)
      BY <2>1, <2>3 DEF Succeeding
    <3> HIDE DEF w
    <3>4. store'["films"].value = films'
      BY <2>2, <3>2, <3>3 DEF Local
    <3> QED
      BY <1>0, <1>b, <1>z, <2>2, <3>1, <3>4
  <2>4. CASE c.op = "create"
    BY <1>c, <2>1, <2>4 DEF Succeeding
  <2>5. CASE c.op = "save"
    <3>1. store'["films"] = store["films"]
      BY <2>1, <2>5 DEF Succeeding
    <3> QED
      BY <1>0, <1>z, <2>2, <2>5, <3>1, LibraryUnchanged
  <2> QED
    BY <2>2, <2>3, <2>4, <2>5, CallFields
<1>4. ASSUME NEW s \in Slots, Fail(s) PROVE SteadyLibrary'
  <2>1. Failing(s)
    BY <1>4, FailFails
  <2> DEFINE c == calls[s]
             f == c.film
  <2>2. /\ c \in Call /\ c # NoCall /\ calls' = [calls EXCEPT ![s] = NoCall] /\ films' = films
        /\ crossed' = IF c.pc = "done" THEN crossed \cup Touches(c.op) ELSE crossed
        /\ c.op \in OnFilms => f \in Films
    BY <2>1 DEF Failing
  <2>3. CASE c.op \in OnFilms
    <3> SUFFICES ASSUME "films" \notin crossed' PROVE SteadyLibrary'
      BY <1>c
    <3>1. c.pc = "sent" /\ "films" \notin crossed
      BY <2>2, <2>3, Touched, CallFields DEF Pc
    <3>2. /\ AheadLibrary(c, v, films)
          /\ \A t \in Slots : calls[t].op \in OnFilms => t = s
      BY <2>3, <3>1 DEF SteadyLibrary
    <3>3. store'["films"].value = films
      <4>1. CASE c.op = "update"
        <5>1. /\ films[f] # Absent /\ c.previous = films[f].marks
              /\ v = [films EXCEPT ![f] = [films[f] EXCEPT !.marks = c.marks]]
          BY <2>3, <3>1, <3>2, <4>1, AheadWhenSent
        <5>2. films[f] \in Film /\ c.marks \in Marks /\ f \in Films
          BY <1>0, <2>2, <2>3, <4>1, <5>1, CallFields DEF Library
        <5>3. v[f] = [films[f] EXCEPT !.marks = c.marks]
          BY <1>0, <5>1, <5>2 DEF Library
        <5>4. [v[f] EXCEPT !.marks = c.previous] = films[f]
          BY <5>1, <5>2, <5>3 DEF Film
        <5>5. v[f] # Absent
          <6>1. v[f] \in Film
            BY <5>2, <5>3 DEF Film
          <6> QED
            BY <6>1, ClientAssumption
        <5>6. Updated(v, f, films[f]) = films
          BY <1>0, <5>1, <5>2, <5>5 DEF Updated, Library
        <5> QED
          BY <2>1, <4>1, <5>4, <5>6 DEF Failing, Local
      <4>2. CASE c.op # "update"
        <5>1. v = films
          BY <2>3, <3>1, <3>2, <4>2, LevelWhenSent
        <5> QED
          BY <2>1, <4>2, <5>1 DEF Failing
      <4> QED
        BY <4>1, <4>2
    <3> QED
      BY <1>0, <1>b, <1>z, <2>2, <3>2, <3>3
  <2>4. CASE c.op = "save"
    <3>1. store'["films"] = store["films"]
      BY <2>1, <2>4 DEF Failing
    <3>2. "films" \in crossed => "films" \in crossed'
      BY <2>2
    <3> QED
      BY <1>0, <1>z, <2>2, <2>4, <3>1, <3>2, LibraryUnchanged
  <2> QED
    BY <2>2, <2>3, <2>4, CallFields
<1>5. ASSUME NEW R \in Resources, Reload(R) \/ ServeLoad(R) \/ Loaded(R) \/ LoadFails(R)
      PROVE  SteadyLibrary'
  <2>1. Loading(R)
    BY <1>5, LoadLoads
  <2>2. calls' = calls /\ films' = films
    BY <2>1 DEF Loading
  <2>3. CASE R # "films"
    <3>1. store'["films"] = store["films"] /\ ("films" \in crossed => "films" \in crossed')
      BY <2>1, <2>3 DEF Loading, Resources
    <3> QED
      BY <2>2, <3>1, LibraryUnchanged
  <2>4. CASE R = "films"
    <3> DEFINE old == store["films"]
               new == store'["films"]
    <3>1. CASE /\ old.status # "loading" /\ new = Reloading(store, "films")
               /\ crossed' = IF old.status = "error" \/ Writing("films")
                             THEN crossed \cup {"films"} ELSE crossed
      <4> SUFFICES ASSUME "films" \notin crossed' PROVE SteadyLibrary'
        BY <1>c
      <4>1. old.status # "error"
        BY <3>1
      <4>2. new.value = old.value
        BY <3>1, <4>1 DEF Reloading
      <4> QED
        BY <2>2, <3>1, <4>2, LibraryUnchanged
    <3>2. CASE new.value = old.value /\ crossed' = crossed
      BY <2>2, <3>2, LibraryUnchanged
    <3>3. CASE /\ old.load = "served" /\ new = Local("films", old.brings)
               /\ crossed' = IF old.clean THEN crossed \ {"films"} ELSE crossed
      <4> SUFFICES ASSUME "films" \notin crossed' PROVE SteadyLibrary'
        BY <1>c
      <4>1. old.status = "loading"
        BY <1>0, <3>3 DEF LoadOk
      <4>2. old.clean
        BY <1>0, <3>3, <4>1 DEF LoadOk, Kept
      <4>3. ~Writing("films") /\ old.brings = films
        BY <1>0, <3>3, <4>2 DEF LoadOk, Server
      <4>4. new.value = films'
        BY <2>2, <3>3, <4>3 DEF Local
      <4> QED
        BY <1>b, <2>2, <4>3, <4>4, Writers
    <3> QED
      BY <2>1, <2>4, <3>1, <3>2, <3>3 DEF Loading
  <2> QED
    BY <2>3, <2>4
<1>6. CASE store' = store /\ calls' = calls /\ films' = films /\ crossed' = crossed
  BY <1>6, LibraryUnchanged
<1> QED
  BY <1>1, <1>2, <1>3, <1>4, <1>5, <1>6 DEF Next, vars, FallDue

LEMMA SettingsUnchanged ==
  ASSUME SteadySettings, Typed, Typed', settings' = settings,
         store'["settings"].value = store["settings"].value,
         "settings" \in crossed => "settings" \in crossed',
         \A s \in Slots : calls'[s].op = "save" => calls'[s] = calls[s],
         \A s \in Slots : calls[s].op = "save" => calls'[s] = calls[s]
  PROVE  SteadySettings'
<1> SUFFICES ASSUME "settings" \notin crossed'
             PROVE  /\ ~Writing("settings")' => store'["settings"].value = settings'
                    /\ \A s \in Slots : calls'[s].op = "save" =>
                         /\ AheadSettings(calls'[s], store'["settings"].value, settings')
                         /\ \A t \in Slots : calls'[t].op = "save" => t = s
  BY DEF SteadySettings
<1>1. Writing("settings")' <=> Writing("settings")
  BY Writers, WritersNext
<1>2. ASSUME NEW s \in Slots, calls'[s].op = "save"
      PROVE  AheadSettings(calls'[s], store'["settings"].value, settings')
  <2>1. AheadSettings(calls[s], store["settings"].value, settings) /\ calls'[s] = calls[s]
    BY <1>2 DEF SteadySettings
  <2> QED
    BY <2>1
<1> QED
  BY <1>1, <1>2 DEF SteadySettings

LEMMA SettingsStep ==
  ASSUME Typed, Typed', LoadInv, SteadySettings, [Next]_vars
  PROVE  SteadySettings'
<1> DEFINE v == store["settings"].value
<1>0. /\ \A t \in Slots : calls[t] \in Call
      /\ calls \in [Slots -> Call]
      /\ LoadOk("settings")
  BY DEF Typed, TypeOK, LoadInv, Resources
<1>z. NoCall.op = "none" /\ "save" \notin OnFilms
  BY DEF NoCall, OnFilms
<1>b. ASSUME "settings" \notin crossed' =>
               /\ (\A s \in Slots : calls'[s].op # "save") => store'["settings"].value = settings'
               /\ \A s \in Slots : calls'[s].op = "save" =>
                    /\ AheadSettings(calls'[s], store'["settings"].value, settings')
                    /\ \A t \in Slots : calls'[t].op = "save" => t = s
      PROVE  SteadySettings'
  BY <1>b, WritersNext DEF SteadySettings
<1>c. ASSUME "settings" \in crossed' PROVE SteadySettings'
  BY <1>b, <1>c
<1>1. ASSUME NEW s \in Slots, Write(s) PROVE SteadySettings'
  <2>1. PICK c, st : Asking(s, c, st)
    BY <1>1, WriteAsks
  <2>2. /\ c \in Call /\ c # NoCall /\ c.pc = "sent" /\ Asks(c, st)
        /\ calls[s] = NoCall /\ calls' = [calls EXCEPT ![s] = c] /\ settings' = settings
        /\ crossed' = crossed \cup {Q \in Touches(c.op) : Writing(Q) \/ store[Q].status = "loading"}
    BY <2>1, AskShows DEF Asking
  <2>3. CASE c.op = "save"
    <3> SUFFICES ASSUME "settings" \notin crossed' PROVE SteadySettings'
      BY <1>c
    <3>1. "settings" \notin crossed /\ ~Writing("settings")
      BY <2>2, <2>3, TouchedBy
    <3>2. v = settings /\ \A t \in Slots : calls[t].op # "save"
      BY <3>1, Writers DEF SteadySettings
    <3>3. store'["settings"].value = c.next
      <4>1. store'["settings"] = Local("settings", c.next)
        BY <2>1, <2>3, AskShows
      <4> QED
        BY <4>1 DEF Local
    <3>4. AheadSettings(c, store'["settings"].value, settings')
      BY <2>2, <2>3, <3>2, <3>3 DEF Asks, AheadSettings
    <3> QED
      BY <1>0, <1>b, <2>2, <2>3, <3>2, <3>4
  <2>4. CASE c.op \in OnFilms
    <3>1. store'["settings"] = store["settings"]
      BY <1>z, <2>1, <2>4, AskShows
    <3> QED
      BY <1>0, <1>z, <2>2, <2>4, <3>1, SettingsUnchanged
  <2> QED
    BY <2>2, <2>3, <2>4, CallFields
<1>2. ASSUME NEW s \in Slots, Serve(s) PROVE SteadySettings'
  <2>1. PICK d : Answering(s, d)
    BY <1>2, ServeAnswers
  <2> DEFINE c == calls[s]
  <2>2. /\ store' = store /\ crossed' = crossed /\ calls' = [calls EXCEPT ![s] = d]
        /\ d.op = c.op /\ c \in Call /\ c # NoCall /\ c.pc = "sent" /\ d.pc = "done"
        /\ c.op = "save" => settings' = c.next /\ d.next = c.next
        /\ c.op \in OnFilms => settings' = settings
    BY <2>1 DEF Answering
  <2>3. CASE c.op = "save"
    <3> SUFFICES ASSUME "settings" \notin crossed' PROVE SteadySettings'
      BY <1>c
    <3>1. /\ AheadSettings(c, v, settings)
          /\ \A t \in Slots : calls[t].op = "save" => t = s
      BY <2>2, <2>3 DEF SteadySettings
    <3>2. AheadSettings(d, v, settings')
      BY <2>2, <2>3, <3>1 DEF AheadSettings
    <3> QED
      BY <1>0, <1>b, <2>2, <2>3, <3>1, <3>2
  <2>4. CASE c.op \in OnFilms
    BY <1>0, <1>z, <2>2, <2>4, SettingsUnchanged
  <2> QED
    BY <2>2, <2>3, <2>4, CallFields
<1>3. ASSUME NEW s \in Slots, Succeed(s) \/ Fail(s) PROVE SteadySettings'
  <2> DEFINE c == calls[s]
  <2>1. /\ c \in Call /\ c # NoCall /\ calls' = [calls EXCEPT ![s] = NoCall]
        /\ settings' = settings /\ crossed \subseteq crossed'
        /\ c.op # "save" => store'["settings"] = store["settings"]
    BY <1>3, SuccessSucceeds, FailFails DEF Succeeding, Failing
  <2>2. CASE c.op = "save"
    <3> SUFFICES ASSUME "settings" \notin crossed' PROVE SteadySettings'
      BY <1>c
    <3>1. /\ AheadSettings(c, v, settings)
          /\ \A t \in Slots : calls[t].op = "save" => t = s
      BY <2>1, <2>2 DEF SteadySettings
    <3>2. CASE Succeed(s)
      <4>1. store'["settings"] = Local("settings", c.next) /\ c.pc = "done"
        BY <2>2, <3>2, SuccessSucceeds DEF Succeeding
      <4>2. store'["settings"].value = settings'
        BY <2>1, <3>1, <4>1 DEF AheadSettings, Local
      <4> QED
        BY <1>0, <1>b, <1>z, <2>1, <3>1, <4>2
    <3>3. CASE Fail(s)
      <4>1. /\ store'["settings"] = Local("settings", c.previous)
            /\ c.pc = "done" => "settings" \in crossed'
        BY <2>1, <2>2, <3>3, FailFails, TouchedBy DEF Failing
      <4>2. c.pc = "sent"
        BY <2>1, <4>1, CallFields DEF Pc
      <4>3. store'["settings"].value = settings'
        BY <2>1, <3>1, <4>1, <4>2 DEF AheadSettings, Local
      <4> QED
        BY <1>0, <1>b, <1>z, <2>1, <3>1, <4>3
    <3> QED
      BY <1>3, <3>2, <3>3
  <2>3. CASE c.op # "save"
    BY <1>0, <1>z, <2>1, <2>3, SettingsUnchanged
  <2> QED
    BY <2>2, <2>3
<1>4. ASSUME NEW R \in Resources, Reload(R) \/ ServeLoad(R) \/ Loaded(R) \/ LoadFails(R)
      PROVE  SteadySettings'
  <2>1. Loading(R)
    BY <1>4, LoadLoads
  <2>2. calls' = calls /\ settings' = settings
    BY <2>1 DEF Loading
  <2>3. CASE R # "settings"
    <3>1. /\ store'["settings"] = store["settings"]
          /\ "settings" \in crossed => "settings" \in crossed'
      BY <2>1, <2>3 DEF Loading, Resources
    <3> QED
      BY <2>2, <3>1, SettingsUnchanged
  <2>4. CASE R = "settings"
    <3> DEFINE old == store["settings"]
               new == store'["settings"]
    <3>1. CASE /\ old.status # "loading" /\ new = Reloading(store, "settings")
               /\ crossed' = IF old.status = "error" \/ Writing("settings")
                             THEN crossed \cup {"settings"} ELSE crossed
      <4> SUFFICES ASSUME "settings" \notin crossed' PROVE SteadySettings'
        BY <1>c
      <4>1. old.status # "error"
        BY <3>1
      <4>2. new.value = old.value
        BY <3>1, <4>1 DEF Reloading
      <4> QED
        BY <2>2, <3>1, <4>2, SettingsUnchanged
    <3>2. CASE new.value = old.value /\ crossed' = crossed
      BY <2>2, <3>2, SettingsUnchanged
    <3>3. CASE /\ old.load = "served" /\ new = Local("settings", old.brings)
               /\ crossed' = IF old.clean THEN crossed \ {"settings"} ELSE crossed
      <4> SUFFICES ASSUME "settings" \notin crossed' PROVE SteadySettings'
        BY <1>c
      <4>1. old.status = "loading"
        BY <1>0, <3>3 DEF LoadOk
      <4>2. old.clean
        BY <1>0, <3>3, <4>1 DEF LoadOk, Kept
      <4>3. ~Writing("settings") /\ old.brings = settings
        BY <1>0, <3>3, <4>2 DEF LoadOk, Server
      <4>4. new.value = settings'
        BY <2>2, <3>3, <4>3 DEF Local
      <4> QED
        BY <1>b, <2>2, <4>3, <4>4, Writers
    <3>4. CASE "settings" \in crossed'
      BY <1>c, <3>4
    <3> QED
      BY <2>1, <2>4, <3>1, <3>2, <3>3, <3>4 DEF Loading
  <2> QED
    BY <2>3, <2>4
<1>5. CASE store' = store /\ calls' = calls /\ settings' = settings /\ crossed' = crossed
  BY <1>5, SettingsUnchanged
<1> QED
  BY <1>1, <1>2, <1>3, <1>4, <1>5 DEF Next, vars, FallDue

LEMMA CopiesInit == Init => LoadInv /\ SteadyLibrary /\ SteadySettings
<1> SUFFICES ASSUME Init PROVE LoadInv /\ SteadyLibrary /\ SteadySettings
  OBVIOUS
<1>1. \A s \in Slots : calls[s] = NoCall
  BY DEF Init
<1>2. ~Writing("films") /\ ~Writing("settings")
  BY <1>1 DEF Writing, NoCall, Touches
<1>3. ASSUME NEW R \in Resources PROVE LoadOk(R)
  <2>1. /\ store[R].status = "loading" /\ store[R].load = "sent"
        /\ store[R].clean = (R # "due")
    BY DEF Init, Fresh
  <2>2. R \in Kept <=> R # "due"
    BY DEF Kept, Resources
  <2>3. R # "due" => ~Writing(R)
    BY <1>2 DEF Resources
  <2>4. store[R].clean <=> R # "due"
    BY <2>1, Zenon
  <2> QED
    BY <2>1, <2>2, <2>3, <2>4 DEF LoadOk
<1> QED
  BY <1>3 DEF Init, LoadInv, SteadyLibrary, SteadySettings

-----------------------------------------------------------------------------

StoreInv == Typed /\ IdsInv /\ LoadInv /\ SteadyLibrary /\ SteadySettings

LEMMA StoreInvariant == Spec => []StoreInv
<1>1. Init => StoreInv
  BY TypeInit, LeftInit, CopiesInit DEF StoreInv
<1>2. StoreInv /\ [Next]_vars => StoreInv'
  BY TypeStep, IdsStep, LoadStep, LibraryStep, SettingsStep DEF StoreInv
<1> QED
  BY <1>1, <1>2, PTL DEF Spec

\* A settled copy that nothing overlapped is the server's, whatever sequence of edits, failures
\* and loads went before: no second round trip is needed after a write.
THEOREM SettledCopyIsServers == Spec => []SettledStoreIsServer
<1>1. StoreInv => SettledStoreIsServer
  BY DEF StoreInv, SteadyLibrary, SteadySettings, SettledStoreIsServer, Settled
<1> QED
  BY <1>1, StoreInvariant, PTL

\* Once the settings have been loaded, and until something overlaps or fails that may leave their
\* copy outdated, the PUT of one setting stores the other as it was.
THEOREM OtherSettingStays == Spec => OneSettingAtATime
<1> DEFINE Stays ==
      \A s \in Slots :
         Sent(s, "save") /\ calls'[s] # NoCall /\ calls'[s].pc = "done"
           /\ "settings" \notin crossed
         => \A field \in DOMAIN settings \ {calls[s].field} :
              settings'[field] = settings[field]
<1>1. ASSUME StoreInv, [Next]_vars PROVE [Stays]_vars
  <2> SUFFICES ASSUME NEW s \in Slots, Sent(s, "save"), calls'[s] # NoCall, calls'[s].pc = "done",
                      "settings" \notin crossed,
                      NEW field \in DOMAIN settings \ {calls[s].field}
               PROVE  settings'[field] = settings[field]
    BY DEF Stays
  <2>0. /\ calls \in [Slots -> Call] /\ DOMAIN settings = DOMAIN SettingsOff
        /\ calls[s].op = "save" /\ calls[s].pc = "sent" /\ calls[s] # NoCall
    BY <1>1 DEF StoreInv, Typed, TypeOK, Sent, NoCall, Settings, SettingsOff
  <2>1. AheadSettings(calls[s], store["settings"].value, settings)
    BY <1>1, <2>0 DEF StoreInv, SteadySettings
  <2>2. CASE calls'[s] = calls[s]
    BY <2>0, <2>2
  <2>3. CASE calls'[s] # calls[s]
    <3>1. PICK t \in Slots : Write(t) \/ Serve(t) \/ Succeed(t) \/ Fail(t)
      BY <1>1, <2>3 DEF Next, vars, Reload, ServeLoad, Loaded, LoadFails, FallDue
    <3>2. ~(Succeed(t) \/ Fail(t))
      BY <2>0, <2>3 DEF Succeed, Fail
    <3>3. ~Write(t)
      <4> SUFFICES ASSUME Write(t) PROVE FALSE
        OBVIOUS
      <4>1. PICK c, st : Asking(t, c, st)
        BY <1>1, WriteAsks DEF StoreInv
      <4> QED
        BY <2>0, <2>3, <4>1 DEF Asking, Begin
    <3>4. PICK d : Answering(t, d)
      BY <1>1, <3>1, <3>2, <3>3, ServeAnswers DEF StoreInv
    <3>5. t = s
      BY <2>0, <2>3, <3>4 DEF Answering
    <3>6. settings' = calls[s].next
      BY <2>0, <3>4, <3>5 DEF Answering
    <3> QED
      BY <2>0, <2>1, <3>6 DEF AheadSettings
  <2> QED
    BY <2>2, <2>3
<1>2. [][Stays]_vars <=> OneSettingAtATime
  BY PTL DEF OneSettingAtATime
<1> QED
  BY <1>1, <1>2, StoreInvariant, PTL DEF Spec
=============================================================================

--------------------------- MODULE LetterboxdSync ---------------------------
(***************************************************************************)
(* The Letterboxd review list (backend/app/letterboxd): syncs queue the    *)
(* new entries of the member's diary feed, the user approves, assigns or   *)
(* dismisses them, and reading the list resolves those whose watch is in   *)
(* the library by now.                                                     *)
(*                                                                         *)
(* The scheduled and the manual sync run in threads of their own: each     *)
(* fetches the feed, then holds _SYNC_LOCK while it walks it, newest logged*)
(* first, one action per entry, and commits what it has queued in one      *)
(* transaction.  The requests of the review list run beside them, one      *)
(* action per commit and one for what they read before it.                 *)
(*                                                                         *)
(* Abstractions: a film of Letterboxd stands for its slug and for its      *)
(* title and year; a film of the library may carry the one as its link and *)
(* the other among its titles.  What the film service does meanwhile       *)
(* (FilmTransactions) are single steps here.  Only watches on the days of  *)
(* the diary are kept; every library film has an older one.  The diary     *)
(* fits into the feed's 50 entries.                                        *)
(***************************************************************************)
EXTENDS Integers, Sequences, FiniteSets

CONSTANTS
    Scheduler, \* the thread of the scheduled sync
    Syncs,     \* it and those of the manual ones
    Requests,  \* the threads that serve the review list
    Entries,   \* diary entries, by guid
    Diary,     \* the films of Letterboxd
    Films,     \* film ids of the library
    LastDay,   \* bound on the clock
    Ahead,     \* how many days the member's date may be ahead of the server's
    SameDay,   \* TRUE when the diary may have two entries of one date
    ByHand,    \* TRUE when the user also logs watches in the app itself
    NoFilm     \* no such film, no link, no match

ASSUME LetterboxdAssumption ==
    /\ Scheduler \in Syncs
    /\ LastDay \in Nat /\ Ahead \in Nat
    /\ SameDay \in BOOLEAN /\ ByHand \in BOOLEAN
    /\ NoFilm \notin Diary \cup Films

VARIABLES
    today,    \* the server's date
    feed,     \* the feed, newest logged entry first
    entry,    \* entry[e]: what the diary says of e, once it is logged
    queue,    \* table letterboxd_entries: "none", "open" or "resolved"
    library,  \* library[f]: the link and the title of film f, or NoFilm
    watches,  \* the watches <<film, day>> of the library
    sync,     \* the syncs' local variables
    req,      \* the requests' local variables
    acted,    \* history: the entries assigned or dismissed so far
    late      \* history: the requests whose entry another has acted on since they found it

history == <<acted, late>>
vars == <<today, feed, entry, queue, library, watches, sync, req, acted, late>>
world == <<today, feed, entry>>

Days == 0..(LastDay + Ahead)
LogEntry == [film : Diary, watched_date : Days]
FilmRow == [letterboxd_url : Diary \cup {NoFilm}, title : Diary]
ASSUME RowAssumption == NoFilm \notin LogEntry \cup FilmRow

Syncing == [pc : {"idle", "fetched", "walking"}, entries : Seq(Entries), at : Nat \ {0},
            today : 0..LastDay, queued : SUBSET Entries]
Request == [pc : {"idle", "listed", "assign", "dismiss", "link",
                  "relink"},
            found : SUBSET Entries, entry : Entries \cup {NoFilm}, film : Films \cup {NoFilm}]

NoSync == [pc |-> "idle", entries |-> <<>>, at |-> 1, today |-> 0, queued |-> {}]
NoRequest == [pc |-> "idle", found |-> {}, entry |-> NoFilm, film |-> NoFilm]

TypeOK ==
    /\ today \in 0..LastDay
    /\ feed \in Seq(Entries)
    /\ entry \in [Entries -> LogEntry \cup {NoFilm}]
    /\ queue \in [Entries -> {"none", "open", "resolved"}]
    /\ library \in [Films -> FilmRow \cup {NoFilm}]
    /\ watches \subseteq Films \X Days
    /\ sync \in [Syncs -> Syncing]
    /\ req \in [Requests -> Request]
    /\ acted \subseteq Entries /\ late \subseteq Requests

Init ==
    /\ today = 0
    /\ feed = <<>>
    /\ entry = [e \in Entries |-> NoFilm]
    /\ queue = [e \in Entries |-> "none"]
    /\ library \in [Films -> FilmRow \cup {NoFilm}]
    /\ watches = {}
    /\ sync = [s \in Syncs |-> NoSync]
    /\ req = [r \in Requests |-> NoRequest]
    /\ acted = {} /\ late = {}

-----------------------------------------------------------------------------
(* The member and the rest of the app *)

Tick ==
    /\ today < LastDay
    /\ today' = today + 1
    /\ UNCHANGED <<feed, entry, queue, library, watches, sync, req, history>>

\* A diary entry is logged, for any day up to the member's own date.
Log(e, x, d) ==
    /\ entry[e] = NoFilm
    /\ d <= today + Ahead
    /\ SameDay \/ \A o \in Entries : entry[o] # NoFilm => entry[o].watched_date # d
    /\ entry' = [entry EXCEPT ![e] = [film |-> x, watched_date |-> d]]
    /\ feed' = <<e>> \o feed
    /\ UNCHANGED <<today, queue, library, watches, sync, req, history>>

\* FilmService: a film is created or edited, deleted, or watched.
StoreFilm(f, row) ==
    /\ library[f] # row
    /\ library' = [library EXCEPT ![f] = row]
    /\ watches' = {w \in watches : row # NoFilm \/ w[1] # f}
    /\ UNCHANGED <<world, queue, sync, req, history>>
LogByHand(f, d) ==
    /\ ByHand
    /\ library[f] # NoFilm
    /\ d <= today
    /\ watches' = watches \cup {<<f, d>>}
    /\ UNCHANGED <<world, queue, library, sync, req, history>>

-----------------------------------------------------------------------------
(* Matching *)

\* match_film: the one film with the entry's link, else the one with its title and year.
film_ids_by_slug(x) == {f \in Films : library[f] # NoFilm /\ library[f].letterboxd_url = x}
film_ids_by_title_year(x) == {f \in Films : library[f] # NoFilm /\ library[f].title = x}
TheOneOf(S) == IF Cardinality(S) = 1 THEN CHOOSE f \in S : TRUE ELSE NoFilm
match_film(x) ==
    LET bySlug == TheOneOf(film_ids_by_slug(x))
    IN  IF bySlug # NoFilm THEN bySlug ELSE TheOneOf(film_ids_by_title_year(x))

\* The film of entry e has a watch on the entry's date already.
WatchIsIn(e) == <<match_film(entry[e].film), entry[e].watched_date>> \in watches

-----------------------------------------------------------------------------
(* run_sync *)

SetSync(s, locals) ==
    sync' = [sync EXCEPT ![s] = locals] /\ UNCHANGED <<world, library, watches, req, history>>

\* The feed is fetched, and the date taken, before the lock.
Fetch(s) ==
    /\ sync[s].pc = "idle"
    /\ SetSync(s, [pc |-> "fetched", entries |-> feed, at |-> 1, today |-> today, queued |-> {}])
    /\ UNCHANGED queue

NoLock(s) == TRUE
LockFree(s) == \A t \in Syncs : sync[t].pc # "walking"

AcquireLock(s) ==
    /\ sync[s].pc = "fetched"
    /\ LockFree(s)
    /\ SetSync(s, [sync[s] EXCEPT !.pc = "walking"])
    /\ UNCHANGED queue

\* The stop rule: the entry is in the review list (in this transaction, too), or its watch
\* is in the library.
OfAFilmInTheLibrary(s, e) == queue[e] # "none" \/ match_film(entry[e].film) # NoFilm
IsKnown(s, e) == queue[e] # "none" \/ e \in sync[s].queued \/ WatchIsIn(e)

\* The loop's next round: a known entry ends the loop, a future one is skipped.
NothingQueued(s, e) == {}
QueuedBySlug(s, e) == {entry[e].film}
Queued(s, e) == IF entry[e].watched_date > sync[s].today THEN {} ELSE {e}

Walked(s) == sync[s].pc = "walking" /\ sync[s].at > Len(sync[s].entries)

Walk(s) ==
    /\ sync[s].pc = "walking"
    /\ ~Walked(s)
    /\ LET e == sync[s].entries[sync[s].at]
       IN  SetSync(s, IF IsKnown(s, e)
                        THEN [sync[s] EXCEPT !.at = Len(sync[s].entries) + 1]
                        ELSE [sync[s] EXCEPT !.at = @ + 1, !.queued = @ \cup Queued(s, e)])
    /\ UNCHANGED queue

\* The commit, which the unique guid guards, and the end of the lock.
CommitSync(s) ==
    /\ Walked(s)
    /\ \A e \in sync[s].queued : queue[e] = "none"
    /\ queue' = [e \in Entries |-> IF e \in sync[s].queued THEN "open" ELSE queue[e]]
    /\ SetSync(s, NoSync)

\* The feed is unreachable, a constraint rejects an insertion, the process dies.  (A commit
\* that fails leaves what an earlier failure leaves.)
FailSync(s) ==
    /\ sync[s].pc # "idle"
    /\ ~Walked(s)
    /\ SetSync(s, NoSync)
    /\ UNCHANGED queue
-----------------------------------------------------------------------------
(* The review list *)

Serve(r, locals) == req' = [req EXCEPT ![r] = locals] /\ UNCHANGED <<world, sync>>

\* list_open: the open entries whose watch is in the library are found ...
ListRead(r) ==
    /\ req[r].pc = "idle"
    /\ Serve(r, [NoRequest EXCEPT !.pc = "listed",
                                  !.found = {e \in Entries : queue[e] = "open" /\ WatchIsIn(e)}])
    /\ UNCHANGED <<queue, library, watches, history>>

\* ... and resolved, in one commit.
ListCommit(r) ==
    /\ req[r].pc = "listed"
    /\ queue' = [e \in Entries |-> IF e \in req[r].found THEN "resolved" ELSE queue[e]]
    /\ Serve(r, NoRequest)
    /\ UNCHANGED <<library, watches, history>>

\* _open_entry, for assign and dismiss: EntryResolvedError unless the entry is open.
AnyEntry(e) == queue[e] # "none"
Open(e) == queue[e] = "open"

FindOpen(r) ==
    /\ req[r].pc = "idle"
    /\ \E e \in Entries :
         /\ Open(e)
         /\ \/ Serve(r, [NoRequest EXCEPT !.pc = "dismiss", !.entry = e])
            \/ \E f \in Films : Serve(r, [NoRequest EXCEPT !.pc = "assign", !.entry = e, !.film = f])
    /\ late' = late \ {r}
    /\ UNCHANGED <<queue, library, watches, acted>>

\* Request r acts on entry e, which others may be about to act on, too.
AboutToAct(r, e) == req[r].pc \in {"assign", "dismiss"} /\ req[r].entry = e
Acted(r, e) ==
    /\ acted' = acted \cup {e}
    /\ late' = late \cup {p \in Requests \ {r} : AboutToAct(p, e)}

LeftOpen(e) == queue
Resolved(e) == [queue EXCEPT ![e] = "resolved"]

\* assign: add_rating commits the session, and with it the resolution of the entry.  An
\* unknown film, or a date still ahead of the server's, ends the request before that.
AssignWatch(r) ==
    LET e == req[r].entry
        f == req[r].film
    IN  /\ req[r].pc = "assign"
        /\ IF library[f] # NoFilm /\ entry[e].watched_date <= today
             THEN /\ watches' = watches \cup {<<f, entry[e].watched_date>>}
                  /\ queue' = Resolved(e)
                  /\ Serve(r, [req[r] EXCEPT !.pc = "link"])
                  /\ Acted(r, e)
             ELSE Serve(r, NoRequest) /\ UNCHANGED <<watches, queue, history>>
        /\ UNCHANGED library

\* Then get_detail: a film without a link is to get the entry's ...
ReadLink(r) ==
    LET f == req[r].film
    IN  /\ req[r].pc = "link"
        /\ IF library[f] # NoFilm /\ library[f].letterboxd_url = NoFilm
             THEN Serve(r, [req[r] EXCEPT !.pc = "relink"])
             ELSE Serve(r, NoRequest)
        /\ UNCHANGED <<queue, library, watches, history>>

\* ... by update, in a transaction of its own; a film that is gone by now fails it.
AssignLink(r) ==
    LET f == req[r].film
    IN  /\ req[r].pc = "relink"
        /\ library[f] # NoFilm
        /\ library' = [library EXCEPT ![f].letterboxd_url = entry[req[r].entry].film]
        /\ Serve(r, NoRequest)
        /\ UNCHANGED <<queue, watches, history>>

Dismiss(r) ==
    /\ req[r].pc = "dismiss"
    /\ queue' = [queue EXCEPT ![req[r].entry] = "resolved"]
    /\ Serve(r, NoRequest)
    /\ Acted(r, req[r].entry)
    /\ UNCHANGED <<library, watches>>

FailRequest(r) ==
    /\ req[r].pc # "idle"
    /\ Serve(r, NoRequest)
    /\ UNCHANGED <<queue, library, watches, history>>

-----------------------------------------------------------------------------

Member == Tick \/ \E e \in Entries, x \in Diary, d \in Days : Log(e, x, d)
App == \E f \in Films :
         \/ \E row \in FilmRow \cup {NoFilm} : StoreFilm(f, row)
         \/ \E d \in Days : LogByHand(f, d)
Run(s) == AcquireLock(s) \/ Walk(s) \/ CommitSync(s)
Review(r) ==
    \/ ListRead(r) \/ ListCommit(r) \/ FindOpen(r) \/ AssignWatch(r) \/ ReadLink(r)
    \/ AssignLink(r) \/ Dismiss(r) \/ FailRequest(r)

Next ==
    \/ Member \/ App
    \/ \E s \in Syncs : Fetch(s) \/ Run(s) \/ FailSync(s)
    \/ \E r \in Requests : Review(r)

Spec == Init /\ [][Next]_vars

\* run_periodically: the scheduler fetches the feed day after day and tries again after a
\* failure; threads go on, the lock is handed to those who wait for it, and from some time
\* on no sync fails.
FairSpec ==
    /\ Spec
    /\ \A s \in Syncs : SF_vars(AcquireLock(s)) /\ WF_vars(Walk(s)) /\ WF_vars(CommitSync(s))
    /\ WF_vars(Fetch(Scheduler))
    /\ <>[][\A s \in Syncs : ~FailSync(s)]_vars

-----------------------------------------------------------------------------

\* _SYNC_LOCK: what a sync has queued is queued by nobody else, so that its commit cannot
\* fail on the unique guid.
QueuedIsNew == \A s \in Syncs : \A e \in sync[s].queued : queue[e] = "none"

\* FR-LBX-05: every new entry is stored in the review list.  When a sync is through with a
\* feed, each entry of it that is not in the future is in the list, or its watch is in the
\* library; stopping at the first known entry has lost none.
NothingMissed ==
    \A s \in Syncs : Walked(s) =>
        \A i \in 1..Len(sync[s].entries) :
            LET e == sync[s].entries[i]
            IN  entry[e].watched_date <= sync[s].today
                  => queue[e] # "none" \/ e \in sync[s].queued \/ WatchIsIn(e)

\* FR-LBX-01: every entry of the diary reaches the review list in the end.
EveryEntryArrives == \A e \in Entries : entry[e] # NoFilm ~> queue[e] # "none"

\* FR-LBX-06: a resolved entry cannot be acted on again.  Whatever fails between the commits of
\* an assignment and is repeated, and however syncs and the automatic resolution write the table
\* beside it, a request is about to assign or dismiss an entry that has been acted on before only
\* when it had found the entry open before that: a watch is added once, or by requests that
\* overlap.
ActedOnOnce ==
    \A r \in Requests, e \in acted : AboutToAct(r, e) => r \in late
=============================================================================

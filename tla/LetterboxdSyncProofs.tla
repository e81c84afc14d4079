------------------------ MODULE LetterboxdSyncProofs ------------------------
(***************************************************************************)
(* What the review list of Letterboxd guarantees for any number of syncs,  *)
(* requests, entries and films: types, and that a sync queues nothing      *)
(* another has queued (from the lock), and that an entry once acted on is  *)
(* found open by nobody again.  For diaries of one watch a day that nobody *)
(* else logs, and clocks that agree: stopping at the first known entry     *)
(* passes none over.                                                       *)
(***************************************************************************)
EXTENDS LetterboxdSync, TLAPS

\* Whatever the feed, the table and the syncs hold is a logged entry.
Logged ==
    /\ \A i \in 1..Len(feed) : entry[feed[i]] # NoFilm
    /\ \A e \in Entries : queue[e] # "none" => entry[e] # NoFilm
    /\ \A s \in Syncs :
         /\ \A i \in 1..Len(sync[s].entries) : entry[sync[s].entries[i]] # NoFilm
         /\ \A e \in sync[s].queued : entry[e] # NoFilm

\* What a request works on is in the table.
OnStored(q) ==
    /\ \A e \in q.found : queue[e] # "none"
    /\ q.pc \notin {"idle", "listed"} => q.entry \in Entries /\ queue[q.entry] # "none"
    /\ q.pc \in {"assign", "link", "relink"} => q.film \in Films

TypeInv == TypeOK /\ Logged /\ \A r \in Requests : OnStored(req[r])

-----------------------------------------------------------------------------
(* Types *)

LEMMA NoLocals == NoSync \in Syncing /\ NoRequest \in Request
<1>1. 0 \in 0..LastDay
  BY LetterboxdAssumption
<1> QED BY <1>1 DEF NoSync, Syncing, NoRequest, Request

LEMMA SyncTyped ==
  ASSUME TypeOK, NEW s \in Syncs, NEW locals \in Syncing, SetSync(s, locals),
         queue' \in [Entries -> {"none", "open", "resolved"}]
  PROVE  TypeOK'
  BY DEF TypeOK, SetSync, world, history

LEMMA RequestTyped ==
  ASSUME TypeOK, NEW r \in Requests, NEW locals \in Request, Serve(r, locals),
         queue' \in [Entries -> {"none", "open", "resolved"}],
         library' \in [Films -> FilmRow \cup {NoFilm}],
         watches' \subseteq Films \X Days,
         acted' \subseteq Entries, late' \subseteq Requests
  PROVE  TypeOK'
  BY DEF TypeOK, Serve, world

LEMMA TypeStep ==
  ASSUME TypeInv, [Next]_vars
  PROVE  TypeOK'
<1> USE DEF TypeInv
<1>1. CASE UNCHANGED vars
  BY <1>1 DEF TypeOK, vars, history
<1>2. CASE Tick
  BY <1>2, LetterboxdAssumption DEF TypeOK, Tick, history
<1>3. ASSUME NEW e \in Entries, NEW x \in Diary, NEW d \in Days, Log(e, x, d)
      PROVE  TypeOK'
  <2>1. [film |-> x, watched_date |-> d] \in LogEntry
    BY DEF LogEntry
  <2>2. <<e>> \o feed \in Seq(Entries)
    BY DEF TypeOK
  <2> QED BY <1>3, <2>1, <2>2 DEF TypeOK, Log, history
<1>4. ASSUME NEW f \in Films, NEW row \in FilmRow \cup {NoFilm}, StoreFilm(f, row)
      PROVE  TypeOK'
  BY <1>4 DEF TypeOK, StoreFilm, world, history
<1>5. ASSUME NEW f \in Films, NEW d \in Days, LogByHand(f, d)
      PROVE  TypeOK'
  BY <1>5 DEF TypeOK, LogByHand, world, history
<1>6. ASSUME NEW s \in Syncs, Fetch(s) \/ Run(s) \/ FailSync(s)
      PROVE  TypeOK'
  <2>1. sync[s] \in Syncing /\ queue \in [Entries -> {"none", "open", "resolved"}]
    BY DEF TypeOK
  <2>2. CASE Fetch(s)
    <3>1. [pc |-> "fetched", entries |-> feed, at |-> 1, today |-> today, queued |-> {}]
            \in Syncing
      BY DEF TypeOK, Syncing
    <3> QED BY <2>1, <2>2, <3>1, SyncTyped DEF Fetch
  <2>3. CASE AcquireLock(s)
    <3>1. [sync[s] EXCEPT !.pc = "walking"] \in Syncing
      BY <2>1 DEF Syncing
    <3> QED BY <2>1, <2>3, <3>1, SyncTyped DEF AcquireLock
  <2>4. CASE Walk(s)
    <3> DEFINE e == sync[s].entries[sync[s].at]
    <3>1. [sync[s] EXCEPT !.at = Len(sync[s].entries) + 1] \in Syncing
      BY <2>1 DEF Syncing
    <3>2. sync[s].at \in 1..Len(sync[s].entries)
      BY <2>1, <2>4 DEF Walk, Walked, Syncing
    <3>3. Queued(s, e) \subseteq Entries
      BY <2>1, <3>2 DEF Syncing, Queued
    <3>4. sync[s].at + 1 \in Nat \ {0} /\ sync[s].queued \cup Queued(s, e) \subseteq Entries
      BY <2>1, <3>2, <3>3 DEF Syncing
    <3>5. [sync[s] EXCEPT !.at = @ + 1, !.queued = @ \cup Queued(s, e)] \in Syncing
      BY <2>1, <3>4 DEF Syncing
    <3> QED BY <2>1, <2>4, <3>1, <3>5, SyncTyped DEF Walk
  <2>5. CASE CommitSync(s)
    <3>1. queue' \in [Entries -> {"none", "open", "resolved"}]
      BY <2>1, <2>5 DEF CommitSync
    <3> QED BY <2>5, <3>1, SyncTyped, NoLocals DEF CommitSync
  <2>6. CASE FailSync(s)
    BY <2>1, <2>6, SyncTyped, NoLocals DEF FailSync
  <2> QED BY <1>6, <2>2, <2>3, <2>4, <2>5, <2>6 DEF Run
<1>7. ASSUME NEW r \in Requests, Review(r)
      PROVE  TypeOK'
  <2>1. /\ req[r] \in Request
        /\ queue \in [Entries -> {"none", "open", "resolved"}]
        /\ library \in [Films -> FilmRow \cup {NoFilm}]
        /\ watches \subseteq Films \X Days
        /\ acted \subseteq Entries /\ late \subseteq Requests
    BY DEF TypeOK
  <2>0. \A e : e \in Entries /\ Acted(r, e) => acted' \subseteq Entries /\ late' \subseteq Requests
    BY <2>1 DEF Acted
  <2>2. CASE ListRead(r)
    <3>1. [NoRequest EXCEPT !.pc = "listed",
             !.found = {e \in Entries : queue[e] = "open" /\ WatchIsIn(e)}] \in Request
      BY DEF NoRequest, Request
    <3> QED BY <2>1, <2>2, <3>1, RequestTyped DEF ListRead, history
  <2>3. CASE ListCommit(r)
    <3>1. queue' \in [Entries -> {"none", "open", "resolved"}]
      BY <2>1, <2>3 DEF ListCommit
    <3> QED BY <2>1, <2>3, <3>1, RequestTyped, NoLocals DEF ListCommit, history
  <2>4. CASE FindOpen(r)
    <3>1. ASSUME NEW e \in Entries
          PROVE  [NoRequest EXCEPT !.pc = "dismiss", !.entry = e] \in Request
      BY DEF NoRequest, Request
    <3>2. ASSUME NEW e \in Entries, NEW f \in Films
          PROVE  [NoRequest EXCEPT !.pc = "assign", !.entry = e, !.film = f] \in Request
      BY DEF NoRequest, Request
    <3> QED BY <2>1, <2>4, <3>1, <3>2, RequestTyped DEF FindOpen, history
  <2>5. CASE AssignWatch(r)
    <3> DEFINE e == req[r].entry
               f == req[r].film
    <3>1. [req[r] EXCEPT !.pc = "link"] \in Request
      BY <2>1 DEF Request
    <3>2. CASE Serve(r, NoRequest) /\ UNCHANGED <<watches, queue, history>>
      BY <2>1, <2>5, <3>2, RequestTyped, NoLocals DEF AssignWatch, history
    <3>3. CASE /\ Serve(r, [req[r] EXCEPT !.pc = "link"])
               /\ watches' = watches \cup {<<f, entry[e].watched_date>>}
               /\ queue' = Resolved(e)
               /\ Acted(r, e)
      <4>1. e \in Entries /\ f \in Films /\ entry[e] # NoFilm
        BY <2>5 DEF AssignWatch, OnStored, Logged
      <4>2. entry[e].watched_date \in Days
        BY <4>1 DEF TypeOK, LogEntry
      <4>3. watches' \subseteq Films \X Days
        BY <2>1, <3>3, <4>1, <4>2
      <4>4. queue' \in [Entries -> {"none", "open", "resolved"}]
        BY <2>1, <3>3 DEF Resolved
      <4>5. acted' \subseteq Entries /\ late' \subseteq Requests
        BY <2>0, <3>3, <4>1
      <4> QED BY <2>1, <2>5, <3>1, <3>3, <4>3, <4>4, <4>5, RequestTyped DEF AssignWatch
    <3> QED BY <2>5, <3>2, <3>3 DEF AssignWatch
  <2>6. CASE ReadLink(r)
    <3>1. [req[r] EXCEPT !.pc = "relink"] \in Request
      BY <2>1 DEF Request
    <3> QED BY <2>1, <2>6, <3>1, RequestTyped, NoLocals DEF ReadLink, history
  <2>7. CASE AssignLink(r)
    <3> DEFINE e == req[r].entry
               f == req[r].film
    <3>1. e \in Entries /\ f \in Films /\ entry[e] # NoFilm
      BY <2>7 DEF AssignLink, OnStored, Logged
    <3>2. entry[e].film \in Diary
      BY <3>1 DEF TypeOK, LogEntry
    <3>3. library[f] \in FilmRow
      BY <2>1, <2>7, <3>1 DEF AssignLink
    <3>4. [library[f] EXCEPT !.letterboxd_url = entry[e].film] \in FilmRow
      BY <3>2, <3>3 DEF FilmRow
    <3>5. library' \in [Films -> FilmRow \cup {NoFilm}]
      BY <2>1, <2>7, <3>4 DEF AssignLink
    <3> QED BY <2>1, <2>7, <3>5, RequestTyped, NoLocals DEF AssignLink, history
  <2>8. CASE Dismiss(r)
    <3>1. queue' \in [Entries -> {"none", "open", "resolved"}]
      BY <2>1, <2>8 DEF Dismiss
    <3>2. req[r].entry \in Entries
      BY <2>8 DEF Dismiss, OnStored
    <3>3. acted' \subseteq Entries /\ late' \subseteq Requests
      BY <2>8, <2>0, <3>2 DEF Dismiss
    <3> QED BY <2>1, <2>8, <3>1, <3>3, RequestTyped, NoLocals DEF Dismiss
  <2>9. CASE FailRequest(r)
    BY <2>1, <2>9, RequestTyped, NoLocals DEF FailRequest, history
  <2> QED BY <1>7, <2>2, <2>3, <2>4, <2>5, <2>6, <2>7, <2>8, <2>9 DEF Review
<1> QED
  BY <1>1, <1>2, <1>3, <1>4, <1>5, <1>6, <1>7 DEF Next, Member, App

-----------------------------------------------------------------------------
(* Entries, once logged, stay as they are; once queued, they stay in the table *)

LEMMA EntriesStay ==
  ASSUME TypeInv, [Next]_vars
  PROVE  /\ \A e \in Entries : entry[e] # NoFilm => entry'[e] = entry[e]
         /\ \A e \in Entries : queue[e] # "none" => queue'[e] # "none"
<1>1. entry \in [Entries -> LogEntry \cup {NoFilm}]
      /\ queue \in [Entries -> {"none", "open", "resolved"}]
  BY DEF TypeInv, TypeOK
<1>2. CASE UNCHANGED <<entry, queue>>
  BY <1>2
<1>3. CASE Member
  BY <1>1, <1>3 DEF Member, Tick, Log
<1>4. CASE App
  BY <1>2, <1>4 DEF App, StoreFilm, LogByHand, world
<1>5. ASSUME NEW s \in Syncs, Fetch(s) \/ Run(s) \/ FailSync(s)
      PROVE  /\ UNCHANGED entry
             /\ \A e \in Entries : queue[e] # "none" => queue'[e] # "none"
  BY <1>1, <1>5 DEF Fetch, Run, FailSync, AcquireLock, Walk, CommitSync, SetSync, world
<1>6. ASSUME NEW r \in Requests, Review(r)
      PROVE  /\ UNCHANGED entry
             /\ \A e \in Entries : queue[e] # "none" => queue'[e] # "none"
  <2>1. UNCHANGED entry
    BY <1>6 DEF Review, ListRead, ListCommit, FindOpen, AssignWatch, ReadLink, AssignLink,
                Dismiss, FailRequest, Serve, world
  <2>2. \A e \in Entries : queue'[e] \in {queue[e], "resolved"}
    BY <1>1, <1>6 DEF Review, ListRead, ListCommit, FindOpen, AssignWatch, ReadLink, AssignLink,
                Dismiss, FailRequest, Resolved
  <2> QED BY <2>1, <2>2
<1> QED
  BY <1>2, <1>3, <1>4, <1>5, <1>6 DEF Next, vars

\* Only a sync brings an entry into the table.
LEMMA ReviewQueuesNothing ==
  ASSUME TypeInv, NEW r \in Requests, Review(r), NEW e \in Entries, queue[e] = "none"
  PROVE  queue'[e] = "none"
<1>1. queue \in [Entries -> {"none", "open", "resolved"}]
  BY DEF TypeInv, TypeOK
<1>2. \A o \in req[r].found : queue[o] # "none"
  BY DEF TypeInv, OnStored
<1>3. req[r].pc \in {"assign", "dismiss"} => queue[req[r].entry] # "none"
  BY DEF TypeInv, OnStored
<1> QED
  BY <1>1, <1>2, <1>3
  DEF Review, ListRead, ListCommit, FindOpen, AssignWatch, ReadLink, AssignLink, Dismiss,
      FailRequest, Resolved

LEMMA LoggedParts ==
  ASSUME TypeInv
  PROVE  /\ \A i \in 1..Len(feed) : entry[feed[i]] # NoFilm
         /\ \A e \in Entries : queue[e] # "none" => entry[e] # NoFilm
         /\ \A s \in Syncs : \A i \in 1..Len(sync[s].entries) :
              entry[sync[s].entries[i]] # NoFilm
         /\ \A s \in Syncs : \A e \in sync[s].queued : entry[e] # NoFilm
<1>1. Logged
  BY DEF TypeInv
<1>2. ASSUME NEW s \in Syncs
      PROVE  /\ \A i \in 1..Len(sync[s].entries) : entry[sync[s].entries[i]] # NoFilm
             /\ \A e \in sync[s].queued : entry[e] # NoFilm
  BY <1>1, Zenon DEF Logged
<1>3. /\ \A i \in 1..Len(feed) : entry[feed[i]] # NoFilm
      /\ \A e \in Entries : queue[e] # "none" => entry[e] # NoFilm
  BY <1>1, Zenon DEF Logged
<1> QED BY <1>2, <1>3, Zenon

LEMMA LoggedStep ==
  ASSUME TypeInv, [Next]_vars
  PROVE  Logged'
<1>1. \A e \in Entries : entry[e] # NoFilm => entry'[e] # NoFilm
  BY EntriesStay
<1>2. /\ feed \in Seq(Entries)
      /\ sync \in [Syncs -> Syncing]
      /\ queue \in [Entries -> {"none", "open", "resolved"}]
      /\ entry \in [Entries -> LogEntry \cup {NoFilm}]
  BY DEF TypeInv, TypeOK
<1>3. \A s \in Syncs : sync[s].entries \in Seq(Entries) /\ sync[s].queued \subseteq Entries
  BY <1>2 DEF Syncing
<1>4. CASE UNCHANGED <<feed, queue, sync>>
  BY <1>1, <1>2, <1>3, <1>4 DEF TypeInv, Logged
<1>5. ASSUME NEW e \in Entries, NEW x \in Diary, NEW d \in Days, Log(e, x, d)
      PROVE  Logged'
  <2>1. feed' = <<e>> \o feed /\ UNCHANGED <<queue, sync>> /\ entry'[e] # NoFilm
    BY <1>2, <1>5, RowAssumption DEF Log, LogEntry
  <2>2. Len(feed') = Len(feed) + 1 /\ feed'[1] = e
        /\ \A i \in 2..Len(feed') : feed'[i] = feed[i - 1]
    BY <1>2, <2>1
  <2>3. ASSUME NEW i \in 1..Len(feed')
        PROVE  entry'[feed'[i]] # NoFilm
    <3>1. CASE i = 1
      BY <2>1, <2>2, <3>1
    <3>2. CASE i # 1
      <4>1. i - 1 \in 1..Len(feed) /\ feed'[i] = feed[i - 1]
        BY <1>2, <2>2, <3>2
      <4>2. feed[i - 1] \in Entries /\ entry[feed[i - 1]] # NoFilm
        BY <1>2, <4>1 DEF TypeInv, Logged
      <4> QED BY <1>1, <4>1, <4>2
    <3> QED BY <3>1, <3>2
  <2>4. \A o \in Entries : queue'[o] # "none" => entry'[o] # NoFilm
    BY <1>1, <2>1 DEF TypeInv, Logged
  <2>5. ASSUME NEW s \in Syncs
        PROVE  /\ \A i \in 1..Len(sync'[s].entries) : entry'[sync'[s].entries[i]] # NoFilm
               /\ \A o \in sync'[s].queued : entry'[o] # NoFilm
    <3>1. sync'[s] = sync[s]
      BY <2>1
    <3>2. \A i \in 1..Len(sync[s].entries) :
            sync[s].entries[i] \in Entries /\ entry[sync[s].entries[i]] # NoFilm
      <4> DEFINE es == sync[s].entries
      <4>1. \A i \in 1..Len(es) : entry[es[i]] # NoFilm
        BY LoggedParts, Zenon
      <4>2. es \in Seq(Entries)
        BY <1>3
      <4>3. \A i \in 1..Len(es) : es[i] \in Entries
        BY <4>2
      <4> QED BY <4>1, <4>3
    <3>3. \A o \in sync[s].queued : o \in Entries /\ entry[o] # NoFilm
      BY <1>3, LoggedParts, Zenon
    <3> QED BY <1>1, <3>1, <3>2, <3>3
  <2> QED BY <2>3, <2>4, <2>5 DEF Logged
<1>6. ASSUME NEW s \in Syncs, Fetch(s) \/ Run(s) \/ FailSync(s)
      PROVE  Logged'
  <2>1. UNCHANGED <<feed, entry>> /\ \A t \in Syncs \ {s} : sync'[t] = sync[t]
    BY <1>2, <1>6 DEF Fetch, Run, FailSync, AcquireLock, Walk, CommitSync, SetSync, world
  <2>2. SUFFICES /\ \A e \in Entries : queue'[e] # "none" => entry[e] # NoFilm
                 /\ \A i \in 1..Len(sync'[s].entries) : entry[sync'[s].entries[i]] # NoFilm
                 /\ \A e \in sync'[s].queued : entry[e] # NoFilm
    BY <2>1 DEF TypeInv, Logged
  <2>3. /\ \A e \in Entries : queue[e] # "none" => entry[e] # NoFilm
        /\ \A i \in 1..Len(feed) : entry[feed[i]] # NoFilm
        /\ \A i \in 1..Len(sync[s].entries) : entry[sync[s].entries[i]] # NoFilm
        /\ \A e \in sync[s].queued : entry[e] # NoFilm
        /\ Len(NoSync.entries) = 0 /\ NoSync.queued = {}
    <3>1. Len(NoSync.entries) = 0 /\ NoSync.queued = {}
      BY DEF NoSync
    <3> QED BY <3>1, LoggedParts, Zenon
  <2>4. CASE Fetch(s)
    <3>1. UNCHANGED queue /\ sync'[s].entries = feed /\ sync'[s].queued = {}
      BY <1>2, <2>4 DEF Fetch, SetSync, NoSync
    <3> QED BY <2>3, <3>1
  <2>5. CASE AcquireLock(s)
    <3>1. UNCHANGED queue /\ sync'[s].entries = sync[s].entries
          /\ sync'[s].queued = sync[s].queued
      BY <1>2, <2>5 DEF AcquireLock, SetSync, Syncing
    <3> QED BY <2>3, <3>1
  <2>6. CASE Walk(s)
    <3> DEFINE e == sync[s].entries[sync[s].at]
    <3>1. UNCHANGED queue /\ sync'[s].entries = sync[s].entries
          /\ sync'[s].queued \in {sync[s].queued, sync[s].queued \cup Queued(s, e)}
      BY <1>2, <2>6 DEF Walk, SetSync, Syncing
    <3>2. sync[s].at \in 1..Len(sync[s].entries)
      BY <1>2, <1>3, <2>6 DEF Walk, Walked, Syncing
    <3>3. \A o \in Queued(s, e) : entry[o] # NoFilm
      BY <2>3, <3>2 DEF Queued
    <3> QED BY <2>3, <3>1, <3>3
  <2>7. CASE CommitSync(s)
    <3>1. sync'[s] = NoSync
          /\ \A e \in Entries : queue'[e] # "none" => e \in sync[s].queued \/ queue[e] # "none"
      BY <1>2, <2>7 DEF CommitSync, SetSync
    <3> QED BY <2>3, <3>1
  <2>8. CASE FailSync(s)
    <3>1. UNCHANGED queue /\ sync'[s] = NoSync
      BY <1>2, <2>8 DEF FailSync, SetSync
    <3> QED BY <2>3, <3>1
  <2> QED BY <1>6, <2>4, <2>5, <2>6, <2>7, <2>8 DEF Run
<1>7. ASSUME NEW r \in Requests, Review(r)
      PROVE  Logged'
  <2>1. UNCHANGED <<feed, entry, sync>>
    BY <1>7 DEF Review, ListRead, ListCommit, FindOpen, AssignWatch, ReadLink, AssignLink,
                Dismiss, FailRequest, Serve, world
  <2>2. \A e \in Entries : queue'[e] # "none" => queue[e] # "none"
    BY <1>7, ReviewQueuesNothing
  <2> QED BY <2>1, <2>2 DEF TypeInv, Logged
<1> QED
  BY <1>4, <1>5, <1>6, <1>7
  DEF Next, Member, App, Tick, StoreFilm, LogByHand, world, vars

LEMMA BoundStep ==
  ASSUME TypeInv, [Next]_vars
  PROVE  \A r \in Requests : OnStored(req[r])'
<1>1. \A e \in Entries : queue[e] # "none" => queue'[e] # "none"
  BY EntriesStay
<1>2. \A r \in Requests : req[r].found \subseteq Entries /\ OnStored(req[r])
  BY DEF TypeInv, TypeOK, Request
<1>3. req \in [Requests -> Request] /\ queue \in [Entries -> {"none", "open", "resolved"}]
  BY DEF TypeInv, TypeOK
<1>4. ASSUME NEW r \in Requests, req'[r] = req[r]
      PROVE  OnStored(req[r])'
  BY <1>1, <1>2, <1>4 DEF OnStored
<1>5. CASE UNCHANGED req
  BY <1>4, <1>5
<1>6. ASSUME NEW r \in Requests, Review(r)
      PROVE  \A p \in Requests : OnStored(req[p])'
  <2>1. \A p \in Requests \ {r} : req'[p] = req[p]
    BY <1>3, <1>6 DEF Review, ListRead, ListCommit, FindOpen, AssignWatch, ReadLink, AssignLink,
                Dismiss, FailRequest, Serve
  <2>2. CASE req'[r] = NoRequest
    <3>1. OnStored(req[r])'
      BY <2>2 DEF OnStored, NoRequest
    <3> QED BY <1>4, <2>1, <3>1
  <2>3. CASE ListRead(r)
    <3>1. req'[r] = [NoRequest EXCEPT !.pc = "listed",
                       !.found = {e \in Entries : queue[e] = "open" /\ WatchIsIn(e)}]
          /\ UNCHANGED queue
      BY <1>3, <2>3 DEF ListRead, Serve
    <3>2. req'[r].pc = "listed" /\ \A e \in req'[r].found : queue'[e] # "none"
      BY <3>1 DEF NoRequest
    <3>3. OnStored(req[r])'
      BY <3>2 DEF OnStored
    <3> QED BY <1>4, <2>1, <3>3
  <2>4. CASE FindOpen(r)
    <3>1. UNCHANGED queue /\ \E e \in Entries :
            /\ queue[e] = "open"
            /\ \/ req'[r] = [NoRequest EXCEPT !.pc = "dismiss", !.entry = e]
               \/ \E f \in Films :
                    req'[r] = [NoRequest EXCEPT !.pc = "assign", !.entry = e, !.film = f]
      BY <1>3, <2>4 DEF FindOpen, Serve, Open
    <3>2. OnStored(req[r])'
      BY <3>1 DEF OnStored, NoRequest
    <3> QED BY <1>4, <2>1, <3>2
  <2>5. CASE AssignWatch(r) /\ Serve(r, [req[r] EXCEPT !.pc = "link"])
    <3>1. req'[r] = [req[r] EXCEPT !.pc = "link"]
      BY <1>3, <2>5 DEF Serve
    <3>2. req[r].pc = "assign"
      BY <2>5 DEF AssignWatch
    <3>3. OnStored(req[r])'
      BY <1>1, <1>2, <1>3, <3>1, <3>2 DEF OnStored, Request
    <3> QED BY <1>4, <2>1, <3>3
  <2>6. CASE ReadLink(r) /\ Serve(r, [req[r] EXCEPT !.pc = "relink"])
    <3>1. req'[r] = [req[r] EXCEPT !.pc = "relink"]
      BY <1>3, <2>6 DEF Serve
    <3>2. req[r].pc = "link"
      BY <2>6 DEF ReadLink
    <3>3. OnStored(req[r])'
      BY <1>1, <1>2, <1>3, <3>1, <3>2 DEF OnStored, Request
    <3> QED BY <1>4, <2>1, <3>3
  <2>7. Serve(r, NoRequest) => req'[r] = NoRequest
    BY <1>3 DEF Serve
  <2> QED
    BY <1>6, <2>2, <2>3, <2>4, <2>5, <2>6, <2>7
    DEF Review, ListCommit, AssignWatch, ReadLink, AssignLink, Dismiss, FailRequest
<1> QED
  BY <1>5, <1>6
  DEF Next, Member, App, Tick, Log, StoreFilm, LogByHand, Fetch, Run, FailSync, AcquireLock,
      Walk, CommitSync, SetSync, world, vars

LEMMA TypeInvStep == TypeInv /\ [Next]_vars => TypeInv'
  BY TypeStep, LoggedStep, BoundStep DEF TypeInv

LEMMA TypeInvInit == Init => TypeInv
<1> SUFFICES ASSUME Init PROVE TypeInv
  OBVIOUS
<1>1. 0 \in 0..LastDay
  BY LetterboxdAssumption
<1>2. TypeOK
  BY <1>1, NoLocals DEF Init, TypeOK
<1>3. Logged /\ \A r \in Requests : OnStored(req[r])
  BY DEF Init, Logged, OnStored, NoSync, NoRequest
<1> QED BY <1>2, <1>3 DEF TypeInv

\* The feed, the table, the library and the locals of every sync and request have their types,
\* and none of them refers to an entry that was never logged.
THEOREM ReviewListTyped == Spec => []TypeOK
<1>1. TypeInv => TypeOK
  BY DEF TypeInv
<1> QED BY <1>1, TypeInvInit, TypeInvStep, PTL DEF Spec

-----------------------------------------------------------------------------
(* What the lock is for *)

\* One sync walks at a time, nobody else has anything staged, and what is staged is new.
LockInv ==
    /\ \A s, t \in Syncs : sync[s].pc = "walking" /\ sync[t].pc = "walking" => s = t
    /\ \A s \in Syncs : sync[s].queued # {} => sync[s].pc = "walking"
    /\ QueuedIsNew

LEMMA LockStep ==
  ASSUME TypeInv, LockInv, [Next]_vars
  PROVE  LockInv'
<1>1. /\ sync \in [Syncs -> Syncing]
      /\ queue \in [Entries -> {"none", "open", "resolved"}]
      /\ \A s \in Syncs : sync[s].queued \subseteq Entries
  BY DEF TypeInv, TypeOK, Syncing
<1>2. CASE UNCHANGED <<sync, queue>>
  BY <1>2 DEF LockInv, QueuedIsNew
<1>3. ASSUME NEW r \in Requests, Review(r)
      PROVE  LockInv'
  <2>1. UNCHANGED sync
    BY <1>3 DEF Review, ListRead, ListCommit, FindOpen, AssignWatch, ReadLink, AssignLink,
                Dismiss, FailRequest, Serve
  <2> QED BY <1>1, <1>3, <2>1, ReviewQueuesNothing DEF LockInv, QueuedIsNew
<1>4. ASSUME NEW s \in Syncs, Fetch(s) \/ Run(s) \/ FailSync(s)
      PROVE  LockInv'
  <2>1. \A t \in Syncs \ {s} : sync'[t] = sync[t]
    BY <1>1, <1>4 DEF Fetch, Run, FailSync, AcquireLock, Walk, CommitSync, SetSync
  <2>2. NoSync.pc = "idle" /\ NoSync.queued = {}
    BY DEF NoSync
  <2>3. CASE Fetch(s)
    <3>1. UNCHANGED queue /\ sync'[s].pc = "fetched" /\ sync'[s].queued = {}
      BY <1>1, <2>3 DEF Fetch, SetSync
    <3> QED BY <2>1, <3>1 DEF LockInv, QueuedIsNew
  <2>4. CASE AcquireLock(s)
    <3>1. UNCHANGED queue /\ sync'[s].pc = "walking" /\ sync'[s].queued = sync[s].queued
      BY <1>1, <2>4 DEF AcquireLock, SetSync, Syncing
    <3>2. \A t \in Syncs : sync[t].pc # "walking"
      BY <2>4 DEF AcquireLock, LockFree
    <3> QED BY <2>1, <3>1, <3>2 DEF LockInv, QueuedIsNew
  <2>5. CASE Walk(s)
    <3> DEFINE e == sync[s].entries[sync[s].at]
    <3>1. UNCHANGED queue /\ sync[s].pc = "walking" /\ sync'[s].pc = "walking"
      BY <1>1, <2>5 DEF Walk, SetSync, Syncing
    <3>2. \/ sync'[s].queued = sync[s].queued
          \/ sync'[s].queued = sync[s].queued \cup Queued(s, e) /\ queue[e] = "none"
      BY <1>1, <2>5 DEF Walk, SetSync, Syncing, IsKnown
    <3>3. \A o \in sync'[s].queued : queue[o] = "none"
      BY <3>2 DEF LockInv, QueuedIsNew, Queued
    <3> QED BY <2>1, <3>1, <3>3 DEF LockInv, QueuedIsNew
  <2>6. CASE CommitSync(s)
    <3>1. sync'[s] = NoSync /\ sync[s].pc = "walking"
      BY <1>1, <2>6 DEF CommitSync, Walked, SetSync
    <3>2. \A t \in Syncs \ {s} : sync'[t].queued = {}
      BY <2>1, <3>1 DEF LockInv
    <3> QED BY <2>1, <2>2, <3>1, <3>2 DEF LockInv, QueuedIsNew
  <2>7. CASE FailSync(s)
    <3>1. UNCHANGED queue /\ sync'[s] = NoSync
      BY <1>1, <2>7 DEF FailSync, SetSync
    <3> QED BY <2>1, <2>2, <3>1 DEF LockInv, QueuedIsNew
  <2> QED BY <1>4, <2>3, <2>4, <2>5, <2>6, <2>7 DEF Run
<1> QED
  BY <1>2, <1>3, <1>4 DEF Next, Member, App, Tick, Log, StoreFilm, LogByHand, world, vars

\* However many syncs run at once, what one has staged nobody else has queued, so that its
\* commit is never rejected by the unique guid.
THEOREM NothingQueuedTwice == Spec => []QueuedIsNew
<1>1. Init => LockInv
  BY DEF Init, LockInv, QueuedIsNew, NoSync
<1>2. TypeInv /\ LockInv /\ [Next]_vars => LockInv'
  BY LockStep
<1>3. LockInv => QueuedIsNew
  BY DEF LockInv
<1> QED BY <1>1, <1>2, <1>3, TypeInvInit, TypeInvStep, PTL DEF Spec

-----------------------------------------------------------------------------
(* An entry is acted on once *)

\* An entry that has been acted on is resolved, for good.
ActedInv == ActedOnOnce /\ \A e \in acted : queue[e] = "resolved"

LEMMA ActedKept ==
  ASSUME TypeInv, ActedInv, UNCHANGED <<req, history>>,
         \A e \in Entries : queue[e] = "resolved" => queue'[e] = "resolved"
  PROVE  ActedInv'
<1>1. acted \subseteq Entries /\ UNCHANGED <<acted, late>>
  BY DEF TypeInv, TypeOK, history
<1> QED BY <1>1 DEF ActedInv, ActedOnOnce, AboutToAct

\* A request that acts on nothing, and is about to act on nothing afterwards.
LEMMA ActedServed ==
  ASSUME TypeInv, ActedInv, NEW r \in Requests, NEW locals \in Request, Serve(r, locals),
         locals.pc \notin {"assign", "dismiss"}, UNCHANGED history,
         \A e \in Entries : queue[e] = "resolved" => queue'[e] = "resolved"
  PROVE  ActedInv'
<1>1. acted \subseteq Entries /\ UNCHANGED <<acted, late>> /\ req \in [Requests -> Request]
  BY DEF TypeInv, TypeOK, history
<1>2. req'[r] = locals /\ \A p \in Requests \ {r} : req'[p] = req[p]
  BY <1>1 DEF Serve
<1>3. ASSUME NEW p \in Requests, NEW e \in acted, AboutToAct(p, e)'
      PROVE  p \in late
  <2>1. p # r
    BY <1>2, <1>3 DEF AboutToAct
  <2>2. AboutToAct(p, e)
    BY <1>2, <1>3, <2>1 DEF AboutToAct
  <2> QED BY <2>2 DEF ActedInv, ActedOnOnce
<1>4. ActedOnOnce'
  BY <1>1, <1>3 DEF ActedOnOnce
<1> QED BY <1>1, <1>4 DEF ActedInv

\* A request that acts: those that are about to act on the same entry are late from now on.
LEMMA ActedNow ==
  ASSUME TypeInv, ActedInv, NEW r \in Requests, NEW locals \in Request, Serve(r, locals),
         locals.pc \notin {"assign", "dismiss"}, NEW e \in Entries, Acted(r, e),
         queue' = [queue EXCEPT ![e] = "resolved"]
  PROVE  ActedInv'
<1>1. /\ acted \subseteq Entries /\ req \in [Requests -> Request]
      /\ queue \in [Entries -> {"none", "open", "resolved"}]
  BY DEF TypeInv, TypeOK
<1>2. req'[r] = locals /\ \A p \in Requests \ {r} : req'[p] = req[p]
  BY <1>1 DEF Serve
<1>3. ASSUME NEW p \in Requests, NEW o \in acted', AboutToAct(p, o)'
      PROVE  p \in late'
  <2>1. p # r
    BY <1>2, <1>3 DEF AboutToAct
  <2>2. AboutToAct(p, o)
    BY <1>2, <1>3, <2>1 DEF AboutToAct
  <2>3. CASE o \in acted
    BY <2>2, <2>3 DEF ActedInv, ActedOnOnce, Acted
  <2>4. CASE o = e
    BY <2>1, <2>2, <2>4 DEF Acted
  <2> QED BY <2>3, <2>4 DEF Acted
<1>4. ActedOnOnce'
  BY <1>3 DEF ActedOnOnce
<1>5. \A o \in acted' : queue'[o] = "resolved"
  BY <1>1 DEF ActedInv, Acted
<1> QED BY <1>4, <1>5 DEF ActedInv

LEMMA ActedStep ==
  ASSUME TypeInv, LockInv, ActedInv, [Next]_vars
  PROVE  ActedInv'
<1>1. /\ req \in [Requests -> Request]
      /\ queue \in [Entries -> {"none", "open", "resolved"}]
      /\ acted \subseteq Entries
  BY DEF TypeInv, TypeOK
<1>2. CASE UNCHANGED <<req, queue, history>>
  BY <1>2, ActedKept
<1>3. ASSUME NEW s \in Syncs, CommitSync(s)
      PROVE  ActedInv'
  <2>1. UNCHANGED <<req, history>>
    BY <1>3 DEF CommitSync, SetSync
  <2>2. \A e \in Entries : queue[e] = "resolved" => queue'[e] = "resolved"
    BY <1>1, <1>3 DEF CommitSync, LockInv, QueuedIsNew
  <2> QED BY <2>1, <2>2, ActedKept
<1>4. ASSUME NEW r \in Requests, Review(r)
      PROVE  ActedInv'
  <2>1. req[r] \in Request /\ NoRequest \in Request /\ NoRequest.pc = "idle"
    BY <1>1, NoLocals DEF NoRequest
  <2>2. CASE ListRead(r)
    <3> DEFINE found == {e \in Entries : queue[e] = "open" /\ WatchIsIn(e)}
               locals == [NoRequest EXCEPT !.pc = "listed", !.found = found]
    <3>1. locals \in Request /\ locals.pc = "listed"
      BY DEF NoRequest, Request
    <3>2. Serve(r, locals) /\ UNCHANGED <<queue, history>>
      BY <2>2 DEF ListRead
    <3> HIDE DEF locals
    <3> QED BY <3>1, <3>2, ActedServed
  <2>3. CASE ListCommit(r)
    <3>1. \A e \in Entries : queue[e] = "resolved" => queue'[e] = "resolved"
      BY <2>3 DEF ListCommit
    <3>2. Serve(r, NoRequest) /\ UNCHANGED history
      BY <2>3 DEF ListCommit
    <3> QED BY <2>1, <3>1, <3>2, ActedServed
  <2>4. CASE FindOpen(r)
    <3>1. PICK e \in Entries, locals \in Request :
            Serve(r, locals) /\ locals.entry = e /\ queue[e] = "open"
      <4>1. PICK e \in Entries :
              /\ queue[e] = "open"
              /\ \/ Serve(r, [NoRequest EXCEPT !.pc = "dismiss", !.entry = e])
                 \/ \E f \in Films :
                      Serve(r, [NoRequest EXCEPT !.pc = "assign", !.entry = e, !.film = f])
        BY <2>4 DEF FindOpen, Open
      <4>2. CASE Serve(r, [NoRequest EXCEPT !.pc = "dismiss", !.entry = e])
        <5>1. [NoRequest EXCEPT !.pc = "dismiss", !.entry = e] \in Request
              /\ [NoRequest EXCEPT !.pc = "dismiss", !.entry = e].entry = e
          BY DEF NoRequest, Request
        <5> QED BY <4>1, <4>2, <5>1
      <4>3. ASSUME NEW f \in Films,
                   Serve(r, [NoRequest EXCEPT !.pc = "assign", !.entry = e, !.film = f])
            PROVE  \E o \in Entries, locals \in Request :
                     Serve(r, locals) /\ locals.entry = o /\ queue[o] = "open"
        <5>1. [NoRequest EXCEPT !.pc = "assign", !.entry = e, !.film = f] \in Request
              /\ [NoRequest EXCEPT !.pc = "assign", !.entry = e, !.film = f].entry = e
          BY DEF NoRequest, Request
        <5> QED BY <4>1, <4>3, <5>1
      <4> QED BY <4>1, <4>2, <4>3
    <3>2. /\ UNCHANGED <<queue, acted>> /\ late' = late \ {r}
          /\ req'[r] = locals /\ \A p \in Requests \ {r} : req'[p] = req[p]
      BY <1>1, <2>4, <3>1 DEF FindOpen, Serve
    <3>3. ASSUME NEW p \in Requests, NEW o \in acted, AboutToAct(p, o)'
          PROVE  p \in late \ {r}
      <4>1. queue[o] = "resolved"
        BY DEF ActedInv
      <4>2. p # r
        BY <3>1, <3>2, <3>3, <4>1 DEF AboutToAct
      <4>3. AboutToAct(p, o)
        BY <3>2, <3>3, <4>2 DEF AboutToAct
      <4> QED BY <4>2, <4>3 DEF ActedInv, ActedOnOnce
    <3>4. ActedOnOnce'
      BY <3>2, <3>3 DEF ActedOnOnce
    <3> QED BY <3>2, <3>4 DEF ActedInv
  <2>5. CASE AssignWatch(r)
    <3>1. CASE Serve(r, NoRequest) /\ UNCHANGED <<queue, history>>
      BY <2>1, <3>1, ActedServed
    <3>2. CASE /\ Serve(r, [req[r] EXCEPT !.pc = "link"])
               /\ queue' = Resolved(req[r].entry)
               /\ Acted(r, req[r].entry)
      <4>1. [req[r] EXCEPT !.pc = "link"] \in Request /\ [req[r] EXCEPT !.pc = "link"].pc = "link"
        BY <2>1 DEF Request
      <4>2. req[r].entry \in Entries
        BY <2>5 DEF AssignWatch, TypeInv, OnStored
      <4>3. queue' = [queue EXCEPT ![req[r].entry] = "resolved"]
        BY <3>2 DEF Resolved
      <4> QED BY <3>2, <4>1, <4>2, <4>3, ActedNow
    <3> QED BY <2>5, <3>1, <3>2 DEF AssignWatch
  <2>6. CASE ReadLink(r)
    <3>1. [req[r] EXCEPT !.pc = "relink"] \in Request
          /\ [req[r] EXCEPT !.pc = "relink"].pc = "relink"
      BY <2>1 DEF Request
    <3>2. /\ Serve(r, NoRequest) \/ Serve(r, [req[r] EXCEPT !.pc = "relink"])
          /\ UNCHANGED <<queue, history>>
      BY <2>6 DEF ReadLink
    <3> QED BY <2>1, <3>1, <3>2, ActedServed
  <2>7. CASE AssignLink(r) \/ FailRequest(r)
    <3>1. Serve(r, NoRequest) /\ UNCHANGED <<queue, history>>
      BY <2>7 DEF AssignLink, FailRequest
    <3> QED BY <2>1, <3>1, ActedServed
  <2>8. CASE Dismiss(r)
    <3>1. req[r].entry \in Entries
      BY <2>8 DEF Dismiss, TypeInv, OnStored
    <3>2. /\ Serve(r, NoRequest) /\ Acted(r, req[r].entry)
          /\ queue' = [queue EXCEPT ![req[r].entry] = "resolved"]
      BY <2>8 DEF Dismiss
    <3> QED BY <2>1, <3>1, <3>2, ActedNow
  <2> QED BY <1>4, <2>2, <2>3, <2>4, <2>5, <2>6, <2>7, <2>8 DEF Review
<1> QED
  BY <1>2, <1>3, <1>4
  DEF Next, Member, App, Tick, Log, StoreFilm, LogByHand, Fetch, Run, FailSync, AcquireLock,
      Walk, SetSync, world, vars, history

\* FR-LBX-06, for any number of review requests and syncs, requests that fail between their
\* commits among them, and whatever else the user does: nobody is about to act on an entry that
\* has been acted on, but those who found it open before that.
THEOREM EntriesActedOnOnce == Spec => []ActedOnOnce
<1>1. Init => TypeInv /\ LockInv /\ ActedInv
  <2>1. Init => LockInv /\ ActedInv
    BY DEF Init, LockInv, QueuedIsNew, NoSync, ActedInv, ActedOnOnce
  <2> QED BY <2>1, TypeInvInit
<1>2. TypeInv /\ LockInv /\ ActedInv /\ [Next]_vars => (TypeInv /\ LockInv /\ ActedInv)'
  BY TypeInvStep, LockStep, ActedStep
<1>3. ActedInv => ActedOnOnce
  BY DEF ActedInv
<1> QED BY <1>1, <1>2, <1>3, PTL DEF Spec

-----------------------------------------------------------------------------
(* One watch a day, logged nowhere else, under clocks that agree *)

OneADay == Ahead = 0 /\ ~SameDay /\ ~ByHand

\* An entry is logged once, on a day of its own that is not in the future.
DiaryInv ==
    /\ \A i, j \in 1..Len(feed) : feed[i] = feed[j] => i = j
    /\ \A i \in 1..Len(feed) : entry[feed[i]].watched_date <= today
    /\ \A e, o \in Entries :
         entry[e] # NoFilm /\ entry[o] # NoFilm /\ entry[e].watched_date = entry[o].watched_date
           => e = o

\* The entries the table knows are the oldest ones of the feed.
DownClosed ==
    \A i, j \in 1..Len(feed) : i < j /\ queue[feed[i]] # "none" => queue[feed[j]] # "none"

\* A watch comes from an entry that has been acted on.
WatchesKnown ==
    \A f \in Films, d \in Days : <<f, d>> \in watches =>
        \E e \in Entries :
            entry[e] # NoFilm /\ entry[e].watched_date = d /\ queue[e] # "none"

\* What sync s walks is the older part of the feed, and what it has left behind is known to
\* the table or staged.
Older(s) ==
    /\ Len(sync[s].entries) <= Len(feed)
    /\ \A i \in 1..Len(sync[s].entries) :
         /\ sync[s].entries[i] = feed[i + (Len(feed) - Len(sync[s].entries))]
         /\ entry[sync[s].entries[i]].watched_date <= sync[s].today
Behind(s) ==
    /\ \A i \in 1..Len(sync[s].entries) :
         i < sync[s].at => queue[sync[s].entries[i]] # "none" \/ sync[s].entries[i] \in sync[s].queued
    /\ \A e \in sync[s].queued :
         \E i \in 1..Len(sync[s].entries) : i < sync[s].at /\ sync[s].entries[i] = e

MissInv == DiaryInv /\ DownClosed /\ WatchesKnown /\ \A s \in Syncs : Older(s) /\ Behind(s)

LEMMA FeedTyped ==
  ASSUME TypeInv
  PROVE  /\ today \in Nat /\ feed \in Seq(Entries)
         /\ entry \in [Entries -> LogEntry \cup {NoFilm}]
         /\ queue \in [Entries -> {"none", "open", "resolved"}]
         /\ sync \in [Syncs -> Syncing]
         /\ \A i \in 1..Len(feed) : feed[i] \in Entries /\ entry[feed[i]] # NoFilm
         /\ \A e \in Entries : entry[e] # NoFilm => entry[e].watched_date \in Nat
         /\ \A s \in Syncs :
              /\ sync[s].entries \in Seq(Entries)
              /\ sync[s].at \in Nat \ {0}
              /\ sync[s].today \in Nat
              /\ sync[s].queued \subseteq Entries
<1>1. feed \in Seq(Entries)
  BY DEF TypeInv, TypeOK
<1>2. \A i \in 1..Len(feed) : feed[i] \in Entries /\ entry[feed[i]] # NoFilm
  BY <1>1, LoggedParts
<1>3. 0..LastDay \subseteq Nat /\ Days \subseteq Nat
  BY LetterboxdAssumption DEF Days
<1>4. /\ today \in Nat
      /\ entry \in [Entries -> LogEntry \cup {NoFilm}]
      /\ queue \in [Entries -> {"none", "open", "resolved"}]
      /\ sync \in [Syncs -> Syncing]
  BY <1>3 DEF TypeInv, TypeOK
<1>5. \A e \in Entries : entry[e] # NoFilm => entry[e].watched_date \in Nat
  BY <1>3, <1>4 DEF LogEntry
<1>6. \A s \in Syncs :
        /\ sync[s].entries \in Seq(Entries)
        /\ sync[s].at \in Nat \ {0}
        /\ sync[s].today \in Nat
        /\ sync[s].queued \subseteq Entries
  BY <1>3, <1>4 DEF Syncing
<1> QED BY <1>1, <1>2, <1>4, <1>5, <1>6

\* A step that logs nothing, and lets the table only grow, keeps what concerns the diary.
LEMMA DiaryKept ==
  ASSUME TypeInv, MissInv, today' \in Nat, today <= today', UNCHANGED <<feed, entry>>
  PROVE  DiaryInv'
<1>1. \A i \in 1..Len(feed) : feed[i] \in Entries /\ entry[feed[i]] # NoFilm
                              /\ entry[feed[i]].watched_date <= today
  BY FeedTyped DEF MissInv, DiaryInv
<1>2. \A i \in 1..Len(feed) : entry[feed[i]].watched_date \in Nat
  BY <1>1, FeedTyped
<1>3. \A i \in 1..Len(feed) : entry[feed[i]].watched_date <= today'
  BY <1>1, <1>2, FeedTyped
<1> QED BY <1>3, Zenon DEF MissInv, DiaryInv

LEMMA WatchesKept ==
  ASSUME TypeInv, MissInv, [Next]_vars, watches' \subseteq watches
  PROVE  WatchesKnown'
<1> SUFFICES ASSUME NEW f \in Films, NEW d \in Days, <<f, d>> \in watches
             PROVE  \E e \in Entries :
                      entry'[e] # NoFilm /\ entry'[e].watched_date = d /\ queue'[e] # "none"
  BY DEF WatchesKnown
<1>1. PICK e \in Entries : entry[e] # NoFilm /\ entry[e].watched_date = d /\ queue[e] # "none"
  BY DEF MissInv, WatchesKnown
<1> QED BY <1>1, EntriesStay

\* The same entries under a feed and a table that may have grown.
LEMMA SyncKept ==
  ASSUME TypeInv, MissInv, [Next]_vars, NEW s \in Syncs, sync'[s] = sync[s], UNCHANGED feed
  PROVE  Older(s)' /\ Behind(s)'
<1> DEFINE es == sync[s].entries
<1>1. \A i \in 1..Len(es) : es[i] \in Entries /\ entry[es[i]] # NoFilm
  BY FeedTyped, LoggedParts
<1>2. \A i \in 1..Len(es) : entry'[es[i]] = entry[es[i]]
  BY <1>1, EntriesStay
<1>3. \A i \in 1..Len(es) : queue[es[i]] # "none" => queue'[es[i]] # "none"
  BY <1>1, EntriesStay
<1>4. Older(s)'
  <2>1. Older(s)
    BY DEF MissInv
  <2>2. \A i \in 1..Len(es) : entry'[es[i]].watched_date <= sync[s].today
    BY <1>2, <2>1, Zenon DEF Older
  <2>3. /\ Len(es) <= Len(feed)
        /\ \A i \in 1..Len(es) : es[i] = feed[i + (Len(feed) - Len(es))]
    BY <2>1, Zenon DEF Older
  <2> QED BY <2>2, <2>3, Zenon DEF Older
<1>5. Behind(s)'
  BY <1>3 DEF MissInv, Behind
<1> QED BY <1>4, <1>5

\* When the same entries are known as before, the known ones are still the oldest.
LEMMA ClosedKept ==
  ASSUME TypeInv, MissInv, [Next]_vars, UNCHANGED feed,
         \A e \in Entries : queue[e] = "none" => queue'[e] = "none"
  PROVE  DownClosed'
<1>1. \A i \in 1..Len(feed) : queue'[feed[i]] # "none" <=> queue[feed[i]] # "none"
  BY FeedTyped, EntriesStay
<1> QED BY <1>1 DEF MissInv, DownClosed

LEMMA LogMisses ==
  ASSUME TypeInv, MissInv, OneADay, [Next]_vars,
         NEW e \in Entries, NEW x \in Diary, NEW d \in Days, Log(e, x, d)
  PROVE  MissInv'
<1>1. /\ entry[e] = NoFilm /\ d <= today
      /\ \A o \in Entries : entry[o] # NoFilm => entry[o].watched_date # d
      /\ entry' = [entry EXCEPT ![e] = [film |-> x, watched_date |-> d]]
      /\ feed' = <<e>> \o feed
      /\ UNCHANGED <<today, queue, watches, sync>>
  BY FeedTyped DEF Log, OneADay
<1>2. /\ Len(feed') = Len(feed) + 1
      /\ feed'[1] = e
      /\ \A i \in 2..Len(feed') : feed'[i] = feed[i - 1] /\ i - 1 \in 1..Len(feed)
      /\ \A i \in 1..Len(feed) : feed'[i + 1] = feed[i]
  BY <1>1, FeedTyped
<1>3. entry'[e].watched_date = d /\ \A o \in Entries \ {e} : entry'[o] = entry[o]
  BY <1>1, FeedTyped
<1>4. \A i \in 1..Len(feed) : feed[i] \in Entries \ {e}
  BY <1>1, FeedTyped
<1>5. DiaryInv'
  <2>1. \A i, j \in 1..Len(feed') : feed'[i] = feed'[j] => i = j
    <3> SUFFICES ASSUME NEW i \in 1..Len(feed'), NEW j \in 1..Len(feed'), feed'[i] = feed'[j]
                 PROVE  i = j
      OBVIOUS
    <3>1. \A k \in 1..Len(feed') : feed'[k] = e => k = 1
      <4> SUFFICES ASSUME NEW k \in 1..Len(feed'), k # 1
                   PROVE  feed'[k] # e
        OBVIOUS
      <4>1. k \in 2..Len(feed')
        BY <1>2, FeedTyped
      <4> QED BY <1>2, <1>4, <4>1
    <3>2. CASE i = 1 \/ j = 1
      BY <1>2, <3>1, <3>2
    <3>3. CASE i # 1 /\ j # 1
      <4>1. feed[i - 1] = feed[j - 1] /\ i - 1 \in 1..Len(feed) /\ j - 1 \in 1..Len(feed)
        BY <1>2, <3>3, FeedTyped
      <4>2. i - 1 = j - 1
        BY <4>1 DEF MissInv, DiaryInv
      <4> QED BY <4>2, FeedTyped
    <3> QED BY <3>2, <3>3
  <2>2. \A i \in 1..Len(feed') : entry'[feed'[i]].watched_date <= today'
    <3> SUFFICES ASSUME NEW i \in 1..Len(feed')
                 PROVE  entry'[feed'[i]].watched_date <= today
      BY <1>1
    <3>1. CASE i = 1
      BY <1>1, <1>2, <1>3, <3>1
    <3>2. CASE i # 1
      <4>1. feed'[i] = feed[i - 1] /\ i - 1 \in 1..Len(feed)
        BY <1>2, <3>2, FeedTyped
      <4>2. entry[feed[i - 1]].watched_date <= today
        BY <4>1 DEF MissInv, DiaryInv
      <4> QED BY <1>3, <1>4, <4>1, <4>2
    <3> QED BY <3>1, <3>2
  <2>3. \A o, p \in Entries :
          entry'[o] # NoFilm /\ entry'[p] # NoFilm
          /\ entry'[o].watched_date = entry'[p].watched_date => o = p
    <3>1. \A o \in Entries \ {e} :
            entry'[o] # NoFilm => entry[o] # NoFilm /\ entry'[o].watched_date # d
      BY <1>1, <1>3
    <3>2. \A o, p \in Entries \ {e} :
            entry'[o] # NoFilm /\ entry'[p] # NoFilm
            /\ entry'[o].watched_date = entry'[p].watched_date => o = p
      BY <1>3 DEF MissInv, DiaryInv
    <3> QED BY <1>3, <3>1, <3>2
  <2> QED BY <2>1, <2>2, <2>3 DEF DiaryInv
<1>6. DownClosed'
  <2> SUFFICES ASSUME NEW i \in 1..Len(feed'), NEW j \in 1..Len(feed'), i < j,
                      queue[feed'[i]] # "none"
               PROVE  queue[feed'[j]] # "none"
    BY <1>1 DEF DownClosed
  <2>1. queue[e] = "none"
    BY <1>1, LoggedParts, FeedTyped
  <2>2. i # 1 /\ j # 1
    BY <1>2, <2>1
  <2>3. /\ feed'[i] = feed[i - 1] /\ i - 1 \in 1..Len(feed)
        /\ feed'[j] = feed[j - 1] /\ j - 1 \in 1..Len(feed)
        /\ i - 1 < j - 1
    BY <1>2, <2>2, FeedTyped
  <2> QED BY <2>3 DEF MissInv, DownClosed
<1>7. WatchesKnown'
  BY <1>1, WatchesKept
<1>8. ASSUME NEW s \in Syncs
      PROVE  Older(s)' /\ Behind(s)'
  <2> DEFINE es == sync[s].entries
  <2>1. es \in Seq(Entries) /\ feed \in Seq(Entries) /\ UNCHANGED <<sync, queue>>
    BY <1>1, FeedTyped
  <2>2. Older(s)
    BY DEF MissInv
  <2>3. /\ Len(es) <= Len(feed)
        /\ \A i \in 1..Len(es) : es[i] = feed[i + (Len(feed) - Len(es))]
        /\ \A i \in 1..Len(es) : entry[es[i]].watched_date <= sync[s].today
    BY <2>2, Zenon DEF Older
  <2>4. ASSUME NEW i \in 1..Len(es)
        PROVE  /\ es[i] = feed'[i + (Len(feed') - Len(es))]
               /\ entry'[es[i]].watched_date <= sync[s].today
    <3>1. i + (Len(feed) - Len(es)) \in 1..Len(feed)
      BY <2>1, <2>3
    <3>2. feed'[(i + (Len(feed) - Len(es))) + 1] = es[i] /\ es[i] \in Entries \ {e}
      BY <1>2, <1>4, <2>3, <3>1
    <3>3. (i + (Len(feed) - Len(es))) + 1 = i + (Len(feed') - Len(es))
      <4>1. Len(feed) \in Nat /\ Len(es) \in Nat /\ i \in Nat /\ Len(feed') = Len(feed) + 1
        BY <1>2, <2>1
      <4> HIDE DEF es
      <4> QED BY <4>1
    <3> QED BY <1>3, <2>3, <3>2, <3>3
  <2>5. Len(es) <= Len(feed')
    BY <1>2, <2>1, <2>3
  <2>6. Older(s)'
    BY <2>1, <2>4, <2>5 DEF Older
  <2>7. Behind(s)'
    BY <2>1 DEF MissInv, Behind
  <2> QED BY <2>6, <2>7
<1> QED BY <1>5, <1>6, <1>7, <1>8 DEF MissInv

\* A commit brings the staged entries into the table: all that is newer than what it knew.
LEMMA CommitMisses ==
  ASSUME TypeInv, MissInv, [Next]_vars, NEW s \in Syncs, CommitSync(s)
  PROVE  DownClosed'
<1> DEFINE es == sync[s].entries
           shift == Len(feed) - Len(es)
<1>1. /\ UNCHANGED feed
      /\ sync[s].at > Len(es)
      /\ queue' = [e \in Entries |-> IF e \in sync[s].queued THEN "open" ELSE queue[e]]
  BY DEF CommitSync, Walked, SetSync, world
<1>2. es \in Seq(Entries) /\ sync[s].at \in Nat /\ feed \in Seq(Entries)
  BY FeedTyped
<1>3. Older(s) /\ Behind(s)
  BY DEF MissInv
<1>4. Len(es) <= Len(feed) /\ \A i \in 1..Len(es) : es[i] = feed[i + shift]
  BY <1>3, Zenon DEF Older
<1>5. ASSUME NEW i \in 1..Len(es)
      PROVE  queue'[es[i]] # "none"
  <2>1. i < sync[s].at
    BY <1>1, <1>2
  <2>2. queue[es[i]] # "none" \/ es[i] \in sync[s].queued
    BY <1>3, <2>1, Zenon DEF Behind
  <2>3. es[i] \in Entries
    BY <1>2
  <2> QED BY <1>1, <2>2, <2>3
<1>6. ASSUME NEW e \in sync[s].queued
      PROVE  \E i \in 1..Len(es) : es[i] = e
  BY <1>3, Zenon DEF Behind
<1> SUFFICES ASSUME NEW i \in 1..Len(feed), NEW j \in 1..Len(feed), i < j,
                    queue'[feed[i]] # "none"
             PROVE  queue'[feed[j]] # "none"
  BY <1>1 DEF DownClosed
<1>7. feed[i] \in Entries /\ feed[j] \in Entries
  BY <1>2
<1>8. CASE queue[feed[i]] # "none"
  <2>1. queue[feed[j]] # "none"
    BY <1>8 DEF MissInv, DownClosed
  <2> QED BY <1>7, <2>1, EntriesStay
<1>9. CASE feed[i] \in sync[s].queued
  <2>1. PICK k \in 1..Len(es) : es[k] = feed[i]
    BY <1>6, <1>9
  <2>2. feed[k + shift] = feed[i] /\ k + shift \in 1..Len(feed)
    <3>1. Len(feed) \in Nat /\ Len(es) \in Nat /\ k \in Nat /\ k <= Len(es)
      BY <1>2
    <3>2. k + shift \in 1..Len(feed)
      <4> HIDE DEF es
      <4> QED BY <1>4, <2>1, <3>1
    <3> QED BY <1>4, <2>1, <3>2
  <2>3. k + shift = i
    BY <2>2 DEF MissInv, DiaryInv
  <2>4. j - shift \in 1..Len(es) /\ (j - shift) + shift = j
    BY <1>2, <1>4, <2>3
  <2>5. es[j - shift] = feed[j]
    BY <1>4, <2>4
  <2> QED BY <1>5, <2>4, <2>5
<1> QED BY <1>1, <1>7, <1>8, <1>9

\* What a step of sync s may do to its own locals.
LEMMA FetchMisses ==
  ASSUME TypeInv, MissInv, NEW s \in Syncs, Fetch(s)
  PROVE  Older(s)' /\ Behind(s)'
<1>1. /\ UNCHANGED <<feed, entry, queue>>
      /\ sync'[s] = [pc |-> "fetched", entries |-> feed, at |-> 1, today |-> today,
                     queued |-> {}]
  BY FeedTyped DEF Fetch, SetSync, world
<1>2. \A i \in 1..Len(feed) : entry[feed[i]].watched_date <= today
                             /\ i + (Len(feed) - Len(feed)) = i /\ ~(i < 1)
  BY FeedTyped DEF MissInv, DiaryInv
<1>3. Len(feed) <= Len(feed)
  BY FeedTyped
<1> QED BY <1>1, <1>2, <1>3 DEF Older, Behind

LEMMA WalkMisses ==
  ASSUME TypeInv, MissInv, NEW s \in Syncs, Walk(s)
  PROVE  Older(s)' /\ Behind(s)'
<1> DEFINE es == sync[s].entries
           at == sync[s].at
           e == es[at]
<1>1. /\ UNCHANGED <<feed, entry, queue>>
      /\ sync'[s].entries = es /\ sync'[s].today = sync[s].today
      /\ IF IsKnown(s, e)
           THEN sync'[s].at = Len(es) + 1 /\ sync'[s].queued = sync[s].queued
           ELSE sync'[s].at = at + 1 /\ sync'[s].queued = sync[s].queued \cup Queued(s, e)
  <2>1. sync \in [Syncs -> Syncing]
    BY FeedTyped
  <2> QED BY <2>1 DEF Walk, SetSync, world, Syncing
<1>2. es \in Seq(Entries) /\ at \in 1..Len(es)
  BY FeedTyped DEF Walk, Walked
<1>3. Older(s) /\ Behind(s)
  BY DEF MissInv
<1>4. Older(s)'
  BY <1>1, <1>3 DEF Older
<1>5. /\ Len(es) <= Len(feed)
      /\ \A i \in 1..Len(es) : es[i] = feed[i + (Len(feed) - Len(es))]
      /\ \A i \in 1..Len(es) : entry[es[i]].watched_date <= sync[s].today
  BY <1>3, Zenon DEF Older
<1>6. /\ \A i \in 1..Len(es) : i < at => queue[es[i]] # "none" \/ es[i] \in sync[s].queued
      /\ \A o \in sync[s].queued : \E i \in 1..Len(es) : i < at /\ es[i] = o
  BY <1>3, Zenon DEF Behind
<1>7. \A i \in 1..Len(es) : i + (Len(feed) - Len(es)) \in 1..Len(feed)
  <2>1. Len(es) \in Nat /\ Len(feed) \in Nat /\ Len(es) <= Len(feed)
    BY <1>2, <1>5, FeedTyped
  <2> HIDE DEF es
  <2> QED BY <2>1
<1>8. CASE ~IsKnown(s, e)
  <2>1. Queued(s, e) = {e}
    BY <1>2, <1>5, FeedTyped, LoggedParts DEF Queued
  <2>2. sync'[s].at = at + 1 /\ sync'[s].queued = sync[s].queued \cup {e}
    BY <1>1, <1>8, <2>1
  <2>3. \A i \in 1..Len(es) :
          i < at + 1 => queue[es[i]] # "none" \/ es[i] \in sync[s].queued \cup {e}
    BY <1>2, <1>6
  <2>4. \A o \in sync[s].queued \cup {e} : \E i \in 1..Len(es) : i < at + 1 /\ es[i] = o
    BY <1>2, <1>6
  <2>5. Behind(s)'
    BY <1>1, <2>2, <2>3, <2>4 DEF Behind
  <2> QED BY <1>4, <2>5
<1>9. CASE IsKnown(s, e)
  <2>1. e \notin sync[s].queued
    <3> SUFFICES ASSUME e \in sync[s].queued PROVE FALSE
      OBVIOUS
    <3>1. PICK i \in 1..Len(es) : i < at /\ es[i] = e
      BY <1>6
    <3>2. i + (Len(feed) - Len(es)) = at + (Len(feed) - Len(es))
      <4>1. feed[i + (Len(feed) - Len(es))] = e /\ feed[at + (Len(feed) - Len(es))] = e
        BY <1>2, <1>5, <3>1
      <4>2. /\ i + (Len(feed) - Len(es)) \in 1..Len(feed)
            /\ at + (Len(feed) - Len(es)) \in 1..Len(feed)
        BY <1>2, <1>7
      <4>3. \A k, l \in 1..Len(feed) : feed[k] = feed[l] => k = l
        BY DEF MissInv, DiaryInv
      <4> HIDE DEF es, at, e
      <4> QED BY <4>1, <4>2, <4>3
    <3>3. Len(es) \in Nat /\ Len(feed) \in Nat /\ i \in Nat /\ at \in Nat
      BY <1>2, FeedTyped
    <3> HIDE DEF es, at
    <3> QED BY <3>1, <3>2, <3>3
  <2>2. queue[e] # "none"
    <3> SUFFICES ASSUME WatchIsIn(e) PROVE queue[e] # "none"
      BY <1>9, <2>1 DEF IsKnown
    <3>1. e \in Entries /\ entry[e] # NoFilm
      BY <1>2, LoggedParts
    <3>2. <<match_film(entry[e].film), entry[e].watched_date>> \in watches
          /\ watches \subseteq Films \X Days
      BY DEF WatchIsIn, TypeInv, TypeOK
    <3>3. match_film(entry[e].film) \in Films /\ entry[e].watched_date \in Days
      BY <3>2
    <3>4. PICK o \in Entries : /\ entry[o] # NoFilm /\ queue[o] # "none"
                               /\ entry[o].watched_date = entry[e].watched_date
      BY <3>2, <3>3 DEF MissInv, WatchesKnown
    <3>5. o = e
      BY <3>1, <3>4 DEF MissInv, DiaryInv
    <3> QED BY <3>4, <3>5
  <2>3. ASSUME NEW i \in 1..Len(es)
        PROVE  queue[es[i]] # "none" \/ es[i] \in sync[s].queued
    <3>1. CASE i < at
      BY <1>6, <3>1
    <3>2. CASE i = at
      BY <2>2, <3>2
    <3>3. CASE at < i
      <4>1. at + (Len(feed) - Len(es)) < i + (Len(feed) - Len(es))
        <5>1. Len(es) \in Nat /\ Len(feed) \in Nat /\ i \in Nat /\ at \in Nat
          BY <1>2, FeedTyped
        <5> HIDE DEF es, at
        <5> QED BY <3>3, <5>1
      <4>2. queue[feed[at + (Len(feed) - Len(es))]] # "none"
        BY <1>2, <1>5, <2>2
      <4>3. queue[feed[i + (Len(feed) - Len(es))]] # "none"
        BY <1>2, <1>7, <4>1, <4>2 DEF MissInv, DownClosed
      <4> QED BY <1>5, <4>3
    <3> QED BY <1>2, <3>1, <3>2, <3>3
  <2>4. \A o \in sync[s].queued : \E i \in 1..Len(es) : i < Len(es) + 1 /\ es[i] = o
    BY <1>2, <1>6
  <2>5. sync'[s].at = Len(es) + 1 /\ sync'[s].queued = sync[s].queued
    BY <1>1, <1>9
  <2>6. Behind(s)'
    BY <1>1, <2>3, <2>4, <2>5 DEF Behind
  <2> QED BY <1>4, <2>6
<1> QED BY <1>8, <1>9

LEMMA NoSyncMissesNothing ==
  ASSUME TypeInv, NEW s \in Syncs, sync'[s] = NoSync, UNCHANGED feed
  PROVE  Older(s)' /\ Behind(s)'
<1>1. /\ Len(NoSync.entries) = 0
      /\ NoSync.queued = {}
  BY DEF NoSync
<1>2. Len(feed) \in Nat
  BY FeedTyped
<1> QED BY <1>1, <1>2 DEF Older, Behind

LEMMA MissStep ==
  ASSUME TypeInv, MissInv, OneADay, [Next]_vars
  PROVE  MissInv'
<1>1. today \in Nat /\ today <= today
  BY FeedTyped
<1>2. CASE UNCHANGED <<feed, entry, queue, sync, today>> /\ watches' \subseteq watches
  BY <1>1, <1>2, DiaryKept, ClosedKept, WatchesKept, SyncKept DEF MissInv
<1>3. CASE Tick
  <2>1. today' \in Nat /\ today <= today' /\ UNCHANGED <<feed, entry, queue, sync, watches>>
    BY <1>1, <1>3 DEF Tick
  <2> QED BY <2>1, DiaryKept, ClosedKept, WatchesKept, SyncKept DEF MissInv
<1>4. ASSUME NEW f \in Films, NEW row \in FilmRow \cup {NoFilm}, StoreFilm(f, row)
      PROVE  MissInv'
  BY <1>2, <1>4 DEF StoreFilm, world
<1>5. \A f \in Films, d \in Days : ~LogByHand(f, d)
  BY DEF LogByHand, OneADay
<1>6. ASSUME NEW r \in Requests, Review(r)
      PROVE  MissInv'
  <2>1. UNCHANGED <<feed, entry, sync, today>>
    BY <1>6 DEF Review, ListRead, ListCommit, FindOpen, AssignWatch, ReadLink, AssignLink,
                Dismiss, FailRequest, Serve, world
  <2>2. DiaryInv' /\ DownClosed' /\ \A s \in Syncs : Older(s)' /\ Behind(s)'
    BY <1>1, <1>6, <2>1, ReviewQueuesNothing, DiaryKept, ClosedKept, SyncKept
  <2>3. CASE watches' \subseteq watches
    BY <2>2, <2>3, WatchesKept DEF MissInv
  <2>4. CASE AssignWatch(r) /\ req[r].entry \in Entries
             /\ watches' = watches \cup {<<req[r].film, entry[req[r].entry].watched_date>>}
    <3> DEFINE e == req[r].entry
    <3>1. e \in Entries /\ queue[e] # "none" /\ entry[e] # NoFilm
      BY <2>4, LoggedParts DEF AssignWatch, TypeInv, OnStored
    <3>2. queue'[e] # "none"
      BY <3>1, EntriesStay
    <3>3. WatchesKnown'
      <4> SUFFICES ASSUME NEW f \in Films, NEW d \in Days, <<f, d>> \in watches'
                   PROVE  \E o \in Entries :
                            entry[o] # NoFilm /\ entry[o].watched_date = d /\ queue'[o] # "none"
        BY <2>1 DEF WatchesKnown
      <4>1. CASE <<f, d>> \in watches
        <5>1. PICK o \in Entries :
                entry[o] # NoFilm /\ entry[o].watched_date = d /\ queue[o] # "none"
          BY <4>1 DEF MissInv, WatchesKnown
        <5> QED BY <5>1, EntriesStay
      <4>2. CASE d = entry[e].watched_date
        BY <3>1, <3>2, <4>2
      <4> QED BY <2>4, <4>1, <4>2
    <3> QED BY <2>2, <3>3 DEF MissInv
  <2>5. AssignWatch(r) => req[r].entry \in Entries
    BY DEF AssignWatch, TypeInv, OnStored
  <2> QED
    BY <1>6, <2>3, <2>4, <2>5
    DEF Review, ListRead, ListCommit, FindOpen, AssignWatch, ReadLink, AssignLink, Dismiss,
        FailRequest, Serve
<1>7. ASSUME NEW s \in Syncs, Fetch(s) \/ Run(s) \/ FailSync(s)
      PROVE  MissInv'
  <2>1. UNCHANGED <<feed, entry, today, watches>> /\ \A t \in Syncs \ {s} : sync'[t] = sync[t]
    BY <1>7, FeedTyped
    DEF Fetch, Run, FailSync, AcquireLock, Walk, CommitSync, SetSync, world
  <2>2. DiaryInv' /\ WatchesKnown' /\ \A t \in Syncs \ {s} : Older(t)' /\ Behind(t)'
    BY <1>1, <2>1, DiaryKept, WatchesKept, SyncKept
  <2>3. SUFFICES DownClosed' /\ Older(s)' /\ Behind(s)'
    BY <2>2 DEF MissInv
  <2>4. CASE Fetch(s)
    <3>1. UNCHANGED queue
      BY <2>4 DEF Fetch
    <3> QED BY <2>1, <2>4, <3>1, ClosedKept, FetchMisses
  <2>5. CASE AcquireLock(s)
    <3>1. UNCHANGED queue /\ sync'[s] = [sync[s] EXCEPT !.pc = "walking"]
      BY <2>5, FeedTyped DEF AcquireLock, SetSync
    <3>2. sync[s] \in Syncing
      BY FeedTyped
    <3>3. /\ sync'[s].entries = sync[s].entries /\ sync'[s].at = sync[s].at
          /\ sync'[s].today = sync[s].today /\ sync'[s].queued = sync[s].queued
      BY <3>1, <3>2 DEF Syncing
    <3>4. Older(s)' /\ Behind(s)'
      BY <2>1, <3>1, <3>3 DEF MissInv, Older, Behind
    <3> QED BY <2>1, <3>1, <3>4, ClosedKept
  <2>6. CASE Walk(s)
    <3>1. UNCHANGED queue
      BY <2>6 DEF Walk
    <3> QED BY <2>1, <2>6, <3>1, ClosedKept, WalkMisses
  <2>7. CASE CommitSync(s)
    <3>1. sync'[s] = NoSync
      BY <2>7, FeedTyped DEF CommitSync, SetSync
    <3> QED BY <2>1, <2>7, <3>1, CommitMisses, NoSyncMissesNothing
  <2>8. CASE FailSync(s)
    <3>1. UNCHANGED queue /\ sync'[s] = NoSync
      BY <2>8, FeedTyped DEF FailSync, SetSync
    <3> QED BY <2>1, <3>1, ClosedKept, NoSyncMissesNothing
  <2> QED BY <1>7, <2>4, <2>5, <2>6, <2>7, <2>8 DEF Run
<1> QED
  BY <1>2, <1>3, <1>4, <1>5, <1>6, <1>7, LogMisses DEF Next, Member, App, vars

\* FR-LBX-05: when the member logs one watch a day, logs it nowhere else, and the clocks of
\* both sides agree, then for any number of syncs stopping at the first known entry loses
\* nothing: what a sync has left behind is staged, or in the table or the library.
THEOREM StoppingMissesNothing ==
  ASSUME OneADay
  PROVE  Spec => []NothingMissed
<1>1. Init => MissInv
  <2> SUFFICES ASSUME Init PROVE MissInv
    OBVIOUS
  <2>1. feed = <<>> /\ Len(feed) = 0 /\ watches = {}
        /\ \A e \in Entries : entry[e] = NoFilm
    BY DEF Init
  <2>2. DiaryInv /\ DownClosed /\ WatchesKnown
    BY <2>1 DEF DiaryInv, DownClosed, WatchesKnown
  <2>3. ASSUME NEW s \in Syncs
        PROVE  Older(s) /\ Behind(s)
    <3>1. sync[s] = NoSync /\ Len(NoSync.entries) = 0 /\ NoSync.queued = {}
      BY DEF Init, NoSync
    <3> QED BY <2>1, <3>1 DEF Older, Behind
  <2> QED BY <2>2, <2>3 DEF MissInv
<1>2. TypeInv /\ MissInv /\ [Next]_vars => MissInv'
  BY MissStep
<1>3. TypeInv /\ MissInv => NothingMissed
  <2> SUFFICES ASSUME TypeInv, MissInv, NEW s \in Syncs, Walked(s),
                      NEW i \in 1..Len(sync[s].entries)
               PROVE  queue[sync[s].entries[i]] # "none"
                      \/ sync[s].entries[i] \in sync[s].queued
    BY DEF NothingMissed
  <2>1. i < sync[s].at
    BY FeedTyped DEF Walked
  <2>2. Behind(s)
    BY DEF MissInv
  <2> QED BY <2>1, <2>2, Zenon DEF Behind
<1> QED BY <1>1, <1>2, <1>3, TypeInvInit, TypeInvStep, PTL DEF Spec
=============================================================================

----------------------- MODULE RewatchProjectionProofs ----------------------
(***************************************************************************)
(* What the stored due-list guarantees for any number of requests, films   *)
(* and days.  In every interleaving: types, and no row without its film.   *)
(* When nothing has overlapped since midnight: a list that is answered, or *)
(* that the next read takes for today's, is that of the library as it is.  *)
(***************************************************************************)
EXTENDS RewatchProjection, TLAPS

\* The rows a transaction has reached, or is about to, are stored, and two transactions never
\* have the same one in hand.
HeldRows(q) == q.cut \cup q.aged

RowsHeld ==
    /\ \A r \in Requests : req[r].picked \cup HeldRows(req[r]) \subseteq Stored
    /\ \A r, s \in Requests : r # s => HeldRows(req[r]) \cap HeldRows(req[s]) = {}

\* A deletion in flight names a film, and has its row in hand unless there is none.
Deleting(q) == q.pc \in {"cascade", "age"} /\ q.to = Gone
Cascades ==
    \A r \in Requests :
        /\ req[r].pc \in {"cascade", "age"} => req[r].film \in Films
        /\ Deleting(req[r]) /\ rows[req[r].film] # NoRow =>
             req[r].film \in req[r].cut \/ (req[r].pc = "cascade" /\ req[r].film \in req[r].picked)

TableInv == TypeOK /\ RowsHeld /\ Cascades /\ ListedFilmsExist

-----------------------------------------------------------------------------
(* Types *)

LEMMA Zero == 0 \in 0..LastDay /\ LastDay \in Nat
  BY DayAssumption

LEMMA IdleTyped == Idle \in Request
  BY Zero DEF Idle, Request, Pc, Nothing, Stamps, STALE_COMPUTED_AT

LEMMA SuggestTyped ==
  ASSUME TypeOK, NEW d \in 0..LastDay
  PROVE  suggest(d) \in [Films -> (-LastDay)..0 \cup {NoRow}]
<1> SUFFICES ASSUME NEW f \in Films, library[f] # Gone, library[f] <= d
             PROVE  library[f] - d \in (-LastDay)..0
  BY DEF suggest
<1>1. library[f] \in 0..LastDay
  BY DEF TypeOK, DueDays
<1> QED BY <1>1, Zero

LEMMA LocalsTyped ==
  ASSUME NEW q \in Request
  PROVE  /\ \A pc \in Pc : [q EXCEPT !.pc = pc] \in Request
         /\ \A f \in Films : [q EXCEPT !.film = f] \in Request
         /\ \A d \in DueDays \cup {Gone} : [q EXCEPT !.to = d] \in Request
         /\ \A P \in SUBSET Films : [q EXCEPT !.picked = P] \in Request
         /\ \A due \in [Films -> (-LastDay)..0 \cup {NoRow}] : [q EXCEPT !.due = due] \in Request
         /\ \A day \in 0..LastDay : [q EXCEPT !.day = day] \in Request
         /\ \A stamp \in Stamps : [q EXCEPT !.stamp = stamp] \in Request
         /\ \A cut \in SUBSET Films : [q EXCEPT !.cut = cut] \in Request
         /\ \A aged \in SUBSET Films : [q EXCEPT !.aged = aged] \in Request
<1> DEFINE Dues == [Films -> (-LastDay)..0 \cup {NoRow}]
<1>1. Request = [pc : Pc, day : 0..LastDay, due : Dues, stamp : Stamps, film : Films \cup {Gone},
                 to : DueDays \cup {Gone}, picked : SUBSET Films, cut : SUBSET Films,
                 aged : SUBSET Films]
  BY DEF Request
<1> HIDE DEF Dues
<1>2. \A pc \in Pc : [q EXCEPT !.pc = pc] \in Request
  BY <1>1
<1>3. \A f \in Films : [q EXCEPT !.film = f] \in Request
  BY <1>1
<1>4. \A d \in DueDays \cup {Gone} : [q EXCEPT !.to = d] \in Request
  BY <1>1
<1>5. \A P \in SUBSET Films : [q EXCEPT !.picked = P] \in Request
  BY <1>1
<1>6. \A due \in Dues : [q EXCEPT !.due = due] \in Request
  BY <1>1
<1>7. \A day \in 0..LastDay : [q EXCEPT !.day = day] \in Request
  BY <1>1
<1>8. \A stamp \in Stamps : [q EXCEPT !.stamp = stamp] \in Request
  BY <1>1
<1>9. \A cut \in SUBSET Films : [q EXCEPT !.cut = cut] \in Request
  BY <1>1
<1>10. \A aged \in SUBSET Films : [q EXCEPT !.aged = aged] \in Request
  BY <1>1
<1> QED BY <1>2, <1>3, <1>4, <1>5, <1>6, <1>7, <1>8, <1>9, <1>10 DEF Dues

\* Rows that a request has picked and had in hand.
LEMMA PicksTyped ==
  ASSUME NEW q \in Request
  PROVE  q.picked \subseteq Films /\ q.cut \subseteq Films /\ q.aged \subseteq Films
  BY DEF Request

LEMMA TypeStep ==
  ASSUME TypeOK, RowsHeld, [Next]_vars
  PROVE  TypeOK'
<1>0. /\ today \in 0..LastDay
      /\ req \in [Requests -> Request]
      /\ rows \in [Films -> Row \cup {NoRow}]
      /\ library \in [Films -> DueDays \cup {Gone}]
  BY DEF TypeOK
<1>1. CASE UNCHANGED vars
  BY <1>1 DEF TypeOK, vars
<1>2. CASE Tick
  BY <1>2, Zero DEF TypeOK, Tick
<1> SUFFICES ASSUME NEW r \in Requests, Arrive(r) \/ Serve(r) \/ Crash(r), today' = today,
                    crossed' \in BOOLEAN
             PROVE  /\ library' \in [Films -> DueDays \cup {Gone}]
                    /\ rows' \in [Films -> Row \cup {NoRow}]
                    /\ req' \in [Requests -> Request]
  <2>1. ASSUME NEW r \in Requests, Arrive(r) \/ Serve(r) \/ Crash(r)
        PROVE  today' = today
    BY <2>1 DEF Arrive, Serve, Crash, BeginRead, Write, Collect, BeginReplace, Store, List,
                BeginAge, Commit, Erase, Age, Reject, DeadlockVictim
  <2>2. crossed' \in BOOLEAN
    BY DEF TypeOK, Next, Tick, vars
  <2> QED BY <1>1, <1>2, <2>1, <2>2 DEF Next, TypeOK
<1>3. CASE BeginRead(r)
  <2>1. \A pc \in {"list", "collect"} : [req[r] EXCEPT !.pc = pc, !.day = today] \in Request
    <3> TAKE pc \in {"list", "collect"}
    <3> DEFINE q == [req[r] EXCEPT !.pc = pc]
    <3>1. q \in Request
      BY <1>0, LocalsTyped DEF Pc
    <3> HIDE DEF q
    <3>2. [q EXCEPT !.day = today] \in Request
      BY <1>0, <3>1, LocalsTyped
    <3> QED BY <3>2 DEF q
  <2> QED BY <1>0, <1>3, <2>1 DEF BeginRead
<1>4. CASE Write(r)
  <2>1. PICK f \in Films, d \in DueDays \cup {Gone} :
          req' = [req EXCEPT ![r].pc = "cascade", ![r].film = f, ![r].to = d,
                             ![r].picked = IF d = Gone THEN {f} \cap Stored ELSE {}]
    BY <1>4 DEF Write
  <2> DEFINE P == IF d = Gone THEN {f} \cap Stored ELSE {}
  <2>2. P \subseteq Films
    OBVIOUS
  <2> HIDE DEF P
  <2>3. [req[r] EXCEPT !.pc = "cascade", !.film = f, !.to = d, !.picked = P] \in Request
    <3> DEFINE q1 == [req[r] EXCEPT !.pc = "cascade"]
               q2 == [q1 EXCEPT !.film = f]
               q3 == [q2 EXCEPT !.to = d]
    <3>1. q1 \in Request
      BY <1>0, LocalsTyped DEF Pc
    <3>2. q2 \in Request
      BY <3>1, LocalsTyped
    <3>3. q3 \in Request
      BY <3>2, LocalsTyped
    <3> QED BY <2>2, <3>3, LocalsTyped
  <2>4. req' \in [Requests -> Request]
    BY <1>0, <2>1, <2>3 DEF P
  <2> QED BY <1>0, <1>4, <2>4 DEF Write
<1>5. CASE Collect(r)
  <2>1. req[r].day \in 0..LastDay
    BY <1>0 DEF Request
  <2> DEFINE due == suggest(req[r].day)
  <2>3. due \in [Films -> (-LastDay)..0 \cup {NoRow}]
    BY <2>1, SuggestTyped
  <2> HIDE DEF due
  <2>4. [req[r] EXCEPT !.pc = "replace", !.due = due] \in Request
    <3> DEFINE q == [req[r] EXCEPT !.pc = "replace"]
    <3>1. q \in Request
      BY <1>0, LocalsTyped DEF Pc
    <3> HIDE DEF q
    <3>2. [q EXCEPT !.due = due] \in Request
      BY <2>3, <3>1, LocalsTyped
    <3> QED BY <3>2 DEF q
  <2>2. [req[r] EXCEPT !.pc = "replace", !.due = suggest(req[r].day)] \in Request
    BY <2>4 DEF due
  <2> QED BY <1>0, <1>5, <2>2 DEF Collect
<1>6. CASE BeginReplace(r)
  <2>1. [req[r] EXCEPT !.pc = "erase", !.stamp = today, !.picked = Stored] \in Request
    <3> DEFINE q1 == [req[r] EXCEPT !.pc = "erase"]
               q2 == [q1 EXCEPT !.stamp = today]
    <3>1. q1 \in Request
      BY <1>0, LocalsTyped DEF Pc
    <3> HIDE DEF q1
    <3>2. q2 \in Request
      BY <1>0, <3>1, LocalsTyped DEF Stamps
    <3> HIDE DEF q2
    <3>3. [q2 EXCEPT !.picked = Stored] \in Request
      BY <3>2, LocalsTyped DEF Stored
    <3> QED BY <3>3 DEF q1, q2
  <2> QED BY <1>0, <1>6, <2>1 DEF BeginReplace
<1>7. ASSUME NEW f \in Films, Erase(r, f) \/ Age(r, f)
      PROVE  /\ UNCHANGED <<library, rows>>
             /\ req' \in [Requests -> Request]
  <2>1. /\ [req[r] EXCEPT !.picked = @ \ {f}, !.cut = @ \cup {f}] \in Request
        /\ [req[r] EXCEPT !.picked = @ \ {f}, !.aged = @ \cup {f}] \in Request
    <3> DEFINE q == [req[r] EXCEPT !.picked = @ \ {f}]
    <3>1. q \in Request /\ req[r].cut \cup {f} \subseteq Films /\ req[r].aged \cup {f} \subseteq Films
      BY <1>0, PicksTyped, LocalsTyped
    <3> HIDE DEF q
    <3>2. /\ [q EXCEPT !.cut = req[r].cut \cup {f}] \in Request
          /\ [q EXCEPT !.aged = req[r].aged \cup {f}] \in Request
      BY <3>1, LocalsTyped
    <3> QED BY <3>2 DEF q
  <2> QED BY <1>0, <1>7, <2>1 DEF Erase, Age
<1>8. ASSUME NEW locals \in Request, Leave(r, locals)
      PROVE  req' \in [Requests -> Request]
  <2>1. \A s \in Requests : [req[s] EXCEPT !.picked = @ \ req[r].cut] \in Request
    BY <1>0, PicksTyped, LocalsTyped
  <2> QED BY <1>8, <2>1 DEF Leave
<1>9. CASE Store(r)
  <2>1. [Idle EXCEPT !.pc = "list", !.day = req[r].day] \in Request
    <3>1. req[r].day \in 0..LastDay
      BY <1>0 DEF Request
    <3> QED BY <3>1, IdleTyped DEF Request, Pc
  <2>2. req' \in [Requests -> Request]
    BY <1>8, <1>9, <2>1 DEF Store
  <2>3. ASSUME NEW f \in Films
        PROVE  Replaced(r, f) \in Row \cup {NoRow}
    <3>1. req[r].due[f] \in (-LastDay)..0 \cup {NoRow} /\ req[r].stamp \in Stamps
      BY <1>0 DEF Request
    <3>2. f \in Due(r) => NewRow(r, f) \in Row
      BY <3>1 DEF Due, NewRow, Row
    <3> QED BY <1>0, <3>2 DEF Replaced
  <2> QED BY <1>0, <1>9, <2>2, <2>3 DEF Store
<1>10. CASE List(r)
  BY <1>0, <1>10, IdleTyped DEF List, Finish
<1>11. CASE BeginAge(r)
  <2>1. [req[r] EXCEPT !.pc = "age", !.picked = Stored \ req[r].cut] \in Request
    <3> DEFINE q == [req[r] EXCEPT !.pc = "age"]
    <3>1. q \in Request
      BY <1>0, LocalsTyped DEF Pc
    <3> HIDE DEF q
    <3>2. [q EXCEPT !.picked = Stored \ req[r].cut] \in Request
      BY <3>1, LocalsTyped DEF Stored
    <3> QED BY <3>2 DEF q
  <2> QED BY <1>0, <1>11, <2>1 DEF BeginAge
<1>12. CASE Commit(r)
  <2>1. req' \in [Requests -> Request]
    BY <1>8, <1>12, IdleTyped DEF Commit
  <2>2. req[r].to \in DueDays \cup {Gone} /\ req[r].aged \subseteq Films
    BY <1>0 DEF Request
  <2>3. \A f \in req[r].aged : rows[f] \in Row
    BY <1>0, <2>2 DEF RowsHeld, HeldRows, Stored
  <2>4. \A row \in Row : Stale(row) \in Row
    BY DEF Stale, Row, Stamps
  <2> QED BY <1>0, <1>12, <2>1, <2>2, <2>3, <2>4 DEF Commit
<1>13. CASE Reject(r) \/ DeadlockVictim(r) \/ Crash(r)
  BY <1>0, <1>13, IdleTyped DEF Reject, DeadlockVictim, Crash, Finish
<1> QED
  BY <1>3, <1>4, <1>5, <1>6, <1>0, <1>7, <1>9, <1>10, <1>11, <1>12, <1>13 DEF Arrive, Serve

-----------------------------------------------------------------------------
(* What the steps of a request do to the others, and to the table *)

LEMMA LeaveEffect ==
  ASSUME TypeOK, NEW r \in Requests, NEW locals, Leave(r, locals)
  PROVE  /\ req'[r] = locals
         /\ \A s \in Requests \ {r} :
              /\ req'[s].picked = req[s].picked \ req[r].cut
              /\ req'[s].cut = req[s].cut
              /\ req'[s].aged = req[s].aged
              /\ req'[s].pc = req[s].pc
              /\ req'[s].film = req[s].film
              /\ req'[s].to = req[s].to
              /\ req'[s].day = req[s].day
              /\ req'[s].due = req[s].due
              /\ req'[s].stamp = req[s].stamp
  BY DEF Leave, TypeOK, Request

LEMMA OthersUntouched ==
  ASSUME TypeOK, NEW r \in Requests,
         \/ BeginRead(r) \/ Write(r) \/ Collect(r) \/ BeginReplace(r) \/ List(r) \/ BeginAge(r)
         \/ \E f \in Films : Erase(r, f) \/ Age(r, f)
         \/ Reject(r) \/ DeadlockVictim(r) \/ Crash(r)
  PROVE  /\ UNCHANGED <<rows, library>>
         /\ \A s \in Requests \ {r} : req'[s] = req[s]
<1>1. \E q : req' = [req EXCEPT ![r] = q]
  BY DEF BeginRead, Write, Collect, BeginReplace, List, BeginAge, Erase, Age, Reject,
         DeadlockVictim, Crash, Finish
<1>2. UNCHANGED <<rows, library>>
  BY DEF BeginRead, Write, Collect, BeginReplace, List, BeginAge, Erase, Age, Reject,
         DeadlockVictim, Crash
<1> QED BY <1>1, <1>2 DEF TypeOK

LEMMA StepCases ==
  ASSUME TypeOK, [Next]_vars
  PROVE  \/ UNCHANGED <<rows, library, req>>
         \/ \E r \in Requests : Store(r) \/ Commit(r)
         \/ \E r \in Requests :
              \/ BeginRead(r) \/ Write(r) \/ Collect(r) \/ BeginReplace(r) \/ List(r)
              \/ BeginAge(r) \/ (\E f \in Films : Erase(r, f) \/ Age(r, f))
              \/ Reject(r) \/ DeadlockVictim(r) \/ Crash(r)
  BY DEF Next, Arrive, Serve, Tick, vars

\* The rows a run inserts, and those a write leaves stale, are rows.
LEMMA WrittenRows ==
  ASSUME TypeOK, NEW r \in Requests
  PROVE  /\ \A f \in Due(r) : NewRow(r, f) \in Row
         /\ \A row \in Row : Stale(row) \in Row
<1>1. req[r].due \in [Films -> (-LastDay)..0 \cup {NoRow}] /\ req[r].stamp \in Stamps
  BY DEF TypeOK, Request
<1>2. \A f \in Due(r) : NewRow(r, f) \in Row
  BY <1>1 DEF Due, NewRow, Row
<1>3. \A row \in Row : Stale(row) \in Row
  BY DEF Stale, Row, Stamps
<1> QED BY <1>2, <1>3

\* A commit takes no row but those the transaction has deleted.
LEMMA CommitEffect ==
  ASSUME TypeOK, RowsHeld, NEW r \in Requests, Store(r) \/ Commit(r)
  PROVE  /\ \A f \in Stored \ req[r].cut : f \in Stored'
         /\ HeldRows(req[r])' = {} /\ req'[r].picked = {} /\ req'[r].pc \in {"idle", "list"}
         /\ \E locals : Leave(r, locals)
<1>0. rows \in [Films -> Row \cup {NoRow}]
  BY DEF TypeOK
<1>1. CASE Store(r)
  <2>1. \A f \in Stored \ req[r].cut : rows'[f] # NoRow
    BY <1>0, <1>1, WrittenRows, RowAssumption DEF Store, Replaced, Stored
  <2>2. req'[r] = [Idle EXCEPT !.pc = "list", !.day = req[r].day]
    BY <1>1, LeaveEffect DEF Store
  <2> QED BY <1>1, <2>1, <2>2 DEF Store, Stored, HeldRows, Idle
<1>2. CASE Commit(r)
  <2>1. \A f \in Stored \ req[r].cut : rows'[f] # NoRow
    BY <1>0, <1>2, WrittenRows, RowAssumption DEF Commit, Stored
  <2>2. req'[r] = Idle
    BY <1>2, LeaveEffect DEF Commit
  <2> QED BY <1>2, <2>1, <2>2 DEF Commit, Stored, HeldRows, Idle
<1> QED BY <1>1, <1>2

-----------------------------------------------------------------------------
(* Rows in hand *)

LEMMA HeldStep ==
  ASSUME TypeOK, RowsHeld, [Next]_vars
  PROVE  RowsHeld'
<1>0. req \in [Requests -> Request]
  BY DEF TypeOK
<1>1. CASE UNCHANGED <<rows, library, req>>
  BY <1>1 DEF RowsHeld, HeldRows, Stored
<1>2. ASSUME NEW r \in Requests, Store(r) \/ Commit(r)
      PROVE  RowsHeld'
  <2>1. PICK locals : Leave(r, locals)
    BY <1>2, CommitEffect
  <2>2. \A s \in Requests \ {r} : /\ req'[s].picked = req[s].picked \ req[r].cut
                                  /\ HeldRows(req[s])' = HeldRows(req[s])
    BY <2>1, LeaveEffect DEF HeldRows
  <2>3. /\ \A f \in Stored \ req[r].cut : f \in Stored'
        /\ HeldRows(req[r])' = {} /\ req'[r].picked = {}
    BY <1>2, CommitEffect
  <2>4. ASSUME NEW s \in Requests
        PROVE  req'[s].picked \cup HeldRows(req[s])' \subseteq Stored'
    <3>1. CASE s = r
      BY <2>3, <3>1
    <3>2. CASE s # r
      <4>1. HeldRows(req[s]) \cap req[r].cut = {}
        BY <3>2 DEF RowsHeld, HeldRows
      <4>2. req[s].picked \cup HeldRows(req[s]) \subseteq Stored
        BY DEF RowsHeld
      <4> QED BY <2>2, <2>3, <3>2, <4>1, <4>2
    <3> QED BY <3>1, <3>2
  <2>5. ASSUME NEW s \in Requests, NEW t \in Requests, s # t
        PROVE  HeldRows(req[s])' \cap HeldRows(req[t])' = {}
    BY <2>2, <2>3, <2>5 DEF RowsHeld
  <2> QED BY <2>4, <2>5 DEF RowsHeld, HeldRows
<1>3. ASSUME NEW r \in Requests,
             \A s \in Requests \ {r} : req'[s] = req[s],
             rows' = rows,
             req'[r].picked \subseteq Stored,
             HeldRows(req[r])' \subseteq Stored,
             \A s \in Requests \ {r} : HeldRows(req[r])' \cap HeldRows(req[s]) = {}
      PROVE  RowsHeld'
  <2>1. Stored' = Stored
    BY <1>3 DEF Stored
  <2>2. \A s \in Requests \ {r} : HeldRows(req[s])' = HeldRows(req[s])
    BY <1>3 DEF HeldRows
  <2>3. ASSUME NEW s \in Requests
        PROVE  req'[s].picked \cup HeldRows(req[s])' \subseteq Stored'
    BY <1>3, <2>1, <2>2 DEF RowsHeld
  <2>4. ASSUME NEW s \in Requests, NEW t \in Requests, s # t
        PROVE  HeldRows(req[s])' \cap HeldRows(req[t])' = {}
    BY <1>3, <2>2, <2>4 DEF RowsHeld
  <2> QED BY <2>3, <2>4 DEF RowsHeld, HeldRows
<1>4. ASSUME NEW r \in Requests,
             \/ BeginRead(r) \/ Write(r) \/ Collect(r) \/ BeginReplace(r) \/ List(r) \/ BeginAge(r)
             \/ \E f \in Films : Erase(r, f) \/ Age(r, f)
             \/ Reject(r) \/ DeadlockVictim(r) \/ Crash(r)
      PROVE  /\ req'[r].picked \subseteq Stored
             /\ HeldRows(req[r])' \subseteq Stored
             /\ \A s \in Requests \ {r} : HeldRows(req[r])' \cap HeldRows(req[s]) = {}
  <2>0. req[r].picked \subseteq Stored /\ HeldRows(req[r]) \subseteq Stored
    BY DEF RowsHeld
  <2>1. CASE \/ BeginRead(r) \/ Write(r) \/ Collect(r) \/ BeginReplace(r) \/ BeginAge(r)
    <3>1. CASE BeginRead(r) \/ Collect(r)
      <4>1. /\ req'[r].picked = req[r].picked /\ req'[r].cut = req[r].cut
            /\ req'[r].aged = req[r].aged
        BY <1>0, <3>1 DEF BeginRead, Collect, Request
      <4> QED BY <2>0, <4>1 DEF RowsHeld, HeldRows
    <3>2. CASE BeginReplace(r) \/ BeginAge(r)
      <4>1. /\ req'[r].picked \subseteq Stored /\ req'[r].cut = req[r].cut
            /\ req'[r].aged = req[r].aged
        BY <1>0, <3>2 DEF BeginReplace, BeginAge, Request, Stored
      <4> QED BY <2>0, <4>1 DEF RowsHeld, HeldRows
    <3>3. CASE Write(r)
      <4>1. PICK f \in Films, d \in DueDays \cup {Gone} :
              req' = [req EXCEPT ![r].pc = "cascade", ![r].film = f, ![r].to = d,
                                 ![r].picked = IF d = Gone THEN {f} \cap Stored ELSE {}]
        BY <3>3 DEF Write
      <4>2. /\ req'[r].picked \subseteq Stored /\ req'[r].cut = req[r].cut
            /\ req'[r].aged = req[r].aged
        BY <1>0, <4>1 DEF Request
      <4> QED BY <2>0, <4>2 DEF RowsHeld, HeldRows
    <3> QED BY <2>1, <3>1, <3>2, <3>3
  <2>2. CASE \/ List(r) \/ Reject(r) \/ DeadlockVictim(r) \/ Crash(r)
    BY <1>0, <2>2 DEF List, Reject, DeadlockVictim, Crash, Finish, Idle, HeldRows
  <2>3. ASSUME NEW f \in Films, Erase(r, f) \/ Age(r, f)
        PROVE  /\ req'[r].picked \subseteq Stored
               /\ HeldRows(req[r])' \subseteq Stored
               /\ \A s \in Requests \ {r} : HeldRows(req[r])' \cap HeldRows(req[s]) = {}
    <3>1. /\ f \in req[r].picked
          /\ req'[r].picked \subseteq req[r].picked
          /\ HeldRows(req[r])' = HeldRows(req[r]) \cup {f}
      BY <1>0, <2>3 DEF Erase, Age, HeldRows, Request
    <3>2. \A s \in Requests \ {r} : f \notin HeldRows(req[s])
      BY <2>3 DEF Erase, Age, RowLocked, HeldRows
    <3> QED BY <2>0, <3>1, <3>2 DEF RowsHeld
  <2> QED BY <1>4, <2>1, <2>2, <2>3
<1> QED BY <1>1, <1>2, <1>3, <1>4, OthersUntouched, StepCases

-----------------------------------------------------------------------------
(* Deletions in flight *)

CascadeOf(q) ==
    /\ q.pc \in {"cascade", "age"} => q.film \in Films
    /\ Deleting(q) /\ rows[q.film] # NoRow =>
         q.film \in q.cut \/ (q.pc = "cascade" /\ q.film \in q.picked)

\* A run that commits leaves no row of a film that is being deleted, unless the deletion has
\* it in hand: the foreign key keeps it from inserting one.
LEMMA CommitSparesCascades ==
  ASSUME TypeOK, RowsHeld, Cascades, NEW r \in Requests, Store(r) \/ Commit(r)
  PROVE  Cascades'
<1>0. PICK locals : Leave(r, locals)
  BY CommitEffect
<1>1. req'[r].pc \notin {"cascade", "age"}
  BY CommitEffect
<1> SUFFICES ASSUME NEW s \in Requests \ {r}, req[s].pc \in {"cascade", "age"}
             PROVE  /\ req[s].film \in Films
                    /\ req[s].to = Gone /\ rows'[req[s].film] # NoRow =>
                         \/ req[s].film \in req[s].cut
                         \/ req[s].pc = "cascade" /\ req[s].film \in req[s].picked \ req[r].cut
  BY <1>0, <1>1, LeaveEffect DEF Cascades, Deleting
<1> DEFINE f == req[s].film
<1>2. f \in Films
  BY DEF Cascades
<1>3. SUFFICES ASSUME req[s].to = Gone, rows'[f] # NoRow
               PROVE  rows[f] # NoRow /\ f \notin req[r].cut
  BY <1>2 DEF Cascades, Deleting
<1>4. CASE Store(r)
  <2>1. f \notin Due(r)
    BY <1>3, <1>4 DEF Store, Insertable, FilmLocked
  <2> QED BY <1>2, <1>3, <1>4, <2>1 DEF Store, Replaced
<1>5. CASE Commit(r)
  <2>1. req[r].aged \subseteq Stored
    BY DEF RowsHeld, HeldRows
  <2> QED BY <1>2, <1>3, <1>5, <2>1 DEF Commit, Stored
<1> QED BY <1>4, <1>5

LEMMA CascadeStep ==
  ASSUME TypeOK, RowsHeld, Cascades, [Next]_vars
  PROVE  Cascades'
<1>0. req \in [Requests -> Request]
  BY DEF TypeOK
<1>1. CASE UNCHANGED <<rows, library, req>>
  BY <1>1 DEF Cascades, Deleting
<1>2. CASE \E r \in Requests : Store(r) \/ Commit(r)
  BY <1>2, CommitSparesCascades
<1>3. ASSUME NEW r \in Requests, \A s \in Requests \ {r} : req'[s] = req[s], rows' = rows,
             CascadeOf(req[r])'
      PROVE  Cascades'
  BY <1>3 DEF Cascades, CascadeOf, Deleting
<1>4. ASSUME NEW r \in Requests,
             \/ BeginRead(r) \/ Write(r) \/ Collect(r) \/ BeginReplace(r) \/ List(r) \/ BeginAge(r)
             \/ \E f \in Films : Erase(r, f) \/ Age(r, f)
             \/ Reject(r) \/ DeadlockVictim(r) \/ Crash(r)
      PROVE  CascadeOf(req[r])'
  <2>0. CascadeOf(req[r]) /\ UNCHANGED rows
    BY <1>4, OthersUntouched DEF Cascades, CascadeOf
  <2>1. CASE \/ BeginRead(r) \/ Collect(r) \/ BeginReplace(r) \/ List(r)
             \/ Reject(r) \/ DeadlockVictim(r) \/ Crash(r)
    <3>1. req'[r].pc \notin {"cascade", "age"}
      BY <1>0, <2>1 DEF BeginRead, Collect, BeginReplace, List, Reject, DeadlockVictim, Crash,
                        Finish, Idle, Request
    <3> QED BY <3>1 DEF CascadeOf, Deleting
  <2>2. CASE Write(r)
    <3>1. PICK f \in Films, d \in DueDays \cup {Gone} :
            req' = [req EXCEPT ![r].pc = "cascade", ![r].film = f, ![r].to = d,
                               ![r].picked = IF d = Gone THEN {f} \cap Stored ELSE {}]
      BY <2>2 DEF Write
    <3>2. /\ req'[r].pc = "cascade" /\ req'[r].film = f /\ req'[r].to = d
          /\ req'[r].picked = IF d = Gone THEN {f} \cap Stored ELSE {}
      BY <1>0, <3>1 DEF Request
    <3> QED BY <2>0, <3>2 DEF CascadeOf, Deleting, Stored
  <2>3. CASE BeginAge(r)
    <3>1. /\ req[r].pc = "cascade" /\ req[r].picked = {} /\ req'[r].pc = "age"
          /\ req'[r].film = req[r].film /\ req'[r].to = req[r].to /\ req'[r].cut = req[r].cut
      BY <1>0, <2>3 DEF BeginAge, Request
    <3> QED BY <2>0, <3>1 DEF CascadeOf, Deleting
  <2>4. ASSUME NEW f \in Films, Erase(r, f) \/ Age(r, f)
        PROVE  CascadeOf(req[r])'
    <3>1. /\ req'[r].pc = req[r].pc /\ req'[r].film = req[r].film /\ req'[r].to = req[r].to
          /\ req'[r].picked = req[r].picked \ {f}
          /\ \/ req'[r].cut = req[r].cut \cup {f}
             \/ req'[r].cut = req[r].cut /\ req[r].pc = "age"
      BY <1>0, <2>4 DEF Erase, Age, Request
    <3> QED BY <2>0, <3>1 DEF CascadeOf, Deleting
  <2> QED BY <1>4, <2>1, <2>2, <2>3, <2>4
<1> QED BY <1>1, <1>2, <1>3, <1>4, OthersUntouched, StepCases

LEMMA ListedStep ==
  ASSUME TypeOK, RowsHeld, Cascades, ListedFilmsExist, [Next]_vars
  PROVE  ListedFilmsExist'
<1>1. CASE UNCHANGED <<rows, library>>
  BY <1>1 DEF ListedFilmsExist, Stored
<1>2. ASSUME NEW r \in Requests, Store(r)
      PROVE  ListedFilmsExist'
  <2> SUFFICES ASSUME NEW f \in Films, rows'[f] # NoRow
               PROVE  library[f] # Gone
    BY <1>2 DEF ListedFilmsExist, Stored, Store
  <2>1. f \in Due(r) \/ rows[f] # NoRow
    BY <1>2 DEF Store, Replaced
  <2> QED BY <1>2, <2>1 DEF Store, Insertable, ListedFilmsExist, Stored
<1>3. ASSUME NEW r \in Requests, Commit(r)
      PROVE  ListedFilmsExist'
  <2> SUFFICES ASSUME NEW f \in Films, rows'[f] # NoRow
               PROVE  library'[f] # Gone
    BY <1>3 DEF ListedFilmsExist, Stored
  <2>1. req[r].aged \subseteq Stored
    BY DEF RowsHeld, HeldRows
  <2>2. rows[f] # NoRow /\ f \notin req[r].cut
    BY <1>3, <2>1 DEF Commit, Stored
  <2>3. library[f] # Gone
    BY <2>2 DEF ListedFilmsExist, Stored
  <2>4. f = req[r].film => req[r].to # Gone
    BY <1>3, <2>2 DEF Commit, Cascades, Deleting
  <2>5. library' = [library EXCEPT ![req[r].film] = req[r].to]
    BY <1>3 DEF Commit
  <2> QED BY <2>3, <2>4, <2>5 DEF TypeOK
<1> QED BY <1>1, <1>2, <1>3, OthersUntouched, StepCases

-----------------------------------------------------------------------------

LEMMA TableInit == Init => TableInv
<1>1. \A r \in Requests : Init => req[r] = Idle
  BY DEF Init
<1>2. Init => RowsHeld /\ Cascades /\ ListedFilmsExist
  BY <1>1 DEF Init, RowsHeld, HeldRows, Cascades, Deleting, ListedFilmsExist, Stored, Nothing, Idle
<1>3. Init => TypeOK
  BY IdleTyped, Zero DEF Init, TypeOK, Nothing
<1> QED BY <1>2, <1>3 DEF TableInv

THEOREM TableInvariant == Spec => []TableInv
<1>1. TableInv /\ [Next]_vars => TableInv'
  BY TypeStep, HeldStep, CascadeStep, ListedStep DEF TableInv
<1> QED BY <1>1, TableInit, PTL DEF Spec

\* The stored list and the requests are of their types in every interleaving.
THEOREM DueListTyped == Spec => []TypeOK
<1>1. TableInv => TypeOK
  BY DEF TableInv
<1> QED BY <1>1, TableInvariant, PTL

\* NFR-INT-02: whatever runs insert while films are deleted, no row of the due-list is
\* left without its film.
THEOREM RowsHaveTheirFilms == Spec => []ListedFilmsExist
<1>1. TableInv => ListedFilmsExist
  BY DEF TableInv
<1> QED BY <1>1, TableInvariant, PTL

-----------------------------------------------------------------------------
(* Stamps *)

StampsPast ==
    /\ \A f \in Stored : rows[f].computed_at <= today
    /\ \A r \in Requests : req[r].stamp <= today

LEMMA IdleFields ==
  ASSUME NEW d
  PROVE  /\ [Idle EXCEPT !.pc = "list", !.day = d].stamp = STALE_COMPUTED_AT
         /\ [Idle EXCEPT !.pc = "list", !.day = d].pc = "list"
         /\ [Idle EXCEPT !.pc = "list", !.day = d].day = d
         /\ Idle.stamp = STALE_COMPUTED_AT
  BY DEF Idle

LEMMA StampStep ==
  ASSUME TypeOK, RowsHeld, StampsPast, [Next]_vars
  PROVE  StampsPast'
<1>0. /\ req \in [Requests -> Request] /\ rows \in [Films -> Row \cup {NoRow}]
      /\ today \in Nat /\ STALE_COMPUTED_AT <= today
  BY Zero DEF TypeOK, STALE_COMPUTED_AT
<1>1. CASE UNCHANGED vars
  BY <1>1 DEF vars, StampsPast, Stored
<1>2. CASE Tick
  <2>1. /\ \A f \in Stored : rows[f].computed_at \in Int
        /\ \A r \in Requests : req[r].stamp \in Int
    BY <1>0, Zero DEF Stored, Row, Request, Stamps, STALE_COMPUTED_AT
  <2>2. UNCHANGED <<rows, req>> /\ today' = today + 1
    BY <1>2 DEF Tick
  <2> QED BY <1>0, <2>1, <2>2 DEF StampsPast, Stored
<1>3. ASSUME NEW r \in Requests, Store(r) \/ Commit(r)
      PROVE  StampsPast'
  <2>1. today' = today
    BY <1>3 DEF Store, Commit
  <2>2. \A s \in Requests : req'[s].stamp \in {req[s].stamp, STALE_COMPUTED_AT}
    <3>1. PICK locals : Leave(r, locals) /\ locals.stamp = STALE_COMPUTED_AT
      BY <1>3, IdleFields DEF Store, Commit
    <3> QED BY <3>1, LeaveEffect
  <2>3. ASSUME NEW f \in Stored'
        PROVE  rows'[f].computed_at <= today
    <3>1. CASE Store(r)
      BY <2>3, <3>1 DEF Store, Replaced, NewRow, StampsPast, Stored
    <3>2. CASE Commit(r)
      <4>1. rows[f] # NoRow
        BY <2>3, <3>2 DEF Commit, Stored, RowsHeld, HeldRows
      <4>2. rows[f] \in Row /\ rows[f].computed_at <= today
        BY <1>0, <2>3, <4>1 DEF Stored, StampsPast
      <4>3. Stale(rows[f]).computed_at = STALE_COMPUTED_AT
        BY <4>2 DEF Stale, Row
      <4> QED BY <1>0, <2>3, <3>2, <4>2, <4>3 DEF Commit, Stored
    <3> QED BY <1>3, <3>1, <3>2
  <2> QED BY <1>0, <2>1, <2>2, <2>3 DEF StampsPast
<1>4. ASSUME NEW r \in Requests,
             \/ BeginRead(r) \/ Write(r) \/ Collect(r) \/ BeginReplace(r) \/ List(r) \/ BeginAge(r)
             \/ \E f \in Films : Erase(r, f) \/ Age(r, f)
             \/ Reject(r) \/ DeadlockVictim(r) \/ Crash(r)
      PROVE  StampsPast'
  <2>1. today' = today /\ rows' = rows /\ \A s \in Requests \ {r} : req'[s] = req[s]
    BY <1>4, OthersUntouched DEF BeginRead, Write, Collect, BeginReplace, List, BeginAge, Erase,
                                 Age, Reject, DeadlockVictim, Crash
  <2>2. req'[r].stamp \in {req[r].stamp, today, STALE_COMPUTED_AT}
    <3>1. CASE BeginRead(r) \/ Collect(r) \/ BeginAge(r)
      BY <1>0, <3>1 DEF BeginRead, Collect, BeginAge, Request
    <3>2. CASE BeginReplace(r)
      BY <1>0, <3>2 DEF BeginReplace, Request
    <3>3. CASE Write(r)
      <4>1. PICK f \in Films, d \in DueDays \cup {Gone} :
              req' = [req EXCEPT ![r].pc = "cascade", ![r].film = f, ![r].to = d,
                                 ![r].picked = IF d = Gone THEN {f} \cap Stored ELSE {}]
        BY <3>3 DEF Write
      <4> QED BY <1>0, <4>1 DEF Request
    <3>4. CASE List(r) \/ Reject(r) \/ DeadlockVictim(r) \/ Crash(r)
      BY <1>0, <3>4 DEF List, Reject, DeadlockVictim, Crash, Finish, Idle
    <3>5. ASSUME NEW f \in Films, Erase(r, f) \/ Age(r, f)
          PROVE  req'[r].stamp = req[r].stamp
      BY <1>0, <3>5 DEF Erase, Age, Request
    <3> QED BY <1>4, <3>1, <3>2, <3>3, <3>4, <3>5
  <2> QED BY <1>0, <2>1, <2>2 DEF StampsPast, Stored
<1> QED BY <1>1, <1>2, <1>3, <1>4 DEF Next, Arrive, Serve

-----------------------------------------------------------------------------
(* Requests one at a time, on days that do not turn under them *)

Alone == \A r, s \in Requests : req[r].pc # "idle" /\ req[s].pc # "idle" => r = s

Current == ComputedOn(today) => Listed = suggest(today)

\* A read works for today; its run has seen the library as it is; its statement, or that of
\* a write, reaches every row that is stored.
Prepared(q) ==
    /\ q.pc \in {"collect", "replace", "erase", "list"} => q.day = today
    /\ q.pc \in {"replace", "erase"} => q.due = suggest(today)
    /\ q.pc = "erase" => q.stamp = today /\ Stored \subseteq q.picked \cup q.cut
    /\ q.pc = "age" => Stored \subseteq q.picked \cup q.aged \cup q.cut
    /\ q.pc = "list" => Listed = suggest(today)

QuietInv == ~crossed => Alone /\ Current /\ \A r \in Requests : Prepared(req[r])

\* At a midnight that nobody crosses the list becomes one of an earlier day.
LEMMA MidnightStep ==
  ASSUME TypeOK, StampsPast, Tick, ~crossed'
  PROVE  QuietInv'
<1>1. /\ \A r \in Requests : req'[r].pc = "idle"
      /\ today' = today + 1 /\ today \in Nat /\ rows' = rows
  <2>1. Quiet
    BY Zenon DEF Tick
  <2>2. today' = today + 1 /\ rows' = rows /\ req' = req
    BY DEF Tick
  <2> QED BY <2>1, <2>2, Zero DEF Quiet, TypeOK
<1>2. ~ComputedOn(today)'
  <2>1. \A f \in Stored : rows[f].computed_at \in Int
    BY Zero DEF TypeOK, Stored, Row, Stamps, STALE_COMPUTED_AT
  <2> QED BY <1>1, <2>1 DEF ComputedOn, StampsPast, Stored
<1> QED BY <1>1, <1>2 DEF QuietInv, Alone, Current, Prepared

\* A request that takes a step while nothing overlaps is alone, before and after.
LEMMA AloneStep ==
  ASSUME TypeOK, QuietInv, ~crossed, NEW r \in Requests,
         Arrive(r) => Quiet, Arrive(r) \/ Serve(r) \/ Crash(r)
  PROVE  /\ \A s \in Requests \ {r} : req[s].pc = "idle" /\ req'[s].pc = "idle"
         /\ Alone'
<1>1. \A s \in Requests \ {r} : req[s].pc = "idle"
  <2>1. CASE Arrive(r)
    BY <2>1 DEF Quiet
  <2>2. CASE Serve(r) \/ Crash(r)
    <3>1. req[r].pc # "idle"
      BY <2>2 DEF Serve, Crash, Collect, BeginReplace, Store, List, BeginAge, Commit, Erase, Age,
                  Reject, DeadlockVictim, WaitsFor
    <3> QED BY <3>1 DEF QuietInv, Alone
  <2> QED BY <2>1, <2>2
<1>2. ASSUME NEW s \in Requests \ {r}
      PROVE  req'[s].pc = req[s].pc
  <2>1. CASE Store(r) \/ Commit(r)
    BY <2>1, LeaveEffect DEF Store, Commit
  <2>2. CASE ~(Store(r) \/ Commit(r))
    BY <2>2, OthersUntouched DEF Arrive, Serve
  <2> QED BY <2>1, <2>2
<1> QED BY <1>1, <1>2 DEF Alone

\* The commit of a run leaves the list of its day; that of a write, no row of today.
LEMMA CommitIsCurrent ==
  ASSUME TypeOK, RowsHeld, QuietInv, ~crossed, NEW r \in Requests, Store(r) \/ Commit(r)
  PROVE  Current' /\ Prepared(req[r])'
<1>0. /\ Prepared(req[r]) /\ today' = today /\ today \in Nat
      /\ rows \in [Films -> Row \cup {NoRow}]
  BY Zero DEF QuietInv, TypeOK, Store, Commit
<1>1. CASE Store(r)
  <2>1. req[r].due = suggest(today) /\ req[r].day = today /\ req[r].picked = {}
    BY <1>0, <1>1 DEF Prepared, Store
  <2>2. \A f \in Films \ req[r].cut : rows[f] = NoRow
    BY <1>0, <1>1, <2>1 DEF Prepared, Store, Stored
  <2>3. Listed' = suggest(today)
    <3>1. ASSUME NEW f \in Films
          PROVE  (IF rows'[f] = NoRow THEN NoRow ELSE rows'[f].days) = req[r].due[f]
      <4>1. CASE f \in Due(r)
        <5>1. rows'[f] = NewRow(r, f) /\ NewRow(r, f) # NoRow
          BY <1>1, <4>1, WrittenRows, RowAssumption DEF Store, Replaced
        <5> QED BY <5>1 DEF NewRow
      <4>2. CASE f \notin Due(r)
        BY <1>1, <2>2, <4>2 DEF Store, Replaced, Due
      <4> QED BY <4>1, <4>2
    <3>2. Listed' = [f \in Films |-> req[r].due[f]]
      BY <3>1 DEF Listed
    <3> QED BY <2>1, <3>2 DEF suggest
  <2>4. suggest(today)' = suggest(today)
    BY <1>0, <1>1 DEF suggest, Store
  <2>5. req'[r].pc = "list" /\ req'[r].day = today
    <3> DEFINE locals == [Idle EXCEPT !.pc = "list", !.day = req[r].day]
    <3>1. Leave(r, locals)
      BY <1>1 DEF Store
    <3>2. locals.pc = "list" /\ locals.day = req[r].day
      BY IdleFields
    <3> HIDE DEF locals
    <3> QED BY <2>1, <3>1, <3>2, LeaveEffect
  <2> QED BY <1>0, <2>3, <2>4, <2>5 DEF Current, Prepared
<1>2. CASE Commit(r)
  <2>1. Stored \subseteq req[r].aged \cup req[r].cut
    BY <1>0, <1>2 DEF Prepared, Commit
  <2>2. ASSUME NEW f \in Stored'
        PROVE  rows'[f].computed_at = STALE_COMPUTED_AT
    <3>1. rows[f] # NoRow /\ f \notin req[r].cut
      BY <1>2, <2>2 DEF Commit, Stored, RowsHeld, HeldRows
    <3>2. f \in req[r].aged /\ rows[f] \in Row
      BY <1>0, <2>1, <2>2, <3>1 DEF Stored
    <3> QED BY <1>2, <2>2, <3>1, <3>2 DEF Commit, Stored, Stale, Row
  <2>3. ~ComputedOn(today)'
    BY <1>0, <2>2 DEF ComputedOn, STALE_COMPUTED_AT
  <2>4. req'[r].pc = "idle"
    BY <1>2, LeaveEffect DEF Commit, Idle
  <2> QED BY <2>3, <2>4 DEF Current, Prepared
<1> QED BY <1>1, <1>2

\* The other steps of a request leave the table, the library and the day as they are.
LEMMA LocalsArePrepared ==
  ASSUME TypeOK, QuietInv, ~crossed, NEW r \in Requests, Arrive(r) => Quiet,
         \/ BeginRead(r) \/ Write(r) \/ Collect(r) \/ BeginReplace(r) \/ List(r) \/ BeginAge(r)
         \/ \E f \in Films : Erase(r, f) \/ Age(r, f)
         \/ Reject(r) \/ DeadlockVictim(r) \/ Crash(r)
  PROVE  Current' /\ Prepared(req[r])'
<1>0. /\ Prepared(req[r]) /\ Current
      /\ req \in [Requests -> Request]
  BY DEF QuietInv, TypeOK
<1>1. UNCHANGED <<rows, library, today>>
  BY OthersUntouched DEF BeginRead, Write, Collect, BeginReplace, List, BeginAge, Erase, Age,
                         Reject, DeadlockVictim, Crash
<1>2. /\ Listed' = Listed /\ suggest(today)' = suggest(today) /\ Stored' = Stored
      /\ ComputedOn(today)' = ComputedOn(today)
  BY <1>1 DEF Listed, suggest, Stored, ComputedOn
<1>3. CASE BeginRead(r)
  <2>1. /\ req'[r].day = today
        /\ req'[r].pc = "collect" \/ (req'[r].pc = "list" /\ ComputedOn(today))
    BY <1>0, <1>3 DEF BeginRead, Request
  <2> QED BY <1>0, <1>1, <1>2, <2>1 DEF Prepared, Current
<1>4. CASE Write(r)
  <2>1. PICK f \in Films, d \in DueDays \cup {Gone} :
          req' = [req EXCEPT ![r].pc = "cascade", ![r].film = f, ![r].to = d,
                             ![r].picked = IF d = Gone THEN {f} \cap Stored ELSE {}]
    BY <1>4 DEF Write
  <2>2. req'[r].pc = "cascade"
    BY <1>0, <2>1 DEF Request
  <2> QED BY <1>0, <1>2, <1>1, <2>2 DEF Prepared, Current
<1>5. CASE Collect(r)
  <2>1. req[r].pc = "collect" /\ req[r].day = today
    BY <1>0, <1>5 DEF Prepared, Collect
  <2> DEFINE due == suggest(today)
  <2>2. req' = [req EXCEPT ![r].pc = "replace", ![r].due = due]
    BY <1>5, <2>1 DEF Collect
  <2> HIDE DEF due
  <2>3. req'[r].pc = "replace" /\ req'[r].due = due /\ req'[r].day = today
    BY <1>0, <2>1, <2>2 DEF Request
  <2> QED BY <1>0, <1>1, <1>2, <2>3 DEF Prepared, Current, due
<1>6. CASE BeginReplace(r)
  <2>1. /\ req[r].pc = "replace" /\ req'[r].pc = "erase" /\ req'[r].stamp = today
        /\ req'[r].picked = Stored /\ req'[r].due = req[r].due /\ req'[r].day = req[r].day
    BY <1>0, <1>6 DEF BeginReplace, Request
  <2> QED BY <1>0, <1>1, <1>2, <2>1 DEF Prepared, Current
<1>7. CASE BeginAge(r)
  <2>1. req'[r].pc = "age" /\ req'[r].picked = Stored \ req[r].cut /\ req'[r].cut = req[r].cut
    BY <1>0, <1>7 DEF BeginAge, Request
  <2> QED BY <1>0, <1>1, <1>2, <2>1 DEF Prepared, Current
<1>8. ASSUME NEW f \in Films, Erase(r, f) \/ Age(r, f)
      PROVE  Current' /\ Prepared(req[r])'
  <2>1. /\ req'[r].pc = req[r].pc /\ req[r].pc \in {"erase", "cascade", "age"}
        /\ req'[r].day = req[r].day /\ req'[r].due = req[r].due /\ req'[r].stamp = req[r].stamp
        /\ req'[r].picked = req[r].picked \ {f}
        /\ \/ /\ req'[r].cut = req[r].cut \cup {f} /\ req'[r].aged = req[r].aged
              /\ req[r].pc # "age"
           \/ /\ req'[r].aged = req[r].aged \cup {f} /\ req'[r].cut = req[r].cut
              /\ req[r].pc = "age"
    BY <1>0, <1>8 DEF Erase, Age, Request
  <2> QED BY <1>0, <1>1, <1>2, <2>1 DEF Prepared, Current
<1>9. CASE List(r) \/ Reject(r) \/ DeadlockVictim(r) \/ Crash(r)
  <2>1. req'[r].pc = "idle"
    BY <1>0, <1>9 DEF List, Reject, DeadlockVictim, Crash, Finish, Idle
  <2> QED BY <1>0, <1>1, <1>2, <2>1 DEF Prepared, Current
<1> QED BY <1>3, <1>4, <1>5, <1>6, <1>7, <1>8, <1>9

LEMMA QuietStep ==
  ASSUME TypeOK, RowsHeld, StampsPast, QuietInv, [Next]_vars
  PROVE  QuietInv'
<1>1. CASE UNCHANGED vars
  BY <1>1 DEF vars, QuietInv, Alone, Current, Prepared, ComputedOn, Listed, suggest, Stored
<1>2. CASE Tick
  BY <1>2, MidnightStep DEF QuietInv
<1>3. ASSUME NEW r \in Requests, Arrive(r) \/ Serve(r) \/ Crash(r), ~crossed, Arrive(r) => Quiet
      PROVE  Alone' /\ Current' /\ \A s \in Requests : Prepared(req[s])'
  <2>1. /\ \A s \in Requests \ {r} : req'[s].pc = "idle"
        /\ Alone'
    BY <1>3, AloneStep, Zenon
  <2>2. Current' /\ Prepared(req[r])'
    BY <1>3, CommitIsCurrent, LocalsArePrepared, Zenon DEF Arrive, Serve
  <2>3. \A s \in Requests \ {r} : Prepared(req[s])'
    BY <2>1 DEF Prepared
  <2> QED BY <2>1, <2>2, <2>3
<1>4. ASSUME NEW r \in Requests, Arrive(r) /\ crossed' = (crossed \/ ~Quiet), ~crossed'
      PROVE  ~crossed /\ Quiet
  BY <1>4, Zenon
<1>5. ASSUME NEW r \in Requests, ~crossed',
             \/ Arrive(r) /\ crossed' = (crossed \/ ~Quiet)
             \/ (Serve(r) \/ Crash(r)) /\ UNCHANGED crossed
      PROVE  Alone' /\ Current' /\ \A s \in Requests : Prepared(req[s])'
  <2>1. CASE Arrive(r) /\ crossed' = (crossed \/ ~Quiet)
    BY <1>3, <1>4, <1>5, <2>1
  <2>2. CASE (Serve(r) \/ Crash(r)) /\ UNCHANGED crossed
    <3>1. ~Arrive(r) \/ Quiet
      <4>1. CASE Serve(r) \/ Crash(r)
        <5>1. req[r].pc # "idle"
          BY <4>1 DEF Serve, Crash, Collect, BeginReplace, Store, List, BeginAge, Commit, Erase,
                      Age, Reject, DeadlockVictim, WaitsFor
        <5> QED BY <5>1 DEF Arrive, BeginRead, Write
      <4> QED BY <2>2, <4>1
    <3> QED BY <1>3, <1>5, <2>2, <3>1
  <2> QED BY <1>5, <2>1, <2>2
<1> QED BY <1>1, <1>2, <1>5, Zenon DEF Next, QuietInv

-----------------------------------------------------------------------------

THEOREM QuietInvariant == Spec => [](StampsPast /\ QuietInv)
<1>1. Init => StampsPast /\ QuietInv
  <2>1. ASSUME Init
        PROVE  \A r \in Requests : req[r] = Idle
    BY <2>1 DEF Init
  <2>2. ASSUME Init
        PROVE  Stored = {} /\ today = 0
    BY <2>2 DEF Init, Stored, Nothing
  <2> QED
    BY <2>1, <2>2 DEF StampsPast, QuietInv, Alone, Current, Prepared, ComputedOn, Idle,
                      STALE_COMPUTED_AT
<1>2. TableInv /\ StampsPast /\ QuietInv /\ [Next]_vars => (StampsPast /\ QuietInv)'
  BY StampStep, QuietStep DEF TableInv
<1> QED BY <1>1, <1>2, TableInvariant, PTL DEF Spec

\* DESIGN 5.8: after requests that did not overlap, on a day that did not turn under one, a
\* projection the next read takes for today's is the list of the library as it is.
THEOREM StampTellsTheTruth == Spec => []FreshStampMeansCurrent
<1>1. QuietInv => FreshStampMeansCurrent
  BY DEF QuietInv, Current, FreshStampMeansCurrent, NextReadIsCurrent
<1> QED BY <1>1, QuietInvariant, PTL

\* FR-RW-03: such a request answers the films due on its day.
THEOREM AnswersAreOfTheDay == Spec => []ServedListIsCurrent
<1>1. QuietInv => ServedListIsCurrent
  BY DEF QuietInv, Prepared, ServedListIsCurrent
<1> QED BY <1>1, QuietInvariant, PTL
=============================================================================

------------------------ MODULE PlacesHistoryProofs -------------------------
(***************************************************************************)
(* PlacesSync implements PlacesBoard, for any number of devices, users and *)
(* places.  The inductive invariant says that whatever lies anywhere under *)
(* a key was posted for that key.  A step that makes no record therefore   *)
(* leaves `posted' as it is, and one that makes a record adds just this    *)
(* one; what remains is to find the step of the board.                     *)
(***************************************************************************)
EXTENDS PlacesHistory, PlacesSyncProofs

\* The history as a set of pairs of a key and a record.
Posts == {pair \in Keys \X Record : pair[2] \in posted[pair[1]]}

HistoryInv ==
    /\ posted \in [Keys -> SUBSET Record]
    /\ TypeOver(Posts)

Recorded == posted' = [k \in Keys |-> posted[k] \cup Written(k)']

LEMMA TypeOverGrows ==
    ASSUME NEW P, NEW Q, P \subseteq Q, TypeOver(P)
    PROVE  TypeOver(Q)
<1>1. \A S : Of(S, P) \subseteq Of(S, Q)
  BY DEF Of
<1>2. \A S, T : S \subseteq T => Seq(S) \subseteq Seq(T)
  BY LenProperties, ElementOfSeq, SeqDef
<1>3. \A S : Seq(Of(S, P)) \subseteq Seq(Of(S, Q))
  BY <1>1, <1>2
<1>4. Caches(P) \subseteq Caches(Q)
  BY DEF Caches
<1> QED
  BY <1>3, <1>4 DEF TypeOver

\* After a step that keeps everything in P, what is written lies in P.
LEMMA WrittenIsInP ==
    ASSUME NEW P, TypeOver(P)', NEW k \in Keys, NEW rec \in Written(k)'
    PROVE  <<k, rec>> \in P /\ rec \in Record
<1>1. CASE rec = server'[k] /\ rec # None
  BY <1>1 DEF TypeOver, Caches
<1>2. CASE \E d \in Devices :
              \E i \in WritesOf(d, k)' : rec = sending'[d][i].rec
  <2>1. PICK d \in Devices :
               \E i \in WritesOf(d, k)' : rec = sending'[d][i].rec
    BY <1>2
  <2>2. PICK i \in WritesOf(d, k)' : rec = sending'[d][i].rec
    BY <2>1
  <2>3. sending'[d] \in Seq(Of(Write, P)) /\ i \in DOMAIN sending'[d]
    BY DEF TypeOver, WritesOf
  <2>4. sending'[d][i] \in Of(Write, P)
    BY <2>3, LenProperties, ElementOfSeq
  <2> QED
    BY <2>2, <2>4 DEF Of, Write, WritesOf
<1> QED
  BY <1>1, <1>2 DEF Written

\* A step that keeps everything within the history does not add to it.
LEMMA NothingPosted ==
    ASSUME HistoryInv, Recorded, NEW P, P = Posts, TypeOver(P)'
    PROVE  posted' = posted /\ HistoryInv'
<1>1. \A k \in Keys : \A rec \in Written(k)' : <<k, rec>> \in P
  BY WrittenIsInP
<1>2. \A k \in Keys : Written(k)' \subseteq posted[k]
  BY <1>1 DEF Posts
<1>3. posted' = posted
  BY <1>2 DEF HistoryInv, Recorded
<1>4. Posts' = P
  BY <1>3 DEF Posts
<1> QED
  BY <1>3, <1>4 DEF HistoryInv

\* A step that writes one new record adds this record.
LEMMA OnePosted ==
    ASSUME HistoryInv, Recorded, NEW key \in Keys, NEW rec \in Record,
           rec \in Written(key)',
           NEW P, P = Posts, TypeOver(P \cup {<<key, rec>>})'
    PROVE  /\ posted' = [posted EXCEPT ![key] = @ \cup {rec}]
           /\ HistoryInv'
<1> DEFINE Q == P \cup {<<key, rec>>}
<1>1. \A k \in Keys : \A r \in Written(k)' : <<k, r>> \in Q
  BY WrittenIsInP
<1>2. \A k \in Keys : \A r \in Written(k)' :
         r \in posted[k] \/ (k = key /\ r = rec)
  BY <1>1 DEF Posts
<1>3. posted' = [posted EXCEPT ![key] = @ \cup {rec}]
  BY <1>2 DEF HistoryInv, Recorded
<1>4. Posts' = Q
  BY <1>3 DEF Posts, HistoryInv
<1> QED
  BY <1>3, <1>4 DEF HistoryInv

LEMMA WriteIsWritten ==
    ASSUME NEW P, TypeOver(P), NEW d \in Devices, NEW k \in Keys, NEW rec,
           UpdateChildValues(d, k, rec)
    PROVE  rec \in Written(k)'
<1> DEFINE w == [key |-> k, rec |-> rec]
           q == sending[d]
<1>1. q \in Seq(Of(Write, P)) /\ Len(q) \in Nat
  BY LenProperties DEF TypeOver
<1>2. sending'[d] = Append(q, w)
  BY DEF UpdateChildValues, TypeOver
<1>3. Append(q, w) \in Seq(Of(Write, P) \cup {w})
  <2>1. q \in Seq(Of(Write, P) \cup {w})
    BY <1>1, SeqMonotonic
  <2> QED
    BY <2>1, AppendProperties
<1>4. /\ DOMAIN sending'[d] = 1 .. Len(q) + 1
      /\ sending'[d][Len(q) + 1] = w
  BY <1>1, <1>2, <1>3, AppendProperties, LenProperties
<1>5. Len(q) + 1 \in WritesOf(d, k)'
  BY <1>1, <1>4 DEF WritesOf
<1> QED
  BY <1>4, <1>5 DEF Written

-----------------------------------------------------------------------------
(* The steps of the board.                                                 *)

LEMMA BoardMakes ==
    ASSUME NEW rec, NEW u \in Users0
    PROVE  /\ IsNewVisitor(rec, VisitorName(rec, u, None)) =>
                Visited(rec, VisitorName(rec, u, None)) \in Made(rec)
           /\ \A stars \in Stars :
                Rated(rec, RaterName(rec, u, None), stars) \in Made(rec)
BY DEF Made, Everybody, Users0

\* The console adds and edits places.
LEMMA ConsoleRefines ==
    ASSUME HistoryInv, Recorded, NEW k \in Keys, NEW info \in Infos,
           ConsoleAdd(k, info) \/ ConsoleEdit(k, info)
    PROVE  HistoryInv' /\ (Board!Add(k, info) \/ Board!Edit(k, info))
<1> PICK P : P = Posts
  OBVIOUS
<1> TypeOver(P)
  BY DEF HistoryInv
<1>1. ASSUME NEW rec \in Record, ConsoleWrites(k, rec)
      PROVE  /\ HistoryInv'
             /\ server' = [server EXCEPT ![k] = rec]
             /\ Board!Post(k, rec)
             /\ UNCHANGED places
  <2> DEFINE Q == P \cup {<<k, rec>>}
  <2>1. TypeOver(Q)
    BY TypeOverGrows
  <2>2. <<k, rec>> \in Q
    OBVIOUS
  <2> HIDE DEF Q
  <2>3. TypeOver(Q)'
    BY <1>1, <2>1, <2>2, ConsoleWritesTypes
  <2>4. server' = [server EXCEPT ![k] = rec] /\ UNCHANGED places
    BY <1>1 DEF ConsoleWrites
  <2>5. rec \in Written(k)'
    BY <2>4, NoneIsNoRecord DEF TypeOver, Caches, Written
  <2>6. HistoryInv' /\ posted' = [posted EXCEPT ![k] = @ \cup {rec}]
    BY <2>3, <2>5, OnePosted DEF Q
  <2> QED
    BY <2>4, <2>6 DEF Board!Post
<1>2. CASE ConsoleAdd(k, info)
  <2>1. NewRecord(info) \in Record /\ ConsoleWrites(k, NewRecord(info))
    BY <1>2, NewRecordIsRecord DEF ConsoleAdd
  <2> QED
    BY <1>1, <1>2, <2>1 DEF ConsoleAdd, Board!Add
<1>3. CASE ConsoleEdit(k, info)
  <2>1. server[k] \in Record /\ server[k] # None
    BY <1>3 DEF ConsoleEdit, TypeOver, Caches
  <2>2. Edited(server[k], info) \in Record
    BY <2>1, EditedIsRecord DEF Edited
  <2>3. ConsoleWrites(k, Edited(server[k], info))
    BY <1>3 DEF ConsoleEdit, Edited
  <2> QED
    BY <1>1, <2>1, <2>2, <2>3 DEF Board!Edit
<1> QED
  BY <1>2, <1>3

\* A write by the app adds the written record to the history.
LEMMA WriteIsPosted ==
    ASSUME HistoryInv, Recorded, NEW d \in Devices, NEW k \in Keys,
           NEW rec \in Record, UpdateChildValues(d, k, rec),
           NEW P, P = Posts, TypeOver(P \cup {<<k, rec>>})'
    PROVE  HistoryInv' /\ Board!Post(k, rec)
<1>1. rec \in Written(k)'
  BY WriteIsWritten DEF HistoryInv
<1> QED
  BY <1>1, OnePosted DEF Board!Post

LEMMA VisitRefines ==
    ASSUME HistoryInv, Recorded, NEW d \in Devices,
           NEW i \in DOMAIN places[d], Visit(d, i)
    PROVE  HistoryInv' /\ Board!ActOnRow(d, i)
<1> PICK P : P = Posts
  OBVIOUS
<1> DEFINE p == places[d][i]
           new == Visited(p.rec, VisitorName(p.rec, auth[d], None))
<1>1. TypeOver(P)
  BY DEF HistoryInv
<1>2. p.key \in Keys /\ p.rec \in Record /\ auth[d] \in Users0
  BY <1>1, EntryTypes DEF TypeOver, Users0
<1>3. new \in Record /\ new \in Made(p.rec)
  BY <1>2, NamesAreNames, VisitedIsRecord, BoardMakes DEF Users0, Visit
<1>4. /\ UpdateChildValues(d, p.key, new)
      /\ places' = [places EXCEPT ![d][i].rec = new]
      /\ UNCHANGED server
  BY DEF Visit
<1>5. PICK key \in Keys, rec \in Record : key = p.key /\ rec = new
  BY <1>2, <1>3
<1>6. TypeOver(P \cup {<<key, rec>>})'
  <2> DEFINE Q == P \cup {<<key, rec>>}
  <2>1. TypeOver(Q)
    BY <1>1, TypeOverGrows
  <2>2. <<p.key, new>> \in Q
    BY <1>5
  <2> HIDE DEF Q
  <2>3. TypeOver(Q)'
    BY <2>1, <2>2, VisitTypes
  <2> QED
    BY <2>3 DEF Q
<1> HIDE DEF new, p
<1>7. HistoryInv' /\ Board!Post(key, rec)
  BY <1>4, <1>5, <1>6, WriteIsPosted
<1> QED
  BY <1>3, <1>4, <1>5, <1>7 DEF Board!ActOnRow, p

LEMMA RateListedRefines ==
    ASSUME HistoryInv, Recorded, NEW d \in Devices,
           NEW i \in DOMAIN places[d], NEW stars \in RateChoices,
           RateListed(d, i, stars)
    PROVE  HistoryInv' /\ Board!ActOnRow(d, i)
<1> PICK P : P = Posts
  OBVIOUS
<1> DEFINE p == places[d][i]
           new == Rated(p.rec, RaterName(p.rec, auth[d], None), stars)
<1>1. TypeOver(P) /\ stars \in Stars
  BY ChoicesAssumption DEF HistoryInv
<1>2. p.key \in Keys /\ p.rec \in Record /\ auth[d] \in Users0
  BY <1>1, EntryTypes DEF TypeOver, Users0
<1>3. new \in Record /\ new \in Made(p.rec)
  BY <1>1, <1>2, NamesAreNames, RatedIsRecord, BoardMakes DEF Users0
<1>4. /\ UpdateChildValues(d, p.key, new)
      /\ places' = [places EXCEPT ![d][i].rec = new]
      /\ UNCHANGED server
  BY DEF RateListed
<1>5. PICK key \in Keys, rec \in Record : key = p.key /\ rec = new
  BY <1>2, <1>3
<1>6. TypeOver(P \cup {<<key, rec>>})'
  <2> DEFINE Q == P \cup {<<key, rec>>}
  <2>1. TypeOver(Q)
    BY <1>1, TypeOverGrows
  <2>2. <<p.key, new>> \in Q
    BY <1>5
  <2> HIDE DEF Q
  <2>3. TypeOver(Q)'
    BY <2>1, <2>2, RateListedTypes
  <2> QED
    BY <2>3 DEF Q
<1> HIDE DEF new, p
<1>7. HistoryInv' /\ Board!Post(key, rec)
  BY <1>4, <1>5, <1>6, WriteIsPosted
<1> QED
  BY <1>3, <1>4, <1>5, <1>7 DEF Board!ActOnRow, p

\* The orphan of a detail screen is a former post.
LEMMA RateOrphanRefines ==
    ASSUME HistoryInv, Recorded, NEW d \in Devices, NEW stars \in RateChoices,
           RateOrphan(d, stars)
    PROVE  HistoryInv' /\ \E k \in Keys : Board!ActOnFormer(k)
<1> PICK P : P = Posts
  OBVIOUS
<1> DEFINE old == orphan[d]
           new == Rated(old, RaterName(old, auth[d], None), stars)
<1>1. TypeOver(P) /\ stars \in Stars
  BY ChoicesAssumption DEF HistoryInv
<1>2. /\ detail[d] \in Keys /\ old \in Record /\ auth[d] \in Users0
      /\ <<detail[d], old>> \in P
  BY <1>1 DEF TypeOver, Users0, RateOrphan
<1>3. new \in Record /\ new \in Made(old) /\ old \in posted[detail[d]]
  BY <1>1, <1>2, NamesAreNames, RatedIsRecord, BoardMakes DEF Users0, Posts
<1>4. UpdateChildValues(d, detail[d], new) /\ UNCHANGED <<server, places>>
  BY DEF RateOrphan
<1>5. PICK key \in Keys, rec \in Record : key = detail[d] /\ rec = new
  BY <1>2, <1>3
<1>6. TypeOver(P \cup {<<key, rec>>})'
  <2> DEFINE Q == P \cup {<<key, rec>>}
  <2>1. TypeOver(Q)
    BY <1>1, TypeOverGrows
  <2>2. <<detail[d], new>> \in Q
    BY <1>5
  <2> HIDE DEF Q
  <2>3. TypeOver(Q)'
    BY <2>1, <2>2, RateOrphanTypes
  <2> QED
    BY <2>3 DEF Q
<1> HIDE DEF new, old
<1>7. HistoryInv' /\ Board!Post(key, rec)
  BY <1>4, <1>5, <1>6, WriteIsPosted
<1> QED
  BY <1>2, <1>3, <1>4, <1>5, <1>7 DEF Board!ActOnFormer

LEMMA ServerApplyRefines ==
    ASSUME HistoryInv, Recorded, NEW d \in Devices, ServerApply(d)
    PROVE  HistoryInv' /\ \E k \in Keys : Board!Store(k)
<1> PICK P : P = Posts
  OBVIOUS
<1> DEFINE w == Head(sending[d])
<1>1. TypeOver(P)
  BY DEF HistoryInv
<1>2. TypeOver(P)'
  BY <1>1, ServerApplyTypes
<1>3. posted' = posted /\ HistoryInv'
  BY <1>2, NothingPosted
<1>4. w \in Of(Write, P)
  BY <1>1, TailAt DEF TypeOver, ServerApply
<1>5. w.key \in Keys /\ w.rec \in posted[w.key]
  BY <1>4 DEF Of, Write, Posts
<1>6. server' = [server EXCEPT ![w.key] = w.rec] /\ UNCHANGED places
  BY DEF ServerApply
<1> HIDE DEF w
<1> QED
  BY <1>3, <1>5, <1>6 DEF Board!Store

LEMMA HandleEventRefines ==
    ASSUME HistoryInv, Recorded, PlacesListedOnce, NEW d \in Devices, HandleEvent(d)
    PROVE  /\ HistoryInv'
           /\ \/ \E k \in Keys : Board!ShowNew(d, k)
              \/ \E i \in DOMAIN places[d] : Board!ShowChange(d, i)
              \/ UNCHANGED <<server, posted, places>>
<1> PICK P : P = Posts
  OBVIOUS
<1> DEFINE e == Head(events[d])
           list == places[d]
<1>1. TypeOver(P)
  BY DEF HistoryInv
<1>2. TypeOver(P)'
  BY <1>1, HandleEventTypes
<1>3. posted' = posted /\ HistoryInv' /\ UNCHANGED server
  BY <1>2, NothingPosted DEF HandleEvent, HandleChildAdded,
     HandleChildChanged, FailCast, Trap
<1>4. events[d] # << >>
  BY DEF HandleEvent, HandleChildAdded, HandleChildChanged, FailCast
<1>5. e \in Of(Event, P)
  BY <1>1, <1>4, TailAt DEF TypeOver
<1>6. e.key \in Keys /\ e.rec \in posted[e.key]
  BY <1>5 DEF Of, Event, Posts
<1>7. CASE HandleChildAdded(d)
  <2>1. places' = [places EXCEPT ![d] = WithAdded(list, e.key, e.rec)]
    BY <1>7 DEF HandleChildAdded
  <2> HIDE DEF e
  <2>2. CASE Listed(list, e.key)
    BY <1>1, <1>3, <2>1, <2>2 DEF WithAdded, TypeOver
  <2>3. CASE ~ Listed(list, e.key)
    BY <1>3, <1>6, <2>1, <2>3 DEF WithAdded, Listed, Board!ShowNew
  <2> QED
    BY <1>3, <2>2, <2>3
<1>8. CASE HandleChildChanged(d)
  <2>1. places' = [places EXCEPT ![d] = Replaced(list, e.key, e.rec)]
    BY <1>8 DEF HandleChildChanged
  <2>2. /\ list \in Seq(Of(Entry, P))
        /\ Len(list) \in Nat /\ DOMAIN list = 1 .. Len(list)
    BY <1>1, LenProperties DEF TypeOver
  <2>3. \A i \in DOMAIN list : list[i] \in Entry
    BY <2>2, ElementOfSeq DEF Of
  <2> HIDE DEF e
  <2>4. CASE \A i \in DOMAIN list : list[i].key # e.key
    <3>1. Replaced(list, e.key, e.rec) = list
      BY <2>2, <2>4 DEF Replaced
    <3> QED
      BY <1>1, <1>3, <2>1, <3>1 DEF TypeOver
  <2>5. ASSUME NEW n \in DOMAIN list, list[n].key = e.key
        PROVE  Board!ShowChange(d, n)
    <3> DEFINE row == [list[n] EXCEPT !.rec = e.rec]
    <3>1. row = [key |-> e.key, rec |-> e.rec]
      BY <2>3, <2>5 DEF Entry
    <3>2. \A j \in DOMAIN list : list[j].key = e.key => j = n
      BY <2>5 DEF PlacesListedOnce
    <3>3. Replaced(list, e.key, e.rec) = [list EXCEPT ![n] = row]
      BY <2>2, <2>5, <3>1, <3>2 DEF Replaced
    <3>4. places' = [places EXCEPT ![d][n].rec = e.rec]
      BY <2>1, <3>3
    <3> QED
      BY <1>3, <1>6, <2>5, <3>4 DEF Board!ShowChange
  <2> QED
    BY <1>3, <2>4, <2>5
<1>9. CASE FailCast(d)
  BY <1>3, <1>9 DEF FailCast, Trap
<1> QED
  BY <1>3, <1>7, <1>8, <1>9 DEF HandleEvent

LEMMA KillRefines ==
    ASSUME HistoryInv, Recorded, NEW d \in Devices, Kill(d)
    PROVE  HistoryInv' /\ Board!Close(d)
<1> PICK P : P = Posts
  OBVIOUS
<1>1. TypeOver(P)'
  BY KillTypes DEF HistoryInv
<1> QED
  BY <1>1, NothingPosted DEF Kill, Board!Close

\* What the board's readers do not see.
LEMMA HiddenSteps ==
    ASSUME HistoryInv, Recorded, NEW d \in Devices,
           \/ Deliver(d)
           \/ Reconnect(d)
           \/ Launch(d)
           \/ \E i \in DOMAIN places[d] : OpenDetail(d, i)
           \/ CloseDetail(d)
           \/ OpenMyPlaces(d)
           \/ FailUnwrap(d)
           \/ \E u \in Users : SignIn(d, u)
           \/ SignOut(d)
    PROVE  HistoryInv' /\ UNCHANGED <<server, posted, places>>
<1> PICK P : P = Posts
  OBVIOUS
<1>1. TypeOver(P)
  BY DEF HistoryInv
<1>2. TypeOver(P)'
  <2>1. CASE Deliver(d) BY <1>1, <2>1, DeliverTypes
  <2>2. CASE Reconnect(d) BY <1>1, <2>2, ReconnectTypes
  <2>3. CASE Launch(d) BY <1>1, <2>3, LaunchTypes
  <2>4. CASE OpenMyPlaces(d) BY <1>1, <2>4, OpenMyPlacesTypes
  <2> QED
    BY <1>1, <2>1, <2>2, <2>3, <2>4, ScreenTypes
<1>3. HistoryInv' /\ posted' = posted
  BY <1>2, NothingPosted
<1>4. UNCHANGED <<server, places>>
  BY DEF Deliver, Reconnect, Launch, OpenDetail, CloseDetail, OpenMyPlaces,
         FailUnwrap, Trap, SignIn, SignOut
<1> QED
  BY <1>3, <1>4

LEMMA StepRefines ==
    ASSUME HistoryInv, PlacesListedOnce, [HistoryNext]_historyVars
    PROVE  /\ HistoryInv'
           /\ [Board!BoardNext]_(Board!boardVars)
<1>1. CASE UNCHANGED historyVars
  <2>1. UNCHANGED <<vars, posted>>
    BY <1>1 DEF historyVars
  <2> PICK P : P = Posts
    OBVIOUS
  <2>2. TypeOver(P)'
    BY <2>1, StepTypes DEF HistoryInv, TypeOver, vars
  <2>3. Posts' = P
    BY <2>1 DEF Posts
  <2> QED
    BY <2>1, <2>2, <2>3 DEF HistoryInv, Board!boardVars, vars
<1> SUFFICES ASSUME Next, Recorded
             PROVE  /\ HistoryInv'
                    /\ \/ Board!BoardNext
                       \/ UNCHANGED <<server, posted, places>>
  BY <1>1 DEF HistoryNext, Recorded, Board!boardVars
<1>2. ASSUME NEW k \in Keys, NEW info \in Infos,
             ConsoleAdd(k, info) \/ ConsoleEdit(k, info)
      PROVE  HistoryInv' /\ Board!BoardNext
  BY <1>2, ConsoleRefines DEF Board!BoardNext
<1>3. ASSUME NEW d \in Devices, ServerApply(d)
      PROVE  HistoryInv' /\ Board!BoardNext
  BY <1>3, ServerApplyRefines DEF Board!BoardNext
<1>4. ASSUME NEW d \in Devices, Kill(d)
      PROVE  HistoryInv' /\ Board!BoardNext
  BY <1>4, KillRefines DEF Board!BoardNext
<1>5. ASSUME NEW d \in Devices, HandleEvent(d)
      PROVE  HistoryInv' /\ (\/ Board!BoardNext
                             \/ UNCHANGED <<server, posted, places>>)
  BY <1>5, HandleEventRefines DEF Board!BoardNext
<1>6. ASSUME NEW d \in Devices, NEW i \in DOMAIN places[d], Visit(d, i)
      PROVE  HistoryInv' /\ Board!BoardNext
  BY <1>6, VisitRefines DEF Board!BoardNext
<1>7. ASSUME NEW d \in Devices, NEW i \in DOMAIN places[d],
             NEW stars \in RateChoices, RateListed(d, i, stars)
      PROVE  HistoryInv' /\ Board!BoardNext
  BY <1>7, RateListedRefines DEF Board!BoardNext
<1>8. ASSUME NEW d \in Devices, NEW stars \in RateChoices,
             RateOrphan(d, stars)
      PROVE  HistoryInv' /\ Board!BoardNext
  BY <1>8, RateOrphanRefines DEF Board!BoardNext
<1> QED
  BY <1>2, <1>3, <1>4, <1>5, <1>6, <1>7, <1>8, HiddenSteps DEF Next

LEMMA HistoryStart ==
    ASSUME HistoryInit
    PROVE  HistoryInv /\ PlacesListedOnce /\ Board!BoardInit
<1>1. Init
  BY DEF HistoryInit
<1>2. HistoryInv
  BY <1>1, InitTypes DEF HistoryInit, HistoryInv
<1>3. PlacesListedOnce /\ Board!BoardInit
  BY DEF HistoryInit, Init, PlacesListedOnce, Board!BoardInit
<1> QED
  BY <1>2, <1>3

\* PlacesSync implements PlacesBoard: whatever the order in which writes,
\* resends, snapshots, observers' blocks and stale detail screens come
\* (Places.swift 136-231), every change of the database and of a list is one
\* that the board allows.
THEOREM PlacesKeepTheBoard == HistorySpec => ImplementsBoard
<1> DEFINE Good == HistoryInv /\ PlacesListedOnce
<1>1. HistoryInit => Good /\ Board!BoardInit
  BY HistoryStart
<1>2. Good /\ [HistoryNext]_historyVars
        => Good' /\ [Board!BoardNext]_(Board!boardVars)
  <2> SUFFICES ASSUME Good, [HistoryNext]_historyVars
               PROVE  Good' /\ [Board!BoardNext]_(Board!boardVars)
    OBVIOUS
  <2>1. TypeOK
    BY TypeOverIsTypeOK DEF HistoryInv
  <2>2. [Next]_vars
    BY DEF HistoryNext, historyVars
  <2> QED
    BY <2>1, <2>2, StepRefines, ListedOnceStep
<1> QED
  BY <1>1, <1>2, PTL DEF HistorySpec, ImplementsBoard, Board!BoardSpec

\* What the database holds of a place, and what a row shows, was once written
\* under the place's key (Places.swift 142-171: the observers' blocks go by
\* the key and never by the row).
THEOREM RowsShowPosts == HistorySpec => []Board!NothingInvented
<1> DEFINE Good == HistoryInv /\ PlacesListedOnce
<1>1. HistoryInit => Good
  BY HistoryStart
<1>2. Good /\ [HistoryNext]_historyVars => Good'
  <2> SUFFICES ASSUME Good, [HistoryNext]_historyVars
               PROVE  Good'
    OBVIOUS
  <2>1. TypeOK
    BY TypeOverIsTypeOK DEF HistoryInv
  <2>2. [Next]_vars
    BY DEF HistoryNext, historyVars
  <2> QED
    BY <2>1, <2>2, StepRefines, ListedOnceStep
<1>3. HistoryInv => Board!NothingInvented
  <2> SUFFICES ASSUME HistoryInv
               PROVE  Board!NothingInvented
    OBVIOUS
  <2>1. \A k \in Keys : server[k] # None => server[k] \in posted[k]
    BY DEF HistoryInv, TypeOver, Caches, Posts
  <2>2. ASSUME NEW d \in Devices, NEW i \in DOMAIN places[d]
        PROVE  places[d][i].rec \in posted[places[d][i].key]
    <3>1. places[d] \in Seq(Of(Entry, Posts))
      BY DEF HistoryInv, TypeOver
    <3>2. places[d][i] \in Of(Entry, Posts)
      BY <3>1, LenProperties, ElementOfSeq
    <3> QED
      BY <3>2 DEF Of, Posts
  <2> QED
    BY <2>1, <2>2 DEF Board!NothingInvented
<1> QED
  BY <1>1, <1>2, <1>3, PTL DEF HistorySpec

=============================================================================

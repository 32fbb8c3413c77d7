-------------------------- MODULE PlacesSyncProofs --------------------------
(***************************************************************************)
(* Theorems about PlacesSync, for any number of devices, users, places,    *)
(* writes and faults.                                                      *)
(*                                                                         *)
(* Every action moves whole records between the server, the SDK, the list  *)
(* and the detail screen, always under the same key, and makes new ones    *)
(* only with the operations of PlaceRecord.  So let P be a set of pairs of *)
(* a key and a record.  When everything is in P and so is what a step      *)
(* newly makes, everything is in P after the step: `TypeOver(P)'.  With    *)
(* P = Keys \X Record this is type correctness; with the good records it   *)
(* gives the three invariants about all copies of a place; and with what   *)
(* has been posted so far it gives the refinement in PlacesHistoryProofs.  *)
(*                                                                         *)
(* First come the operations of PlaceRecord, for every set of users and    *)
(* every length of the two lists: each yields a record again, and each     *)
(* keeps the three parts of GoodRecord.                                    *)
(***************************************************************************)
EXTENDS PlacesSync, FiniteSetTheorems, SequenceTheorems, TLAPS

-----------------------------------------------------------------------------
(* The operations of PlaceRecord.                                          *)
\* What a user may be: a uid, or nobody.
LEMMA NamesAreNames ==
    ASSUME NEW rec \in Record, NEW none, NEW user \in Users \cup {none}
    PROVE  /\ VisitorName(rec, user, none) \in Name
           /\ RaterName(rec, user, none) \in Name
<1>1. Len(rec.visitors) + 1 \in Nat \ {0}
  BY LenProperties, SMT DEF Record
<1>2. Cardinality(rec.ratings) + 1 \in Nat \ {0}
  BY FS_CardinalityType, SMT DEF Record
<1> QED
  BY <1>1, <1>2 DEF VisitorName, RaterName, Name, Uid, Anonymous

\* calculateRating (Place.swift:60) divides by the number of ratings, never
\* by zero.
LEMMA RatingIsFraction ==
    ASSUME NEW ratings, IsFiniteSet(ratings)
    PROVE  CalculateRating(ratings) \in Nat \X (Nat \ {0})
<1>1. Cardinality(ratings) \in Nat
  BY FS_CardinalityType
<1>2. ratings # {} => Cardinality(ratings) # 0
  BY FS_EmptySet
<1>3. \A stars : Given(ratings, stars) \in Nat
  <2> TAKE stars
  <2> {pair \in ratings : pair[2] = stars} \subseteq ratings
    OBVIOUS
  <2> QED
    BY FS_Subset, FS_CardinalityType DEF Given
<1>4. RatingsSum(ratings) \in Nat
  BY <1>3, SMT DEF RatingsSum
<1>5. 0 \in Nat /\ 1 \in Nat \ {0}
  OBVIOUS
<1>6. Cardinality(ratings) \in Nat \ {0} \/ ratings = {}
  BY <1>1, <1>2
<1> QED
  BY <1>4, <1>5, <1>6 DEF CalculateRating, NoRating

LEMMA NewRecordIsRecord ==
    ASSUME NEW info \in Infos
    PROVE  NewRecord(info) \in Record
<1>1. IsFiniteSet({}) /\ << >> \in Seq(Name)
  BY FS_EmptySet, EmptySeq
<1>2. NoRating \in Nat \X (Nat \ {0})
  BY DEF NoRating
<1>3. {} \in SUBSET (Name \X Stars)
  OBVIOUS
<1> QED
  BY <1>1, <1>2, <1>3 DEF NewRecord, Record

LEMMA EditedIsRecord ==
    ASSUME NEW rec \in Record, NEW info \in Infos
    PROVE  [rec EXCEPT !.info = info] \in Record
BY DEF Record

LEMMA VisitedIsRecord ==
    ASSUME NEW rec \in Record, NEW name \in Name
    PROVE  Visited(rec, name) \in Record
<1>1. Append(rec.visitors, name) \in Seq(Name)
  BY AppendProperties DEF Record
<1> QED
  BY <1>1 DEF Visited, Record

LEMMA RatedIsRecord ==
    ASSUME NEW rec \in Record, NEW name \in Name, NEW stars \in Stars
    PROVE  Rated(rec, name, stars) \in Record
<1> DEFINE others == {pair \in rec.ratings : pair[1] # name}
           ratings == others \cup {<<name, stars>>}
<1>1. IsFiniteSet(rec.ratings) /\ rec.ratings \in SUBSET (Name \X Stars)
  BY DEF Record
<1>2. IsFiniteSet(others)
  BY <1>1, FS_Subset
<1>3. IsFiniteSet(ratings)
  BY <1>2, FS_AddElement
<1>4. ratings \in SUBSET (Name \X Stars)
  BY <1>1
<1>5. CalculateRating(ratings) \in Nat \X (Nat \ {0})
  BY <1>3, RatingIsFraction
<1>6. Rated(rec, name, stars) =
        [rec EXCEPT !.ratings = ratings, !.rating = CalculateRating(ratings)]
  BY DEF Rated
<1> HIDE DEF ratings
<1> QED
  BY <1>3, <1>4, <1>5, <1>6 DEF Record

-----------------------------------------------------------------------------
(* GoodRecord, operation by operation.                                     *)

LEMMA NewRecordIsGood ==
    ASSUME NEW info \in Infos
    PROVE  GoodRecord(NewRecord(info))
<1>1. NewRecord(info).ratings = {} /\ NewRecord(info).visitors = << >>
      /\ NewRecord(info).rating = NoRating
  BY DEF NewRecord
<1>2. RatingMatches(NewRecord(info)) /\ RatersWellFormed(NewRecord(info))
  BY <1>1 DEF RatingMatches, CalculateRating, RatersWellFormed
<1>3. DOMAIN << >> = {}
  OBVIOUS
<1>4. VisitorsWellFormed(NewRecord(info))
  BY <1>1, <1>3 DEF VisitorsWellFormed
<1> QED
  BY <1>2, <1>4 DEF GoodRecord

LEMMA EditedIsGood ==
    ASSUME NEW rec \in Record, NEW info \in Infos, GoodRecord(rec)
    PROVE  GoodRecord([rec EXCEPT !.info = info])
<1> DEFINE new == [rec EXCEPT !.info = info]
<1>1. new.rating = rec.rating /\ new.visitors = rec.visitors
      /\ new.ratings = rec.ratings
  BY DEF Record
<1> QED
  BY <1>1 DEF GoodRecord, RatingMatches, VisitorsWellFormed, RatersWellFormed

\* Places.visit (Places.swift:186-193): the anonymous name is the position
\* the visitor gets, and a name is appended only if it is new.
LEMMA VisitedIsGood ==
    ASSUME NEW rec \in Record, NEW none, NEW user \in Users \cup {none},
           GoodRecord(rec),
           IsNewVisitor(rec, VisitorName(rec, user, none))
    PROVE  GoodRecord(Visited(rec, VisitorName(rec, user, none)))
<1> DEFINE name == VisitorName(rec, user, none)
           new == Visited(rec, name)
           n == Len(rec.visitors)
<1>1. name \in Name
  BY NamesAreNames
<1>2. rec.visitors \in Seq(Name) /\ n \in Nat /\ DOMAIN rec.visitors = 1 .. n
  BY LenProperties DEF Record
<1>3. new.visitors = Append(rec.visitors, name) /\ new.rating = rec.rating
      /\ new.ratings = rec.ratings
  BY DEF Visited, Record
<1>4. /\ DOMAIN new.visitors = 1 .. n + 1
      /\ new.visitors[n + 1] = name
      /\ \A i \in 1 .. n : new.visitors[i] = rec.visitors[i]
  <2>1. /\ new.visitors \in Seq(Name)
        /\ Len(new.visitors) = n + 1
        /\ \A i \in 1 .. n : new.visitors[i] = rec.visitors[i]
        /\ new.visitors[n + 1] = name
    BY <1>1, <1>2, <1>3, AppendProperties
  <2> QED
    BY <2>1, LenProperties
<1>5. RatingMatches(new) /\ RatersWellFormed(new)
  BY <1>3 DEF GoodRecord, RatingMatches, RatersWellFormed
<1>6. name[1] = "anon" => name = Anonymous(n + 1)
  BY DEF VisitorName, Uid, Anonymous
<1>7. \A i \in 1 .. n : rec.visitors[i] # name
  BY <1>2 DEF IsNewVisitor, HasVisited
<1>8. \A i \in 1 .. n + 1 : i \in 1 .. n \/ i = n + 1
  BY <1>2, SMT
<1> HIDE DEF new, name, n
<1>9. \A i, j \in DOMAIN new.visitors :
         new.visitors[i] = new.visitors[j] => i = j
  BY <1>2, <1>4, <1>7, <1>8 DEF GoodRecord, VisitorsWellFormed
<1>10. \A i \in DOMAIN new.visitors :
          new.visitors[i][1] = "anon" => new.visitors[i] = Anonymous(i)
  BY <1>2, <1>4, <1>6, <1>8 DEF GoodRecord, VisitorsWellFormed
<1>11. VisitorsWellFormed(new)
  BY <1>9, <1>10 DEF VisitorsWellFormed
<1> QED
  BY <1>5, <1>11 DEF GoodRecord, new, name

\* The dictionary assignment of Place.rate (Place.swift:56) adds an entry
\* for a new name and none for a name that has one.
LEMMA RatedCount ==
    ASSUME NEW rec \in Record, RatersWellFormed(rec), NEW name, NEW stars
    PROVE  LET new == Rated(rec, name, stars).ratings
           IN /\ Cardinality(new) \in Nat
              /\ Cardinality(rec.ratings) \in Nat
              /\ Cardinality(rec.ratings) <= Cardinality(new)
              /\ ~ HasRated(rec, name) =>
                   Cardinality(new) = Cardinality(rec.ratings) + 1
<1> DEFINE others == {pair \in rec.ratings : pair[1] # name}
           new == others \cup {<<name, stars>>}
<1>1. IsFiniteSet(rec.ratings)
  BY DEF Record
<1>2. others \subseteq rec.ratings /\ IsFiniteSet(others)
  BY <1>1, FS_Subset
<1>3. <<name, stars>> \notin others
  OBVIOUS
<1>4. /\ Cardinality(new) = Cardinality(others) + 1
      /\ Cardinality(others) \in Nat
      /\ Cardinality(rec.ratings) \in Nat
  BY <1>1, <1>2, <1>3, FS_AddElement, FS_CardinalityType
<1>5. Rated(rec, name, stars).ratings = new
  BY DEF Rated, Record
<1>6. CASE HasRated(rec, name)
  <2>1. PICK p \in rec.ratings : p[1] = name
    BY <1>6 DEF HasRated
  <2>2. others = rec.ratings \ {p}
    BY <2>1 DEF RatersWellFormed
  <2>3. Cardinality(others) = Cardinality(rec.ratings) - 1
    BY <1>1, <2>1, <2>2, FS_RemoveElement
  <2> HIDE DEF others, new
  <2> QED
    BY <1>4, <1>5, <1>6, <2>3
<1>7. CASE ~ HasRated(rec, name)
  <2>1. others = rec.ratings
    BY <1>7 DEF HasRated
  <2> HIDE DEF others, new
  <2> QED
    BY <1>4, <1>5, <2>1
<1> QED
  BY <1>6, <1>7

\* Places.rate (Places.swift:220-228): the anonymous number is above all
\* others, so it is new, and the average is taken after the assignment.
LEMMA RatedIsGood ==
    ASSUME NEW rec \in Record, NEW none, NEW user \in Users \cup {none},
           NEW stars \in Stars, GoodRecord(rec)
    PROVE  GoodRecord(Rated(rec, RaterName(rec, user, none), stars))
<1> DEFINE name == RaterName(rec, user, none)
           new == Rated(rec, name, stars)
           c == Cardinality(rec.ratings)
<1>1. new.visitors = rec.visitors
      /\ new.ratings = {pair \in rec.ratings : pair[1] # name}
                         \cup {<<name, stars>>}
      /\ new.rating = CalculateRating(new.ratings)
  BY DEF Rated, Record
<1>2. RatingMatches(new) /\ VisitorsWellFormed(new)
  BY <1>1 DEF GoodRecord, RatingMatches, VisitorsWellFormed
<1>3. \A p, q \in new.ratings : p[1] = q[1] => p = q
  BY <1>1 DEF GoodRecord, RatersWellFormed
<1>4. /\ Cardinality(new.ratings) \in Nat
      /\ c \in Nat
      /\ c <= Cardinality(new.ratings)
      /\ ~ HasRated(rec, name) => Cardinality(new.ratings) = c + 1
  BY RatedCount DEF GoodRecord
<1>5. name[1] = "anon" => name[2] = c + 1 /\ name = Anonymous(c + 1)
  BY DEF RaterName, Uid, Anonymous
<1>6. name[1] = "anon" => ~ HasRated(rec, name)
  <2> SUFFICES ASSUME name[1] = "anon", NEW p \in rec.ratings, p[1] = name
               PROVE  FALSE
    BY DEF HasRated
  <2>1. p[1][2] <= c
    BY DEF GoodRecord, RatersWellFormed
  <2>2. p[1][2] = c + 1
    BY <1>5
  <2> QED
    BY <1>4, <2>1, <2>2
<1>7. \A p \in new.ratings :
         p[1][1] = "anon" => p[1][2] <= Cardinality(new.ratings)
  <2> SUFFICES ASSUME NEW p \in new.ratings, p[1][1] = "anon"
               PROVE  p[1][2] <= Cardinality(new.ratings)
    OBVIOUS
  <2>1. CASE p \in rec.ratings
    <3>1. p[1][2] <= c /\ p[1] \in Name
      BY <2>1 DEF GoodRecord, RatersWellFormed, Record
    <3>2. p[1][2] \in Nat
      BY <3>1 DEF Name, Uid
    <3> QED
      BY <1>4, <3>1, <3>2
  <2>2. CASE p = <<name, stars>>
    BY <1>4, <1>5, <1>6, <2>2
  <2> QED
    BY <1>1, <2>1, <2>2
<1> QED
  BY <1>2, <1>3, <1>7 DEF GoodRecord, RatersWellFormed

-----------------------------------------------------------------------------
(* Moving records.                                                         *)

Users0 == Users \cup {None}

Of(S, P) == {e \in S : <<e.key, e.rec>> \in P}

Caches(P) == {c \in [Keys -> Record \cup {None}] :
                \A k \in Keys : c[k] = None \/ <<k, c[k]>> \in P}

\* The types of the variables when all records are in P under their key.
TypeOver(P) ==
    /\ server \in Caches(P)
    /\ view \in [Devices -> Caches(P)]
    /\ sending \in [Devices -> Seq(Of(Write, P))]
    /\ unacked \in [Devices -> Seq(Of(Write, P))]
    /\ down \in [Devices -> Seq(Of(Update, P))]
    /\ events \in [Devices -> Seq(Of(Event, P))]
    /\ observers \in [Devices -> Nat]
    /\ places \in [Devices -> Seq(Of(Entry, P))]
    /\ detail \in [Devices -> Keys \cup {None}]
    /\ orphan \in [Devices -> Record \cup {None}]
    /\ \A d \in Devices :
          orphan[d] = None \/ (detail[d] \in Keys
                                 /\ <<detail[d], orphan[d]>> \in P)
    /\ auth \in [Devices -> Users \cup {None}]
    /\ status \in [Devices -> Statuses]
    /\ writes \in Nat /\ edits \in Nat /\ faults \in Nat

\* P has what the operations of the app and the console make of the records
\* that are there.
Makes(P) ==
    /\ \A k \in Keys, info \in Infos :
          /\ ConsoleAdd(k, info) => <<k, NewRecord(info)>> \in P
          /\ ConsoleEdit(k, info) =>
                <<k, [server[k] EXCEPT !.info = info]>> \in P
    /\ \A d \in Devices : \A i \in DOMAIN places[d] :
          LET p == places[d][i]
          IN /\ Visit(d, i) =>
                  <<p.key, Visited(p.rec, VisitorName(p.rec, auth[d], None))>>
                     \in P
             /\ \A stars \in RateChoices :
                   RateListed(d, i, stars) =>
                     <<p.key, Rated(p.rec, RaterName(p.rec, auth[d], None),
                                    stars)>> \in P
    /\ \A d \in Devices, stars \in RateChoices :
          RateOrphan(d, stars) =>
            <<detail[d], Rated(orphan[d],
                               RaterName(orphan[d], auth[d], None), stars)>>
               \in P

\* R is a set of records that no operation of the app or of the console
\* leaves.
Closed(R) ==
    /\ R \subseteq Record
    /\ \A info \in Infos : NewRecord(info) \in R
    /\ \A rec \in R, info \in Infos : [rec EXCEPT !.info = info] \in R
    /\ \A rec \in R, user \in Users0 :
          IsNewVisitor(rec, VisitorName(rec, user, None)) =>
             Visited(rec, VisitorName(rec, user, None)) \in R
    /\ \A rec \in R, user \in Users0, stars \in Stars :
          Rated(rec, RaterName(rec, user, None), stars) \in R

GoodRecords == {rec \in Record : GoodRecord(rec)}

LEMMA NoneIsNoRecord == None \notin Record /\ None \notin Keys
  BY NoneAssumption

LEMMA RecordClosed == Closed(Record)
<1>1. \A info \in Infos : NewRecord(info) \in Record
  BY NewRecordIsRecord
<1>2. \A rec \in Record, info \in Infos : [rec EXCEPT !.info = info] \in Record
  BY EditedIsRecord
<1>3. \A rec \in Record, user \in Users0 :
         Visited(rec, VisitorName(rec, user, None)) \in Record
  BY NamesAreNames, VisitedIsRecord DEF Users0
<1>4. \A rec \in Record, user \in Users0, stars \in Stars :
         Rated(rec, RaterName(rec, user, None), stars) \in Record
  BY NamesAreNames, RatedIsRecord DEF Users0
<1> QED
  BY <1>1, <1>2, <1>3, <1>4 DEF Closed

LEMMA GoodClosed == Closed(GoodRecords)
<1>1. \A info \in Infos : NewRecord(info) \in GoodRecords
  BY NewRecordIsRecord, NewRecordIsGood DEF GoodRecords
<1>2. \A rec \in GoodRecords, info \in Infos :
         [rec EXCEPT !.info = info] \in GoodRecords
  BY EditedIsRecord, EditedIsGood DEF GoodRecords
<1>3. \A rec \in GoodRecords, user \in Users0 :
         IsNewVisitor(rec, VisitorName(rec, user, None)) =>
            Visited(rec, VisitorName(rec, user, None)) \in GoodRecords
  BY NamesAreNames, VisitedIsRecord, VisitedIsGood DEF Users0, GoodRecords
<1>4. \A rec \in GoodRecords, user \in Users0, stars \in Stars :
         Rated(rec, RaterName(rec, user, None), stars) \in GoodRecords
  BY NamesAreNames, RatedIsRecord, RatedIsGood DEF Users0, GoodRecords
<1>5. GoodRecords \subseteq Record
  BY DEF GoodRecords
<1> QED
  BY <1>1, <1>2, <1>3, <1>4, <1>5 DEF Closed

-----------------------------------------------------------------------------
(* Queues, one per device.                                                 *)

LEMMA AppendAt ==
    ASSUME NEW S, NEW q \in [Devices -> Seq(S)], NEW d \in Devices, NEW e \in S
    PROVE  [q EXCEPT ![d] = Append(@, e)] \in [Devices -> Seq(S)]
BY AppendProperties

LEMMA TailAt ==
    ASSUME NEW S, NEW q \in [Devices -> Seq(S)], NEW d \in Devices,
           q[d] # << >>
    PROVE  /\ [q EXCEPT ![d] = Tail(@)] \in [Devices -> Seq(S)]
           /\ Head(q[d]) \in S
BY HeadTailProperties

LEMMA BecomesAt ==
    ASSUME NEW S, NEW q \in [Devices -> S], NEW d \in Devices, NEW s \in S
    PROVE  [q EXCEPT ![d] = s] \in [Devices -> S]
OBVIOUS

LEMMA EntryTypes ==
    ASSUME NEW P, NEW q \in [Devices -> Seq(Of(Entry, P))], NEW d \in Devices,
           NEW i \in DOMAIN q[d]
    PROVE  /\ i \in 1 .. Len(q[d])
           /\ q[d][i] \in Of(Entry, P)
           /\ q[d][i].key \in Keys /\ q[d][i].rec \in Record
           /\ <<q[d][i].key, q[d][i].rec>> \in P
<1>1. i \in 1 .. Len(q[d]) /\ q[d] \in Seq(Of(Entry, P))
  BY LenProperties
<1>2. q[d][i] \in Of(Entry, P)
  BY <1>1, ElementOfSeq
<1> QED
  BY <1>1, <1>2 DEF Entry, Of

\* The object in a row of the list changes.
LEMMA EntryAt ==
    ASSUME NEW P, NEW q \in [Devices -> Seq(Of(Entry, P))], NEW d \in Devices,
           NEW i \in DOMAIN q[d],
           NEW rec \in Record, <<q[d][i].key, rec>> \in P
    PROVE  [q EXCEPT ![d][i].rec = rec] \in [Devices -> Seq(Of(Entry, P))]
<1>1. i \in 1 .. Len(q[d]) /\ q[d][i] \in Of(Entry, P)
  BY EntryTypes
<1>2. [q[d][i] EXCEPT !.rec = rec] \in Of(Entry, P)
  BY <1>1 DEF Entry, Of
<1>3. [q[d] EXCEPT ![i] = [q[d][i] EXCEPT !.rec = rec]] \in Seq(Of(Entry, P))
  BY <1>1, <1>2, ExceptSeq
<1>4. [q EXCEPT ![d][i].rec = rec] =
        [q EXCEPT ![d] = [q[d] EXCEPT ![i] = [q[d][i] EXCEPT !.rec = rec]]]
  OBVIOUS
<1> QED
  BY <1>3, <1>4

LEMMA WithAddedIsList ==
    ASSUME NEW P, NEW list \in Seq(Of(Entry, P)), NEW k \in Keys,
           NEW rec \in Record, <<k, rec>> \in P
    PROVE  WithAdded(list, k, rec) \in Seq(Of(Entry, P))
BY AppendProperties DEF WithAdded, Entry, Of

LEMMA ReplacedIsList ==
    ASSUME NEW P, NEW list \in Seq(Of(Entry, P)), NEW k \in Keys,
           NEW rec \in Record, <<k, rec>> \in P
    PROVE  Replaced(list, k, rec) \in Seq(Of(Entry, P))
<1> DEFINE new(i) == IF list[i].key = k /\ \A j \in 1 .. i - 1 : list[j].key # k
                     THEN [key |-> k, rec |-> rec]
                     ELSE list[i]
<1>1. Len(list) \in Nat /\ DOMAIN list = 1 .. Len(list)
  BY LenProperties
<1>2. \A i \in 1 .. Len(list) : new(i) \in Of(Entry, P)
  BY ElementOfSeq DEF Entry, Of
<1> HIDE DEF new
<1>3. [i \in 1 .. Len(list) |-> new(i)] \in Seq(Of(Entry, P))
  BY <1>1, <1>2, IsASeq
<1> QED
  BY <1>1, <1>3 DEF Replaced, new

-----------------------------------------------------------------------------
(* The parts that actions share.                                           *)

LEMMA CallsAreEvents ==
    ASSUME NEW P, NEW n \in Nat, NEW type \in {"added", "changed"},
           NEW k \in Keys,
           NEW rec \in Record, <<k, rec>> \in P
    PROVE  Calls(n, type, k, rec) \in Seq(Of(Event, P))
BY IsASeq DEF Calls, Event, Of

LEMMA CacheBecomesTypes ==
    ASSUME NEW P, TypeOver(P), NEW d \in Devices, NEW k \in Keys,
           NEW rec \in Record, <<k, rec>> \in P,
           CacheBecomes(d, k, rec)
    PROVE  /\ view' \in [Devices -> Caches(P)]
           /\ events' \in [Devices -> Seq(Of(Event, P))]
<1> DEFINE type == IF view[d][k] = None THEN "added" ELSE "changed"
           calls == Calls(observers[d], type, k, rec)
<1>1. calls \in Seq(Of(Event, P))
  BY CallsAreEvents DEF TypeOver
<1>2. events[d] \o calls \in Seq(Of(Event, P))
  BY <1>1, ConcatProperties DEF TypeOver
<1>3. events' = [events EXCEPT ![d] =
                   IF view[d][k] = rec THEN events[d] ELSE events[d] \o calls]
  BY DEF CacheBecomes
<1>4. view' = [view EXCEPT ![d][k] = rec]
  BY DEF CacheBecomes
<1>5. [view[d] EXCEPT ![k] = rec] \in Caches(P)
  BY DEF TypeOver, Caches
<1> HIDE DEF calls
<1> QED
  BY <1>2, <1>3, <1>4, <1>5 DEF TypeOver

LEMMA UpdateChildValuesTypes ==
    ASSUME NEW P, TypeOver(P), NEW d \in Devices, NEW k \in Keys,
           NEW rec \in Record, <<k, rec>> \in P,
           UpdateChildValues(d, k, rec)
    PROVE  /\ view' \in [Devices -> Caches(P)]
           /\ events' \in [Devices -> Seq(Of(Event, P))]
           /\ sending' \in [Devices -> Seq(Of(Write, P))]
           /\ writes' \in Nat
<1>1. CacheBecomes(d, k, rec) /\ writes' = writes + 1
      /\ sending' = [sending EXCEPT ![d] = Append(@, [key |-> k, rec |-> rec])]
  BY DEF UpdateChildValues
<1>2. [key |-> k, rec |-> rec] \in Of(Write, P)
  BY DEF Write, Of
<1>3. sending' \in [Devices -> Seq(Of(Write, P))]
  BY <1>1, <1>2, AppendAt DEF TypeOver
<1>4. writes' \in Nat
  BY <1>1 DEF TypeOver
<1> QED
  BY <1>1, <1>3, <1>4, CacheBecomesTypes

LEMMA BroadcastTypes ==
    ASSUME NEW P, TypeOver(P), NEW k \in Keys,
           NEW rec \in Record, <<k, rec>> \in P, NEW writer,
           Broadcast(k, rec, writer)
    PROVE  down' \in [Devices -> Seq(Of(Update, P))]
<1>1. \A d \in Devices :
         [key |-> k, rec |-> rec, ack |-> d = writer] \in Of(Update, P)
  BY DEF Update, Of
<1>2. \A d \in Devices :
         Append(down[d], [key |-> k, rec |-> rec, ack |-> d = writer])
           \in Seq(Of(Update, P))
  BY <1>1, AppendProperties DEF TypeOver
<1> QED
  BY <1>2 DEF Broadcast, TypeOver

\* Keys in the order of the SDK, each with the record of a cache that has it.
LEMMA OrderTypes ==
    ASSUME NEW P, NEW cache \in Caches(P),
           NEW order \in InKeyOrder(Existing(cache))
    PROVE  /\ Len(order) \in Nat
           /\ DOMAIN order = 1 .. Len(order)
           /\ \A i \in 1 .. Len(order) :
                 /\ order[i] \in Keys /\ cache[order[i]] \in Record
                 /\ <<order[i], cache[order[i]]>> \in P
<1> DEFINE S == Existing(cache)
<1>1. /\ S \subseteq Keys
      /\ \A k \in S : cache[k] \in Record /\ <<k, cache[k]>> \in P
  BY DEF Existing, Caches
<1>2. Cardinality(S) \in Nat
  BY <1>1, KeysAssumption, FS_Subset, FS_CardinalityType
<1>3. order \in [1 .. Cardinality(S) -> S]
  BY DEF InKeyOrder
<1>4. order \in Seq(S)
  BY <1>2, <1>3, SeqDef
<1> HIDE DEF S
<1>5. Len(order) \in Nat /\ DOMAIN order = 1 .. Len(order)
  BY <1>4, LenProperties
<1>6. \A i \in 1 .. Len(order) : order[i] \in S
  BY <1>4, ElementOfSeq
<1> QED
  BY <1>1, <1>5, <1>6

LEMMA SnapshotTypes ==
    ASSUME NEW P, TypeOver(P),
           NEW order \in InKeyOrder(Existing(server))
    PROVE  SnapshotOf(order) \in Seq(Of(Update, P))
<1>1. /\ Len(order) \in Nat /\ DOMAIN order = 1 .. Len(order)
      /\ \A i \in 1 .. Len(order) :
            /\ order[i] \in Keys /\ server[order[i]] \in Record
            /\ <<order[i], server[order[i]]>> \in P
  BY OrderTypes DEF TypeOver
<1> DEFINE update(i) == [key |-> order[i], rec |-> server[order[i]],
                         ack |-> FALSE]
<1>2. \A i \in 1 .. Len(order) : update(i) \in Of(Update, P)
  BY <1>1 DEF Update, Of
<1> HIDE DEF update
<1>3. [i \in 1 .. Len(order) |-> update(i)] \in Seq(Of(Update, P))
  BY <1>1, <1>2, IsASeq
<1> QED
  BY <1>1, <1>3 DEF SnapshotOf, update

-----------------------------------------------------------------------------
(* The actions of the SDK, the server and the console.                     *)

LEMMA ServerApplyTypes ==
    ASSUME NEW P, TypeOver(P), NEW d \in Devices, ServerApply(d)
    PROVE  TypeOver(P)'
<1> DEFINE w == Head(sending[d])
<1>1. /\ sending' \in [Devices -> Seq(Of(Write, P))]
      /\ w \in Of(Write, P)
  <2> sending \in [Devices -> Seq(Of(Write, P))] /\ sending[d] # << >>
    BY DEF TypeOver, ServerApply
  <2> sending' = [sending EXCEPT ![d] = Tail(@)]
    BY DEF ServerApply
  <2> QED
    BY TailAt
<1>2. w.key \in Keys /\ w.rec \in Record /\ <<w.key, w.rec>> \in P
  BY <1>1 DEF Write, Of
<1>3. server' \in Caches(P)
  BY <1>2 DEF ServerApply, TypeOver, Caches
<1>4. unacked' \in [Devices -> Seq(Of(Write, P))]
  BY <1>1, AppendAt DEF ServerApply, TypeOver
<1>5. down' \in [Devices -> Seq(Of(Update, P))]
  BY <1>2, BroadcastTypes DEF ServerApply
<1> QED
  BY <1>1, <1>3, <1>4, <1>5 DEF ServerApply, TypeOver

LEMMA DeliverTypes ==
    ASSUME NEW P, TypeOver(P), NEW d \in Devices, Deliver(d)
    PROVE  TypeOver(P)'
<1> DEFINE m == Head(down[d])
<1>1. /\ down' \in [Devices -> Seq(Of(Update, P))]
      /\ m \in Of(Update, P)
  <2> down \in [Devices -> Seq(Of(Update, P))] /\ down[d] # << >>
    BY DEF TypeOver, Deliver
  <2> down' = [down EXCEPT ![d] = Tail(@)]
    BY DEF Deliver
  <2> QED
    BY TailAt
<1>2. m.key \in Keys /\ m.rec \in Record /\ <<m.key, m.rec>> \in P
  BY <1>1 DEF Update, Of
<1>3. unacked' \in [Devices -> Seq(Of(Write, P))]
  <2> DEFINE q == unacked[d]
  <2>1. q \in Seq(Of(Write, P)) /\ Len(q) \in Nat
    BY LenProperties DEF TypeOver
  <2>2. \A i \in 2 .. Len(q) : q[i] \in Of(Write, P)
    BY <2>1, ElementOfSeq
  <2>3. SubSeq(q, 2, Len(q)) \in Seq(Of(Write, P))
    BY <2>1, <2>2, SubSeqProperties
  <2>4. unacked' = [unacked EXCEPT ![d] =
                      IF m.ack THEN SubSeq(q, 2, Len(q)) ELSE q]
    BY DEF Deliver
  <2> HIDE DEF q
  <2> QED
    BY <2>1, <2>3, <2>4 DEF TypeOver
<1>4. /\ view' \in [Devices -> Caches(P)]
      /\ events' \in [Devices -> Seq(Of(Event, P))]
  <2>1. CASE UNCHANGED <<view, events>>
    BY <2>1 DEF TypeOver
  <2>2. CASE CacheBecomes(d, m.key, m.rec)
    BY <1>2, <2>2, CacheBecomesTypes
  <2> QED
    BY <2>1, <2>2 DEF Deliver
<1> QED
  BY <1>1, <1>3, <1>4 DEF Deliver, TypeOver

LEMMA ReconnectTypes ==
    ASSUME NEW P, TypeOver(P), NEW d \in Devices, Reconnect(d)
    PROVE  TypeOver(P)'
<1>1. sending' \in [Devices -> Seq(Of(Write, P))]
  <2>1. unacked[d] \o sending[d] \in Seq(Of(Write, P))
    BY ConcatProperties DEF TypeOver
  <2> QED
    BY <2>1 DEF Reconnect, TypeOver
<1>2. unacked' \in [Devices -> Seq(Of(Write, P))]
  BY EmptySeq DEF Reconnect, TypeOver
<1>3. down' \in [Devices -> Seq(Of(Update, P))]
  <2>1. PICK order \in InKeyOrder(Existing(server)) :
               down' = [down EXCEPT ![d] = SnapshotOf(order)]
    BY DEF Reconnect
  <2> QED
    BY <2>1, SnapshotTypes DEF TypeOver
<1>4. faults' \in Nat
  BY DEF Reconnect, TypeOver
<1> QED
  BY <1>1, <1>2, <1>3, <1>4 DEF Reconnect, TypeOver

LEMMA ConsoleWritesTypes ==
    ASSUME NEW P, TypeOver(P), NEW k \in Keys,
           NEW rec \in Record, <<k, rec>> \in P,
           ConsoleWrites(k, rec)
    PROVE  TypeOver(P)'
<1>1. down' \in [Devices -> Seq(Of(Update, P))]
  BY BroadcastTypes DEF ConsoleWrites
<1>2. server' \in Caches(P)
  <2>1. [server EXCEPT ![k] = rec] \in Caches(P)
    BY DEF TypeOver, Caches
  <2> QED
    BY <2>1 DEF ConsoleWrites
<1>3. edits' \in Nat
  BY DEF ConsoleWrites, TypeOver
<1> QED
  BY <1>1, <1>2, <1>3 DEF ConsoleWrites, TypeOver

LEMMA ConsoleTypes ==
    ASSUME NEW P, Makes(P), TypeOver(P), NEW k \in Keys, NEW info \in Infos,
           ConsoleAdd(k, info) \/ ConsoleEdit(k, info)
    PROVE  TypeOver(P)'
<1>1. CASE ConsoleAdd(k, info)
  <2>1. <<k, NewRecord(info)>> \in P /\ NewRecord(info) \in Record
    BY <1>1, NewRecordIsRecord DEF Makes
  <2> QED
    BY <1>1, <2>1, ConsoleWritesTypes DEF ConsoleAdd
<1>2. CASE ConsoleEdit(k, info)
  <2> DEFINE new == [server[k] EXCEPT !.info = info]
  <2>1. server[k] \in Record
    BY <1>2 DEF ConsoleEdit, TypeOver, Caches
  <2>2. <<k, new>> \in P /\ new \in Record
    BY <1>2, <2>1, EditedIsRecord DEF Makes
  <2>3. ConsoleWrites(k, new)
    BY <1>2 DEF ConsoleEdit
  <2> HIDE DEF new
  <2> QED
    BY <2>2, <2>3, ConsoleWritesTypes
<1> QED
  BY <1>1, <1>2

-----------------------------------------------------------------------------
(* The actions of the app.                                                 *)

LEMMA LaunchTypes ==
    ASSUME NEW P, TypeOver(P), NEW d \in Devices, Launch(d)
    PROVE  TypeOver(P)'
<1>1. down' \in [Devices -> Seq(Of(Update, P))]
  <2>1. PICK order \in InKeyOrder(Existing(server)) :
               down' = [down EXCEPT ![d] = SnapshotOf(order)]
    BY DEF Launch
  <2> QED
    BY <2>1, SnapshotTypes DEF TypeOver
<1>2. status' \in [Devices -> Statuses] /\ observers' \in [Devices -> Nat]
  BY DEF Launch, TypeOver, Statuses
<1> QED
  BY <1>1, <1>2 DEF Launch, TypeOver

LEMMA KillTypes ==
    ASSUME NEW P, TypeOver(P), NEW d \in Devices, Kill(d)
    PROVE  TypeOver(P)'
<1>1. \A S : << >> \in Seq(S)
  BY EmptySeq
<1>2. /\ sending' \in [Devices -> Seq(Of(Write, P))]
      /\ unacked' \in [Devices -> Seq(Of(Write, P))]
      /\ down' \in [Devices -> Seq(Of(Update, P))]
      /\ events' \in [Devices -> Seq(Of(Event, P))]
      /\ places' \in [Devices -> Seq(Of(Entry, P))]
  BY <1>1 DEF Kill, TypeOver
<1>3. /\ view' \in [Devices -> Caches(P)]
      /\ observers' \in [Devices -> Nat]
      /\ detail' \in [Devices -> Keys \cup {None}]
      /\ orphan' \in [Devices -> Record \cup {None}]
      /\ \A c \in Devices :
            orphan'[c] = None \/ (detail'[c] \in Keys
                                   /\ <<detail'[c], orphan'[c]>> \in P)
      /\ status' \in [Devices -> Statuses]
      /\ faults' \in Nat
  BY DEF Kill, TypeOver, Statuses, Caches
<1> QED
  BY <1>2, <1>3 DEF Kill, TypeOver

LEMMA EventTypes ==
    ASSUME NEW P, TypeOver(P), NEW d \in Devices,
           events[d] # << >>, events' = [events EXCEPT ![d] = Tail(@)]
    PROVE  /\ events' \in [Devices -> Seq(Of(Event, P))]
           /\ Head(events[d]).key \in Keys
           /\ Head(events[d]).rec \in Record
           /\ <<Head(events[d]).key, Head(events[d]).rec>> \in P
<1>1. /\ events' \in [Devices -> Seq(Of(Event, P))]
      /\ Head(events[d]) \in Of(Event, P)
  BY TailAt DEF TypeOver
<1> QED
  BY <1>1 DEF Event, Of

LEMMA HandleEventTypes ==
    ASSUME NEW P, TypeOver(P), NEW d \in Devices, HandleEvent(d)
    PROVE  TypeOver(P)'
<1> DEFINE e == Head(events[d])
<1>1. CASE HandleChildAdded(d)
  <2>1. /\ events' \in [Devices -> Seq(Of(Event, P))]
        /\ e.key \in Keys /\ e.rec \in Record /\ <<e.key, e.rec>> \in P
    BY <1>1, EventTypes DEF HandleChildAdded
  <2>2. WithAdded(places[d], e.key, e.rec) \in Seq(Of(Entry, P))
    BY <2>1, WithAddedIsList DEF TypeOver
  <2>3. places' = [places EXCEPT ![d] = WithAdded(places[d], e.key, e.rec)]
    BY <1>1 DEF HandleChildAdded
  <2>4. places' \in [Devices -> Seq(Of(Entry, P))]
    BY <2>2, <2>3 DEF TypeOver
  <2> QED
    BY <1>1, <2>1, <2>4 DEF HandleChildAdded, TypeOver, sdk
<1>2. CASE HandleChildChanged(d)
  <2>1. /\ events' \in [Devices -> Seq(Of(Event, P))]
        /\ e.key \in Keys /\ e.rec \in Record /\ <<e.key, e.rec>> \in P
    BY <1>2, EventTypes DEF HandleChildChanged
  <2>2. Replaced(places[d], e.key, e.rec) \in Seq(Of(Entry, P))
    BY <2>1, ReplacedIsList DEF TypeOver
  <2>3. places' = [places EXCEPT ![d] = Replaced(places[d], e.key, e.rec)]
    BY <1>2 DEF HandleChildChanged
  <2>4. places' \in [Devices -> Seq(Of(Entry, P))]
    BY <2>2, <2>3 DEF TypeOver
  <2>5. /\ orphan' \in [Devices -> Record \cup {None}]
        /\ \A c \in Devices :
              orphan'[c] = None \/ (detail'[c] \in Keys
                                     /\ <<detail'[c], orphan'[c]>> \in P)
    <3>1. UNCHANGED detail
      BY <1>2 DEF HandleChildChanged
    <3>2. CASE UNCHANGED orphan
      BY <3>1, <3>2 DEF TypeOver
    <3>3. CASE /\ detail[d] = e.key
               /\ \E i \in DOMAIN places[d] :
                     /\ places[d][i].key = e.key
                     /\ orphan' = [orphan EXCEPT ![d] = places[d][i].rec]
      <4>1. PICK i \in DOMAIN places[d] :
                   /\ places[d][i].key = e.key
                   /\ orphan' = [orphan EXCEPT ![d] = places[d][i].rec]
        BY <3>3
      <4>2. /\ places[d][i].rec \in Record
            /\ detail[d] \in Keys /\ <<detail[d], places[d][i].rec>> \in P
        <5>1. places \in [Devices -> Seq(Of(Entry, P))]
          BY DEF TypeOver
        <5>2. /\ places[d][i].key \in Keys /\ places[d][i].rec \in Record
              /\ <<places[d][i].key, places[d][i].rec>> \in P
          BY <5>1, EntryTypes
        <5>3. places[d][i].key = detail[d]
          BY <3>3, <4>1
        <5> QED
          BY <5>2, <5>3
      <4>3. \A c \in Devices : c # d => orphan'[c] = orphan[c]
        BY <4>1 DEF TypeOver
      <4>4. orphan'[d] = places[d][i].rec
            /\ orphan' \in [Devices -> Record \cup {None}]
        BY <4>1, <4>2 DEF TypeOver
      <4> HIDE DEF e
      <4> QED
        BY <3>1, <4>2, <4>3, <4>4 DEF TypeOver
    <3> QED
      BY <1>2, <3>2, <3>3 DEF HandleChildChanged
  <2> QED
    BY <1>2, <2>1, <2>4, <2>5 DEF HandleChildChanged, TypeOver, sdk
<1>3. CASE FailCast(d)
  BY <1>3 DEF FailCast, Trap, TypeOver, Statuses
<1> QED
  BY <1>1, <1>2, <1>3 DEF HandleEvent

LEMMA VisitTypes ==
    ASSUME NEW P, TypeOver(P), NEW d \in Devices,
           NEW i \in DOMAIN places[d], Visit(d, i),
           <<places[d][i].key,
             Visited(places[d][i].rec,
                     VisitorName(places[d][i].rec, auth[d], None))>> \in P
    PROVE  TypeOver(P)'
<1> DEFINE p == places[d][i]
           name == VisitorName(p.rec, auth[d], None)
           new == Visited(p.rec, name)
<1>1. p.key \in Keys /\ p.rec \in Record
  BY EntryTypes DEF TypeOver
<1>2. auth[d] \in Users0 /\ IsNewVisitor(p.rec, name)
  BY DEF TypeOver, Users0, Visit
<1>3. new \in Record /\ <<p.key, new>> \in P
  BY <1>1, <1>2, NamesAreNames, VisitedIsRecord DEF Users0
<1>4. places' = [places EXCEPT ![d][i].rec = new] /\ UpdateChildValues(d, p.key, new)
  BY DEF Visit
<1> HIDE DEF new
<1>5. places' \in [Devices -> Seq(Of(Entry, P))]
  BY <1>3, <1>4, EntryAt DEF TypeOver
<1>6. /\ view' \in [Devices -> Caches(P)]
      /\ events' \in [Devices -> Seq(Of(Event, P))]
      /\ sending' \in [Devices -> Seq(Of(Write, P))]
      /\ writes' \in Nat
  BY <1>1, <1>3, <1>4, UpdateChildValuesTypes
<1> QED
  BY <1>5, <1>6 DEF Visit, TypeOver

LEMMA RateListedTypes ==
    ASSUME NEW P, TypeOver(P), NEW d \in Devices,
           NEW i \in DOMAIN places[d], NEW stars \in RateChoices,
           RateListed(d, i, stars),
           <<places[d][i].key,
             Rated(places[d][i].rec,
                   RaterName(places[d][i].rec, auth[d], None), stars)>> \in P
    PROVE  TypeOver(P)'
<1> DEFINE p == places[d][i]
           new == Rated(p.rec, RaterName(p.rec, auth[d], None), stars)
<1>1. p.key \in Keys /\ p.rec \in Record
  BY EntryTypes DEF TypeOver
<1>2. auth[d] \in Users0
  BY DEF TypeOver, Users0
<1>3. new \in Record /\ <<p.key, new>> \in P
  <2>1. stars \in Stars
    BY ChoicesAssumption
  <2>2. new \in Record
    BY <1>1, <1>2, <2>1, NamesAreNames, RatedIsRecord DEF Users0
  <2> QED
    BY <2>2
<1>4. /\ places' = [places EXCEPT ![d][i].rec = new]
      /\ UpdateChildValues(d, p.key, new)
  BY DEF RateListed
<1> HIDE DEF new
<1>5. places' \in [Devices -> Seq(Of(Entry, P))]
  BY <1>3, <1>4, EntryAt DEF TypeOver
<1>6. /\ view' \in [Devices -> Caches(P)]
      /\ events' \in [Devices -> Seq(Of(Event, P))]
      /\ sending' \in [Devices -> Seq(Of(Write, P))]
      /\ writes' \in Nat
  BY <1>1, <1>3, <1>4, UpdateChildValuesTypes
<1> QED
  BY <1>5, <1>6 DEF RateListed, TypeOver

LEMMA RateOrphanTypes ==
    ASSUME NEW P, TypeOver(P), NEW d \in Devices,
           NEW stars \in RateChoices, RateOrphan(d, stars),
           <<detail[d], Rated(orphan[d],
                              RaterName(orphan[d], auth[d], None), stars)>>
              \in P
    PROVE  TypeOver(P)'
<1> DEFINE new == Rated(orphan[d], RaterName(orphan[d], auth[d], None), stars)
<1>1. detail[d] \in Keys /\ orphan[d] \in Record /\ auth[d] \in Users0
  BY DEF RateOrphan, TypeOver, Users0
<1>2. new \in Record /\ <<detail[d], new>> \in P
  <2>1. stars \in Stars
    BY ChoicesAssumption
  <2>2. new \in Record
    BY <1>1, <2>1, NamesAreNames, RatedIsRecord DEF Users0
  <2> QED
    BY <2>2
<1>3. orphan' = [orphan EXCEPT ![d] = new] /\ UpdateChildValues(d, detail[d], new)
  BY DEF RateOrphan
<1> HIDE DEF new
<1>4. /\ orphan' \in [Devices -> Record \cup {None}]
      /\ \A c \in Devices :
            orphan'[c] = None \/ (detail'[c] \in Keys
                                   /\ <<detail'[c], orphan'[c]>> \in P)
  BY <1>2, <1>3 DEF TypeOver, RateOrphan
<1>5. /\ view' \in [Devices -> Caches(P)]
      /\ events' \in [Devices -> Seq(Of(Event, P))]
      /\ sending' \in [Devices -> Seq(Of(Write, P))]
      /\ writes' \in Nat
  BY <1>1, <1>2, <1>3, UpdateChildValuesTypes
<1> QED
  BY <1>4, <1>5 DEF RateOrphan, TypeOver

LEMMA OpenMyPlacesTypes ==
    ASSUME NEW P, TypeOver(P), NEW d \in Devices,
           OpenMyPlaces(d)
    PROVE  TypeOver(P)'
<1>1. PICK order \in InKeyOrder(Existing(view[d])) :
             events' = [events EXCEPT ![d] = @ \o
                          [i \in DOMAIN order |->
                             [type |-> "added", key |-> order[i],
                              rec |-> view[d][order[i]]]]]
  BY DEF OpenMyPlaces
<1>2. view[d] \in Caches(P)
  BY DEF TypeOver
<1>3. /\ Len(order) \in Nat /\ DOMAIN order = 1 .. Len(order)
      /\ \A i \in 1 .. Len(order) :
            /\ order[i] \in Keys /\ view[d][order[i]] \in Record
            /\ <<order[i], view[d][order[i]]>> \in P
  BY <1>2, OrderTypes
<1> DEFINE call(i) == [type |-> "added", key |-> order[i],
                       rec |-> view[d][order[i]]]
<1>4. \A i \in 1 .. Len(order) : call(i) \in Of(Event, P)
  BY <1>3 DEF Event, Of
<1>5. events' = [events EXCEPT ![d] = @ \o [i \in 1 .. Len(order) |-> call(i)]]
  BY <1>1, <1>3
<1> HIDE DEF call
<1>6. [i \in 1 .. Len(order) |-> call(i)] \in Seq(Of(Event, P))
  BY <1>3, <1>4, IsASeq
<1>7. events[d] \o [i \in 1 .. Len(order) |-> call(i)] \in Seq(Of(Event, P))
  BY <1>6, ConcatProperties DEF TypeOver
<1>8. events' \in [Devices -> Seq(Of(Event, P))]
  BY <1>5, <1>7 DEF TypeOver
<1>9. observers' \in [Devices -> Nat]
  BY DEF OpenMyPlaces, TypeOver
<1> QED
  BY <1>8, <1>9 DEF OpenMyPlaces, TypeOver, sdk

LEMMA ScreenTypes ==
    ASSUME NEW P, TypeOver(P), NEW d \in Devices,
           \/ \E i \in DOMAIN places[d] : OpenDetail(d, i)
           \/ CloseDetail(d)
           \/ FailUnwrap(d)
           \/ \E u \in Users : SignIn(d, u)
           \/ SignOut(d)
    PROVE  TypeOver(P)'
<1>1. ASSUME NEW i \in DOMAIN places[d], OpenDetail(d, i)
      PROVE  TypeOver(P)'
  <2>1. places[d][i].key \in Keys
    BY EntryTypes DEF TypeOver
  <2> QED
    BY <1>1, <2>1, NoneIsNoRecord DEF OpenDetail, TypeOver, sdk
<1>2. CASE CloseDetail(d)
  BY <1>2 DEF CloseDetail, TypeOver, sdk
<1>3. CASE FailUnwrap(d)
  BY <1>3 DEF FailUnwrap, Trap, TypeOver, Statuses
<1>4. ASSUME NEW u \in Users, SignIn(d, u)
      PROVE  TypeOver(P)'
  BY <1>4 DEF SignIn, TypeOver, sdk
<1>5. CASE SignOut(d)
  BY <1>5 DEF SignOut, TypeOver, sdk
<1> QED
  BY <1>1, <1>2, <1>3, <1>4, <1>5

-----------------------------------------------------------------------------
(* The induction.                                                          *)

LEMMA InitTypes ==
    ASSUME NEW P, Init
    PROVE  TypeOver(P)
<1>1. \A S : << >> \in Seq(S)
  BY EmptySeq
<1> QED
  BY <1>1 DEF Init, TypeOver, Statuses, Caches

\* A closed set of records has all that is made of its records.
LEMMA ClosedMakes ==
    ASSUME NEW R, Closed(R), TypeOver(Keys \X R)
    PROVE  Makes(Keys \X R)
<1> DEFINE P == Keys \X R
<1>1. ASSUME NEW k \in Keys, NEW info \in Infos
      PROVE  /\ <<k, NewRecord(info)>> \in P
             /\ ConsoleEdit(k, info) =>
                  <<k, [server[k] EXCEPT !.info = info]>> \in P
  <2>1. server[k] # None => server[k] \in R
    BY DEF TypeOver, Caches
  <2> QED
    BY <2>1 DEF Closed, ConsoleEdit
<1>2. ASSUME NEW d \in Devices, NEW i \in DOMAIN places[d]
      PROVE  LET p == places[d][i]
             IN /\ Visit(d, i) =>
                     <<p.key, Visited(p.rec, VisitorName(p.rec, auth[d], None))>>
                        \in P
                /\ \A stars \in RateChoices :
                      RateListed(d, i, stars) =>
                        <<p.key, Rated(p.rec, RaterName(p.rec, auth[d], None),
                                       stars)>> \in P
  <2>1. places[d][i].key \in Keys /\ places[d][i].rec \in R
    <3>1. places \in [Devices -> Seq(Of(Entry, P))]
      BY DEF TypeOver
    <3>2. places[d][i].key \in Keys /\ <<places[d][i].key, places[d][i].rec>> \in P
      BY <3>1, EntryTypes
    <3> QED
      BY <3>2
  <2>2. auth[d] \in Users0 /\ RateChoices \subseteq Stars
    BY ChoicesAssumption DEF TypeOver, Users0
  <2> QED
    BY <2>1, <2>2 DEF Closed, Visit
<1>3. ASSUME NEW d \in Devices, NEW stars \in RateChoices,
             RateOrphan(d, stars)
      PROVE  <<detail[d], Rated(orphan[d],
                                RaterName(orphan[d], auth[d], None), stars)>>
                \in P
  <2>1. detail[d] \in Keys /\ orphan[d] \in R
    BY <1>3 DEF RateOrphan, TypeOver
  <2>2. auth[d] \in Users0 /\ RateChoices \subseteq Stars
    BY ChoicesAssumption DEF TypeOver, Users0
  <2> QED
    BY <2>1, <2>2 DEF Closed
<1> HIDE DEF P
<1>4. Makes(P)
  BY <1>1, <1>2, <1>3 DEF Makes
<1> QED
  BY <1>4 DEF P

LEMMA StepTypes ==
    ASSUME NEW P, Makes(P), TypeOver(P), [Next]_vars
    PROVE  TypeOver(P)'
<1>2. CASE UNCHANGED vars
  BY <1>2 DEF vars, TypeOver
<1>3. ASSUME NEW k \in Keys, NEW info \in Infos,
             ConsoleAdd(k, info) \/ ConsoleEdit(k, info)
      PROVE  TypeOver(P)'
  BY <1>3, ConsoleTypes
<1>4. ASSUME NEW d \in Devices,
             \/ ServerApply(d)
             \/ Deliver(d)
             \/ Reconnect(d)
             \/ Launch(d)
             \/ Kill(d)
             \/ HandleEvent(d)
             \/ \E i \in DOMAIN places[d] : Visit(d, i)
             \/ \E i \in DOMAIN places[d], stars \in RateChoices :
                  RateListed(d, i, stars)
             \/ \E stars \in RateChoices : RateOrphan(d, stars)
             \/ \E i \in DOMAIN places[d] : OpenDetail(d, i)
             \/ CloseDetail(d)
             \/ OpenMyPlaces(d)
             \/ FailUnwrap(d)
             \/ \E u \in Users : SignIn(d, u)
             \/ SignOut(d)
      PROVE  TypeOver(P)'
  <2>1. CASE ServerApply(d) BY <2>1, ServerApplyTypes
  <2>2. CASE Deliver(d) BY <2>2, DeliverTypes
  <2>3. CASE Reconnect(d) BY <2>3, ReconnectTypes
  <2>4. CASE Launch(d) BY <2>4, LaunchTypes
  <2>5. CASE Kill(d) BY <2>5, KillTypes
  <2>6. CASE HandleEvent(d) BY <2>6, HandleEventTypes
  <2>7. CASE \E i \in DOMAIN places[d] : Visit(d, i)
    BY <2>7, VisitTypes DEF Makes
  <2>8. CASE \E i \in DOMAIN places[d], stars \in RateChoices :
               RateListed(d, i, stars)
    BY <2>8, RateListedTypes DEF Makes
  <2>9. CASE \E stars \in RateChoices : RateOrphan(d, stars)
    BY <2>9, RateOrphanTypes DEF Makes
  <2>10. CASE OpenMyPlaces(d) BY <2>10, OpenMyPlacesTypes
  <2> QED
    BY <1>4, <2>1, <2>2, <2>3, <2>4, <2>5, <2>6, <2>7, <2>8, <2>9, <2>10,
       ScreenTypes
<1> QED
  BY <1>2, <1>3, <1>4 DEF Next

LEMMA ClosedStep ==
    ASSUME NEW R, Closed(R), TypeOver(Keys \X R), [Next]_vars
    PROVE  TypeOver(Keys \X R)'
BY ClosedMakes, StepTypes

LEMMA TypeOverIsTypeOK ==
    ASSUME NEW P, TypeOver(P)
    PROVE  TypeOK
<1>1. \A S : Of(S, P) \subseteq S
  BY DEF Of
<1>2. \A S, T : S \subseteq T => Seq(S) \subseteq Seq(T)
  BY LenProperties, ElementOfSeq, SeqDef
<1>3. \A S : Seq(Of(S, P)) \subseteq Seq(S)
  BY <1>1, <1>2
<1>4. Caches(P) \subseteq [Keys -> Record \cup {None}]
  BY DEF Caches
<1> QED
  BY <1>3, <1>4 DEF TypeOver, TypeOK

\* Type correctness: no interleaving of the devices' operations, lost
\* connections and killed apps builds anything but records, lists and queues
\* of them (Places.swift, Place.swift).
THEOREM TypeCorrect == Spec => []TypeOK
<1>1. Init => TypeOver(Keys \X Record)
  BY InitTypes
<1>2. TypeOver(Keys \X Record) /\ [Next]_vars => TypeOver(Keys \X Record)'
  BY ClosedStep, RecordClosed
<1>3. TypeOver(Keys \X Record) => TypeOK
  BY TypeOverIsTypeOK
<1> QED
  BY <1>1, <1>2, <1>3, PTL DEF Spec

\* Every copy of every place, on whichever device, in the database or under
\* way, is a good record.
THEOREM EveryCopyIsGood == Spec => []TypeOver(Keys \X GoodRecords)
<1>1. Init => TypeOver(Keys \X GoodRecords)
  BY InitTypes
<1>2. TypeOver(Keys \X GoodRecords) /\ [Next]_vars
        => TypeOver(Keys \X GoodRecords)'
  BY ClosedStep, GoodClosed
<1> QED
  BY <1>1, <1>2, PTL DEF Spec

LEMMA CopiesAreInR ==
    ASSUME NEW R, TypeOver(Keys \X R)
    PROVE  Copies \subseteq R
<1>1. \A k \in Existing(server) : server[k] \in R
  BY DEF Existing, TypeOver, Caches
<1>2. ASSUME NEW d \in Devices
      PROVE  /\ \A k \in Existing(view[d]) : view[d][k] \in R
             /\ \A i \in DOMAIN sending[d] : sending[d][i].rec \in R
             /\ \A i \in DOMAIN unacked[d] : unacked[d][i].rec \in R
             /\ \A i \in DOMAIN down[d] : down[d][i].rec \in R
             /\ \A i \in DOMAIN events[d] : events[d][i].rec \in R
             /\ \A i \in DOMAIN places[d] : places[d][i].rec \in R
             /\ orphan[d] \in R \cup {None}
  <2>1. \A S : \A q \in Seq(S) : \A i \in DOMAIN q : q[i] \in S
    BY LenProperties, ElementOfSeq
  <2>2. \A k \in Existing(view[d]) : view[d][k] \in R
    BY DEF Existing, TypeOver, Caches
  <2>3. \A i \in DOMAIN sending[d] : sending[d][i] \in Of(Write, Keys \X R)
    BY <2>1 DEF TypeOver
  <2>4. \A i \in DOMAIN unacked[d] : unacked[d][i] \in Of(Write, Keys \X R)
    BY <2>1 DEF TypeOver
  <2>5. \A i \in DOMAIN down[d] : down[d][i] \in Of(Update, Keys \X R)
    BY <2>1 DEF TypeOver
  <2>6. \A i \in DOMAIN events[d] : events[d][i] \in Of(Event, Keys \X R)
    BY <2>1 DEF TypeOver
  <2>7. \A i \in DOMAIN places[d] : places[d][i] \in Of(Entry, Keys \X R)
    BY <2>1 DEF TypeOver
  <2> QED
    BY <2>2, <2>3, <2>4, <2>5, <2>6, <2>7
       DEF TypeOver, Write, Update, Event, Entry, Of
<1> QED
  BY <1>1, <1>2 DEF Copies

LEMMA CopiesAreGood ==
    ASSUME TypeOver(Keys \X GoodRecords)
    PROVE  RatingMatchesRatings /\ VisitorsListedOnce /\ AnonymousRatingsStay
BY CopiesAreInR DEF GoodRecords, GoodRecord, RatingMatchesRatings,
                    VisitorsListedOnce, AnonymousRatingsStay

\* Place.rate (Place.swift:55-58) keeps the stored average that of the stored
\* ratings, also in records that overwrite one another.
THEOREM RatingsAgree == Spec => []RatingMatchesRatings
BY EveryCopyIsGood, CopiesAreGood, PTL

\* Places.visit (Places.swift:177-200) lists nobody twice.
THEOREM NobodyListedTwice == Spec => []VisitorsListedOnce
BY EveryCopyIsGood, CopiesAreGood, PTL

\* Places.rate (Places.swift:215-231) never takes a number for an anonymous
\* rating that is taken.
THEOREM AnonymousRatingsKept == Spec => []AnonymousRatingsStay
BY EveryCopyIsGood, CopiesAreGood, PTL

-----------------------------------------------------------------------------
(* The rows of the list.                                                   *)

SameKeys(old, new) ==
    /\ Len(new) = Len(old) /\ DOMAIN new = DOMAIN old
    /\ \A i \in DOMAIN old : new[i].key = old[i].key

OneMore(old, new) ==
    \E e \in Entry : ~ Listed(old, e.key) /\ new = Append(old, e)

LEMMA SameKeysHere ==
    ASSUME TypeOK, UNCHANGED places, NEW c \in Devices
    PROVE  SameKeys(places[c], places'[c])
BY DEF SameKeys

\* The object in a row changes.
LEMMA SameKeysAt ==
    ASSUME TypeOK, NEW d \in Devices, NEW i \in DOMAIN places[d], NEW rec,
           places' = [places EXCEPT ![d][i].rec = rec], NEW c \in Devices
    PROVE  SameKeys(places[c], places'[c])
<1> DEFINE list == places[d]
<1>1. /\ Len(list) \in Nat /\ DOMAIN list = 1 .. Len(list)
      /\ list \in [1 .. Len(list) -> Entry]
  BY LenProperties DEF TypeOK
<1> DEFINE new == [list EXCEPT ![i] = [list[i] EXCEPT !.rec = rec]]
<1>2. places'[d] = new
  BY DEF TypeOK
<1>3. DOMAIN new = 1 .. Len(list) /\ new \in [1 .. Len(list) -> Entry \cup {new[i]}]
  BY <1>1
<1>4. new \in Seq(Entry \cup {new[i]})
  BY <1>1, <1>3, SeqDef
<1>5. Len(new) = Len(list)
  BY <1>1, <1>3, <1>4, LenProperties
<1>6. \A j \in 1 .. Len(list) : new[j].key = list[j].key
  BY <1>1 DEF Entry
<1>7. c # d => places'[c] = places[c]
  BY DEF TypeOK
<1> QED
  BY <1>1, <1>2, <1>3, <1>5, <1>6, <1>7 DEF SameKeys

LEMMA SameKeysReplaced ==
    ASSUME NEW list \in Seq(Entry), NEW k \in Keys, NEW rec \in Record
    PROVE  SameKeys(list, Replaced(list, k, rec))
<1> DEFINE new == Replaced(list, k, rec)
<1>1. /\ Len(list) \in Nat /\ DOMAIN list = 1 .. Len(list)
      /\ list \in [1 .. Len(list) -> Entry]
  BY LenProperties
<1>2. DOMAIN new = 1 .. Len(list)
      /\ \A i \in 1 .. Len(list) : new[i].key = list[i].key /\ new[i] \in Entry
  BY <1>1 DEF Replaced, Entry
<1>3. new \in [1 .. Len(list) -> Entry]
  BY <1>1, <1>2 DEF Replaced
<1>4. Len(new) = Len(list)
  BY <1>1, <1>2, <1>3, SeqDef, LenProperties
<1> QED
  BY <1>1, <1>2, <1>4 DEF SameKeys

\* What any step does to the rows.
LEMMA RowsStep ==
    ASSUME TypeOK, [Next]_vars, NEW c \in Devices
    PROVE  \/ SameKeys(places[c], places'[c])
           \/ OneMore(places[c], places'[c])
           \/ places'[c] = << >> /\ status'[c] = "off"
<1>1. CASE UNCHANGED places
  BY <1>1, SameKeysHere
<1>2. ASSUME NEW d \in Devices, NEW i \in DOMAIN places[d], Visit(d, i)
      PROVE  SameKeys(places[c], places'[c])
  BY <1>2, SameKeysAt DEF Visit
<1>3. ASSUME NEW d \in Devices, NEW i \in DOMAIN places[d],
             NEW stars \in RateChoices, RateListed(d, i, stars)
      PROVE  SameKeys(places[c], places'[c])
  BY <1>3, SameKeysAt DEF RateListed
<1>4. ASSUME NEW d \in Devices, Kill(d)
      PROVE  \/ SameKeys(places[c], places'[c])
             \/ places'[c] = << >> /\ status'[c] = "off"
  BY <1>4 DEF Kill, TypeOK, SameKeys
<1>5. ASSUME NEW d \in Devices, HandleChildAdded(d) \/ HandleChildChanged(d)
      PROVE  \/ SameKeys(places[c], places'[c])
             \/ OneMore(places[c], places'[c])
  <2> DEFINE e == Head(events[d])
  <2>1. e.key \in Keys /\ e.rec \in Record /\ places[d] \in Seq(Entry)
    <3>1. events \in [Devices -> Seq(Event)] /\ events[d] # << >>
      BY <1>5 DEF TypeOK, HandleChildAdded, HandleChildChanged
    <3>2. e \in Event
      BY <3>1, HeadTailProperties
    <3> QED
      BY <3>2 DEF Event, TypeOK
  <2>2. CASE HandleChildAdded(d)
    <3>1. places' = [places EXCEPT ![d] = WithAdded(places[d], e.key, e.rec)]
      BY <2>2 DEF HandleChildAdded
    <3>2. [key |-> e.key, rec |-> e.rec] \in Entry
      BY <2>1 DEF Entry
    <3> HIDE DEF e
    <3> QED
      BY <3>1, <3>2 DEF WithAdded, OneMore, SameKeys, TypeOK
  <2>3. CASE HandleChildChanged(d)
    <3>1. places' = [places EXCEPT ![d] = Replaced(places[d], e.key, e.rec)]
      BY <2>3 DEF HandleChildChanged
    <3>2. SameKeys(places[d], Replaced(places[d], e.key, e.rec))
      BY <2>1, SameKeysReplaced
    <3>3. c # d => SameKeys(places[c], places'[c])
      BY <3>1 DEF SameKeys, TypeOK
    <3> QED
      BY <3>1, <3>2, <3>3 DEF TypeOK
  <2> QED
    BY <1>5, <2>2, <2>3
<1>6. ASSUME NEW k \in Keys, NEW info \in Infos,
             ConsoleAdd(k, info) \/ ConsoleEdit(k, info)
      PROVE  UNCHANGED places
  BY <1>6 DEF ConsoleAdd, ConsoleEdit, ConsoleWrites
<1>7. ASSUME NEW d \in Devices,
             \/ ServerApply(d) \/ Deliver(d) \/ Reconnect(d) \/ Launch(d)
             \/ FailCast(d)
             \/ \E stars \in RateChoices : RateOrphan(d, stars)
             \/ \E i \in DOMAIN places[d] : OpenDetail(d, i)
             \/ CloseDetail(d) \/ OpenMyPlaces(d) \/ FailUnwrap(d)
             \/ \E u \in Users : SignIn(d, u)
             \/ SignOut(d)
      PROVE  UNCHANGED places
  BY <1>7 DEF ServerApply, Deliver, Reconnect, Launch, FailCast, RateOrphan,
     OpenDetail, CloseDetail, OpenMyPlaces, FailUnwrap, Trap, SignIn, SignOut
<1>8. CASE UNCHANGED vars
  BY <1>1, <1>8 DEF vars
<1> QED
  BY <1>1, <1>2, <1>3, <1>4, <1>5, <1>6, <1>7, <1>8 DEF Next, HandleEvent

LEMMA ListedOnceStep ==
    ASSUME TypeOK, PlacesListedOnce, [Next]_vars
    PROVE  PlacesListedOnce'
<1> SUFFICES ASSUME NEW c \in Devices
           PROVE  \A i, j \in DOMAIN places'[c] :
                       places'[c][i].key = places'[c][j].key => i = j
  BY DEF PlacesListedOnce
<1>1. CASE SameKeys(places[c], places'[c])
  BY <1>1 DEF SameKeys, PlacesListedOnce
<1>2. CASE OneMore(places[c], places'[c])
  <2>1. PICK e \in Entry : /\ ~ Listed(places[c], e.key)
                           /\ places'[c] = Append(places[c], e)
    BY <1>2 DEF OneMore
  <2>2. places[c] \in Seq(Entry)
    BY DEF TypeOK
  <2>3. /\ Len(places[c]) \in Nat /\ DOMAIN places[c] = 1 .. Len(places[c])
        /\ DOMAIN Append(places[c], e) = 1 .. Len(places[c]) + 1
        /\ Append(places[c], e)[Len(places[c]) + 1] = e
        /\ \A i \in 1 .. Len(places[c]) :
              Append(places[c], e)[i] = places[c][i]
    BY <2>2, AppendProperties, LenProperties
  <2> QED
    BY <2>1, <2>3 DEF Listed, PlacesListedOnce
<1>3. CASE places'[c] = << >>
  BY <1>3
<1> QED
  BY <1>1, <1>2, <1>3, RowsStep

\* childAdded lists a place once, however many pairs of observers My Places
\* has registered (Places.swift:149-152, PlacesViewController.swift:72).
THEOREM ListedOnce == Spec => []PlacesListedOnce
<1>1. Init => PlacesListedOnce
  BY DEF Init, PlacesListedOnce
<1> QED
  BY <1>1, ListedOnceStep, TypeCorrect, PTL DEF Spec

\* A row once shown stays under its index while the app runs, so that the
\* index of a tapped row still names the place (PlacesViewController.swift:
\* 135-138).
THEOREM RowsKeepTheirPlaces == Spec => RowsStay
<1> DEFINE Stays == \A d \in Devices : Running(d) /\ status'[d] = "running" =>
              /\ Len(places[d]) <= Len(places'[d])
              /\ \A i \in DOMAIN places[d] :
                   places'[d][i].key = places[d][i].key
<1>1. TypeOK /\ [Next]_vars => [Stays]_vars
  <2> SUFFICES ASSUME TypeOK, [Next]_vars, NEW d \in Devices,
                      status'[d] = "running"
               PROVE  /\ Len(places[d]) <= Len(places'[d])
                      /\ \A i \in DOMAIN places[d] :
                           places'[d][i].key = places[d][i].key
    OBVIOUS
  <2>1. places[d] \in Seq(Entry) /\ Len(places[d]) \in Nat
        /\ DOMAIN places[d] = 1 .. Len(places[d])
    BY LenProperties DEF TypeOK
  <2>2. CASE SameKeys(places[d], places'[d])
    BY <2>1, <2>2 DEF SameKeys
  <2>3. CASE OneMore(places[d], places'[d])
    <3>1. PICK e \in Entry : places'[d] = Append(places[d], e)
      BY <2>3 DEF OneMore
    <3>2. /\ Len(Append(places[d], e)) = Len(places[d]) + 1
          /\ \A i \in 1 .. Len(places[d]) :
                Append(places[d], e)[i] = places[d][i]
      BY <2>1, AppendProperties
    <3> QED
      BY <2>1, <3>1, <3>2
  <2> QED
    BY <2>2, <2>3, RowsStep
<1> QED
  BY <1>1, TypeCorrect, PTL DEF Spec, RowsStay

-----------------------------------------------------------------------------
(* What the network and the main queue do by themselves comes to an end.   *)

\* What a tail leaves is shorter.
LEMMA TailShrinks ==
    ASSUME NEW S, NEW q \in [Devices -> Seq(S)], NEW d \in Devices, q[d] # << >>
    PROVE  /\ Shrinks(q, [q EXCEPT ![d] = Tail(@)])
           /\ [q EXCEPT ![d] = Tail(@)] # q
<1> DEFINE m == Len(q[d])
           n == Len(Tail(q[d]))
<1>1. q[d] \in Seq(S) /\ m \in Nat
  BY LenProperties
<1>2. n = m - 1
  BY <1>1, HeadTailProperties
<1> HIDE DEF m, n
<1>3. n < m /\ n # m
  BY <1>1, <1>2
<1>4. Tail(q[d]) # q[d]
  BY <1>3, Zenon DEF m, n
<1> DEFINE after == [q EXCEPT ![d] = Tail(@)]
<1>5. after[d] = Tail(q[d]) /\ \A c \in Devices : c # d => after[c] = q[c]
  OBVIOUS
<1> HIDE DEF after
<1>6. Shrinks(q, after)
  BY <1>3, <1>5, Zenon DEF Shrinks, m, n
<1>7. after # q
  BY <1>4, <1>5, Zenon
<1> QED
  BY <1>6, <1>7 DEF after

LEMMA NothingShrinks == ASSUME NEW q PROVE Shrinks(q, q)
  BY DEF Shrinks

\* An app that is off has registered no observers.
OffIsUnheard == \A d \in Devices : status[d] = "off" => observers[d] = 0

LEMMA OffIsUnheardStep ==
    ASSUME TypeOK, OffIsUnheard, [Next]_vars
    PROVE  OffIsUnheard'
<1>1. /\ observers \in [Devices -> Nat] /\ status \in [Devices -> Statuses]
  BY DEF TypeOK
<1>2. ASSUME NEW d \in Devices, Launch(d) PROVE OffIsUnheard'
  <2>1. /\ status' = [status EXCEPT ![d] = "running"]
        /\ observers' = [observers EXCEPT ![d] = 1]
    BY <1>2 DEF Launch
  <2> QED
    BY <1>1, <2>1 DEF OffIsUnheard
<1>3. ASSUME NEW d \in Devices, Kill(d) PROVE OffIsUnheard'
  <2>1. /\ status' = [status EXCEPT ![d] = "off"]
        /\ observers' = [observers EXCEPT ![d] = 0]
    BY <1>3 DEF Kill
  <2> QED
    BY <1>1, <2>1 DEF OffIsUnheard
<1>4. ASSUME NEW d \in Devices, OpenMyPlaces(d) PROVE OffIsUnheard'
  <2>1. /\ status[d] # "off" /\ UNCHANGED status
        /\ observers' = [observers EXCEPT ![d] = @ + 1]
    BY <1>4 DEF OpenMyPlaces, Running
  <2> QED
    BY <1>1, <2>1 DEF OffIsUnheard
<1>5. ASSUME NEW d \in Devices, FailCast(d) \/ FailUnwrap(d) PROVE OffIsUnheard'
  <2>1. UNCHANGED observers /\ (status' = [status EXCEPT ![d] = "castFailed"]
                                 \/ status' = [status EXCEPT ![d] = "nilUnwrapped"])
    BY <1>5 DEF FailCast, FailUnwrap, Trap
  <2> QED
    BY <1>1, <2>1 DEF OffIsUnheard
<1>6. CASE UNCHANGED <<status, observers>>
  BY <1>6 DEF OffIsUnheard
<1>7. ASSUME NEW k \in Keys, NEW info \in Infos,
             ConsoleAdd(k, info) \/ ConsoleEdit(k, info)
      PROVE  OffIsUnheard'
  BY <1>6, <1>7 DEF ConsoleAdd, ConsoleEdit, ConsoleWrites
<1>8. ASSUME NEW d \in Devices, ServerApply(d) \/ Deliver(d) \/ Reconnect(d)
      PROVE  OffIsUnheard'
  BY <1>6, <1>8 DEF ServerApply, Deliver, Reconnect
<1>9. ASSUME NEW d \in Devices, HandleChildAdded(d) \/ HandleChildChanged(d)
      PROVE  OffIsUnheard'
  BY <1>6, <1>9 DEF HandleChildAdded, HandleChildChanged
<1>10. ASSUME NEW d \in Devices, NEW i \in DOMAIN places[d],
              Visit(d, i) \/ OpenDetail(d, i)
       PROVE  OffIsUnheard'
  BY <1>6, <1>10 DEF Visit, OpenDetail
<1>11. ASSUME NEW d \in Devices, NEW i \in DOMAIN places[d],
              NEW stars \in RateChoices, RateListed(d, i, stars)
       PROVE  OffIsUnheard'
  BY <1>6, <1>11 DEF RateListed
<1>12. ASSUME NEW d \in Devices, NEW stars \in RateChoices, RateOrphan(d, stars)
       PROVE  OffIsUnheard'
  BY <1>6, <1>12 DEF RateOrphan
<1>13. ASSUME NEW d \in Devices,
              CloseDetail(d) \/ (\E u \in Users : SignIn(d, u)) \/ SignOut(d)
       PROVE  OffIsUnheard'
  BY <1>6, <1>13 DEF CloseDetail, SignIn, SignOut
<1>14. CASE UNCHANGED vars
  BY <1>6, <1>14 DEF vars
<1> QED
  BY <1>2, <1>3, <1>4, <1>5, <1>7, <1>8, <1>9, <1>10, <1>11, <1>12, <1>13, <1>14
  DEF Next, HandleEvent

\* The steps the network and the main queue take by themselves.
LEMMA WorkStep ==
    ASSUME TypeOK, OffIsUnheard, Next, UNCHANGED <<writes, edits, faults, observers>>
    PROVE  /\ Shrinks(sending, sending')
           /\ UNCHANGED sending => Shrinks(down, down')
           /\ UNCHANGED <<sending, down>> => Shrinks(events, events')
           /\ UNCHANGED <<sending, down, events>> =>
                 UNCHANGED <<server, view, unacked, places>>
<1>1. /\ writes \in Nat /\ edits \in Nat /\ faults \in Nat
      /\ observers \in [Devices -> Nat]
  BY DEF TypeOK
<1>2. CASE \E k \in Keys, info \in Infos : ConsoleAdd(k, info) \/ ConsoleEdit(k, info)
  BY <1>1, <1>2 DEF ConsoleAdd, ConsoleEdit, ConsoleWrites
<1>3. ASSUME NEW d \in Devices, ServerApply(d)
      PROVE  Shrinks(sending, sending') /\ sending' # sending
  <2>1. /\ sending \in [Devices -> Seq(Write)] /\ sending[d] # << >>
        /\ sending' = [sending EXCEPT ![d] = Tail(@)]
    BY <1>3 DEF ServerApply, TypeOK
  <2> QED
    BY <2>1, TailShrinks
<1>4. ASSUME NEW d \in Devices, Deliver(d)
      PROVE  /\ UNCHANGED sending /\ Shrinks(down, down') /\ down' # down
  <2>1. /\ down \in [Devices -> Seq(Update)] /\ down[d] # << >>
        /\ down' = [down EXCEPT ![d] = Tail(@)]
        /\ UNCHANGED sending
    BY <1>4 DEF Deliver, TypeOK
  <2> QED
    BY <2>1, TailShrinks
<1>5. ASSUME NEW d \in Devices, HandleChildAdded(d) \/ HandleChildChanged(d)
      PROVE  /\ UNCHANGED <<sending, down>> /\ Shrinks(events, events')
             /\ events' # events
  <2>1. /\ events \in [Devices -> Seq(Event)] /\ events[d] # << >>
        /\ events' = [events EXCEPT ![d] = Tail(@)]
        /\ UNCHANGED <<sending, down>>
    BY <1>5 DEF HandleChildAdded, HandleChildChanged, TypeOK, sdk
  <2> QED
    BY <2>1, TailShrinks
\* Somebody writes, an app starts or is killed, the connection is lost.
<1>6. ASSUME NEW d \in Devices PROVE ~ Reconnect(d) /\ ~ Kill(d)
  <2>1. faults' # faults + 1
    BY <1>1
  <2>2. Reconnect(d) => faults' = faults + 1
    BY DEF Reconnect
  <2>3. Kill(d) => faults' = faults + 1
    BY DEF Kill
  <2> QED
    BY <2>1, <2>2, <2>3
<1>7. ASSUME NEW d \in Devices, NEW i \in DOMAIN places[d], NEW stars \in RateChoices
      PROVE  ~ RateListed(d, i, stars)
  BY <1>1 DEF RateListed, UpdateChildValues
<1>8. ASSUME NEW d \in Devices, NEW i \in DOMAIN places[d] PROVE ~ Visit(d, i)
  BY <1>1 DEF Visit, UpdateChildValues
<1>9. ASSUME NEW d \in Devices, NEW stars \in RateChoices PROVE ~ RateOrphan(d, stars)
  BY <1>1 DEF RateOrphan, UpdateChildValues
<1>10. ASSUME NEW d \in Devices PROVE ~ OpenMyPlaces(d)
  <2> SUFFICES ASSUME OpenMyPlaces(d) PROVE FALSE
    OBVIOUS
  <2>1. observers' = [observers EXCEPT ![d] = @ + 1]
    BY DEF OpenMyPlaces
  <2>2. observers'[d] = observers[d] + 1 /\ observers[d] \in Nat
    BY <1>1, <2>1
  <2> QED
    BY <2>2
<1>11. ASSUME NEW d \in Devices PROVE ~ Launch(d)
  <2> SUFFICES ASSUME Launch(d) PROVE FALSE
    OBVIOUS
  <2>1. observers[d] = 0 /\ observers' = [observers EXCEPT ![d] = 1]
    BY DEF Launch, OffIsUnheard
  <2>2. observers'[d] = 1
    BY <1>1, <2>1
  <2> QED
    BY <2>1, <2>2
\* The rest is between the user and the screen.
<1>12. CASE \E d \in Devices :
              \/ \E i \in DOMAIN places[d] : OpenDetail(d, i)
              \/ CloseDetail(d)
              \/ FailCast(d)
              \/ FailUnwrap(d)
              \/ \E u \in Users : SignIn(d, u)
              \/ SignOut(d)
  <2>1. UNCHANGED <<server, sending, down, events, view, unacked, places>>
    BY <1>12 DEF OpenDetail, CloseDetail, FailCast, FailUnwrap, Trap, SignIn, SignOut, sdk
  <2> QED
    BY <2>1, NothingShrinks
<1> QED
  BY <1>2, <1>3, <1>4, <1>5, <1>6, <1>7, <1>8, <1>9, <1>10, <1>11, <1>12, NothingShrinks
  DEF Next, HandleEvent

\* Fair steps use up what users, administrators and faults have left to do:
\* no observer's block writes (Places.swift:136-172), so that devices never
\* answer one another's updates with updates.
THEOREM WorkIsUsedUp == Spec => WorkRunsOut
<1> DEFINE Calm == UNCHANGED <<writes, edits, faults, observers>> =>
              /\ Shrinks(sending, sending')
              /\ UNCHANGED sending => Shrinks(down, down')
              /\ UNCHANGED <<sending, down>> => Shrinks(events, events')
              /\ UNCHANGED <<sending, down, events>> =>
                    UNCHANGED <<server, view, unacked, places>>
<1>1. TypeOK /\ OffIsUnheard /\ [Next]_vars => [Calm]_vars
  BY WorkStep
<1>2. Init => OffIsUnheard
  BY DEF Init, OffIsUnheard
<1>3. TypeOK /\ OffIsUnheard /\ [Next]_vars => OffIsUnheard'
  BY OffIsUnheardStep
<1> HIDE DEF Calm
<1>4. Spec => [][Calm]_vars
  BY <1>1, <1>2, <1>3, TypeCorrect, PTL DEF Spec
<1> QED
  BY <1>4, PTL DEF WorkRunsOut, Calm


=============================================================================

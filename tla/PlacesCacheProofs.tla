------------------------- MODULE PlacesCacheProofs -------------------------
(***************************************************************************)
(* Theorems about PlacesSync: the list follows the SDK's cache, and the    *)
(* cache follows the database, for any number of devices, users, places,   *)
(* writes and faults.                                                      *)
(*                                                                         *)
(* Neither is inductive by what it says of empty queues.  ListFollowsCache *)
(* says what a list will show of a place once the calls in the main queue  *)
(* have been made: what the last call of childChanged brings, or, when     *)
(* there is none, what is listed, or, when nothing is, what every call of  *)
(* childAdded brings.  CacheFollowsServer says the same of the SDK's cache *)
(* and the updates on their way, where a write that has been applied but   *)
(* not acknowledged is answered by an update still to come.                *)
(***************************************************************************)
EXTENDS PlacesSyncProofs

For(q, k) == {i \in DOMAIN q : q[i].key = k}

\* No call is waiting for a place the SDK does not know, and no row shows it.
Unheard(q, list, k) == ~ Listed(list, k) /\ For(q, k) = {}

\* The first call for the place is one of childAdded.
AddedFirst(q, k) ==
    \E i \in For(q, k) : /\ q[i].type = "added"
                         /\ \A j \in For(q, k) : i <= j

\* The last call of childChanged for the place brings rec.
ChangesTo(q, k, rec) ==
    \E i \in For(q, k) : /\ q[i].type = "changed" /\ q[i].rec = rec
                         /\ \A j \in For(q, k) : j > i => q[j].type = "added"

\* No call of childChanged waits, and the list shows rec or will.
StaysAt(q, list, k, rec) ==
    /\ \A i \in For(q, k) : q[i].type = "added"
    /\ \A i \in For(list, k) : list[i].rec = rec
    /\ Listed(list, k) \/ \A i \in For(q, k) : q[i].rec = rec

Follows(q, list, k, rec) ==
    /\ Listed(list, k) \/ AddedFirst(q, k)
    /\ ChangesTo(q, k, rec) \/ StaysAt(q, list, k, rec)

FollowsCache(q, list, cache) ==
    \A k \in Keys : IF cache[k] = None
                    THEN Unheard(q, list, k)
                    ELSE Follows(q, list, k, cache[k])

\* An app that is off has nothing.
OffIsEmpty ==
    \A d \in Devices : status[d] = "off" =>
       /\ view[d] = [k \in Keys |-> None]
       /\ sending[d] = << >> /\ unacked[d] = << >>
       /\ events[d] = << >> /\ places[d] = << >>
       /\ detail[d] = None /\ orphan[d] = None

FollowsOn(d) ==
    /\ observers[d] # 0
    /\ detail[d] # None => Listed(places[d], detail[d])
    /\ FollowsCache(events[d], places[d], view[d])

ListFollowsCache == \A d \in Devices : Running(d) => FollowsOn(d)

\* The writes not acknowledged are those whose acknowledgements are on their
\* way, in this order.
Matches(f, waiting, coming) ==
    /\ f \in [DOMAIN waiting -> DOMAIN coming]
    /\ \A i, j \in DOMAIN waiting : i < j => f[i] < f[j]
    /\ \A i \in DOMAIN waiting : /\ coming[f[i]].ack
                                 /\ coming[f[i]].key = waiting[i].key
    /\ \A j \in DOMAIN coming : coming[j].ack =>
          \E i \in DOMAIN waiting : f[i] = j

AcksComing(d) == \E f : Matches(f, unacked[d], down[d])

\* The last update on its way brings rec.
BringsLast(q, k, rec) ==
    \A i \in For(q, k) : (\A j \in For(q, k) : j <= i) => q[i].rec = rec

\* Nothing about the place is under way.
Quiet(d, k) == /\ For(sending[d], k) = {} /\ For(unacked[d], k) = {}
               /\ For(down[d], k) = {}

KeyFollows(d, k) ==
    /\ view[d][k] # None \/ For(down[d], k) # {} => server[k] # None
    /\ BringsLast(down[d], k, server[k])
    /\ Quiet(d, k) => view[d][k] = server[k]

CacheFollowsServer ==
    \A d \in Devices : Running(d) =>
       AcksComing(d) /\ \A k \in Keys : KeyFollows(d, k)

-----------------------------------------------------------------------------
(* Queues and the entries for one key.                                     *)

LEMMA ForJoined ==
    ASSUME NEW S, NEW q \in Seq(S), NEW more \in Seq(S), NEW k
    PROVE  LET new == q \o more
           IN /\ For(new, k) = For(q, k) \cup {Len(q) + i : i \in For(more, k)}
              /\ \A i \in For(q, k) : i \in 1 .. Len(q) /\ new[i] = q[i]
              /\ \A i \in For(more, k) : /\ i \in 1 .. Len(more)
                                         /\ new[Len(q) + i] = more[i]
<1>1. /\ Len(q) \in Nat /\ DOMAIN q = 1 .. Len(q)
      /\ Len(more) \in Nat /\ DOMAIN more = 1 .. Len(more)
  BY LenProperties
<1> DEFINE new == q \o more
<1>2. /\ new \in Seq(S) /\ Len(new) = Len(q) + Len(more)
      /\ \A i \in 1 .. Len(q) + Len(more) :
            new[i] = IF i <= Len(q) THEN q[i] ELSE more[i - Len(q)]
  BY ConcatProperties
<1>3. DOMAIN new = 1 .. Len(q) + Len(more)
  BY <1>2, LenProperties
<1> HIDE DEF new
<1>4. \A i \in 1 .. Len(q) : new[i] = q[i] /\ i \in DOMAIN new
  BY <1>1, <1>2, <1>3
<1>5. \A i \in 1 .. Len(more) : new[Len(q) + i] = more[i]
                                /\ Len(q) + i \in DOMAIN new
  BY <1>1, <1>2, <1>3
<1>6. \A i \in DOMAIN new : i \in 1 .. Len(q)
                             \/ \E j \in 1 .. Len(more) : i = Len(q) + j
  <2> TAKE i \in DOMAIN new
  <2>1. i > Len(q) => i - Len(q) \in 1 .. Len(more) /\ i = Len(q) + (i - Len(q))
    BY <1>1, <1>3
  <2> QED
    BY <1>1, <1>3, <2>1
<1>7. For(new, k) \subseteq For(q, k) \cup {Len(q) + i : i \in For(more, k)}
  BY <1>1, <1>4, <1>5, <1>6 DEF For
<1>8. For(q, k) \cup {Len(q) + i : i \in For(more, k)} \subseteq For(new, k)
  BY <1>1, <1>4, <1>5 DEF For
<1> QED
  BY <1>1, <1>4, <1>5, <1>7, <1>8 DEF For, new

LEMMA ForAppended ==
    ASSUME NEW S, NEW q \in Seq(S), NEW e \in S, NEW k
    PROVE  LET new == Append(q, e)
           IN /\ For(new, k) = For(q, k) \cup
                    (IF e.key = k THEN {Len(q) + 1} ELSE {})
              /\ new[Len(q) + 1] = e
              /\ \A i \in For(q, k) : i \in 1 .. Len(q) /\ new[i] = q[i]
<1>1. Len(q) \in Nat /\ DOMAIN q = 1 .. Len(q)
  BY LenProperties
<1> DEFINE new == Append(q, e)
<1>2. /\ new \in Seq(S) /\ Len(new) = Len(q) + 1 /\ new[Len(q) + 1] = e
      /\ \A i \in 1 .. Len(q) : new[i] = q[i]
  BY AppendProperties
<1>3. DOMAIN new = 1 .. Len(q) + 1
  BY <1>2, LenProperties
<1> HIDE DEF new
<1> QED
  BY <1>1, <1>2, <1>3 DEF For, new

LEMMA ForTail ==
    ASSUME NEW S, NEW q \in Seq(S), q # << >>, NEW k
    PROVE  LET rest == Tail(q)
           IN /\ For(rest, k) = {i - 1 : i \in For(q, k) \ {1}}
              /\ \A i \in For(q, k) : i \in 1 .. Len(q)
              /\ \A i \in For(q, k) \ {1} : rest[i - 1] = q[i]
              /\ Head(q) = q[1] /\ 1 \in DOMAIN q
<1>1. /\ Len(q) \in Nat \ {0} /\ DOMAIN q = 1 .. Len(q) /\ Head(q) = q[1]
  BY LenProperties, EmptySeq
<1> DEFINE rest == Tail(q)
<1>2. /\ rest \in Seq(S) /\ Len(rest) = Len(q) - 1
      /\ \A i \in 1 .. Len(q) - 1 : rest[i] = q[i + 1]
  BY HeadTailProperties
<1>3. DOMAIN rest = 1 .. Len(q) - 1
  BY <1>2, LenProperties
<1> HIDE DEF rest
<1>4. \A i \in DOMAIN rest : i + 1 \in DOMAIN q \ {1} /\ rest[i] = q[i + 1]
                             /\ i = (i + 1) - 1
  BY <1>1, <1>2, <1>3
<1>5. \A i \in DOMAIN q \ {1} : i - 1 \in DOMAIN rest /\ rest[i - 1] = q[i]
  <2> TAKE i \in DOMAIN q \ {1}
  <2>1. i - 1 \in 1 .. Len(q) - 1 /\ (i - 1) + 1 = i
    BY <1>1
  <2> QED
    BY <1>2, <1>3, <2>1
<1>6. For(rest, k) = {i - 1 : i \in For(q, k) \ {1}}
  BY <1>4, <1>5 DEF For
<1> QED
  BY <1>1, <1>5, <1>6 DEF For, rest

-----------------------------------------------------------------------------
(* What the list will show of one place.                                   *)

LEMMA ListedFor == \A list, k : Listed(list, k) <=> For(list, k) # {}
BY DEF Listed, For

\* Further calls that bring nothing new.
LEMMA FollowsMore ==
    ASSUME NEW q \in Seq(Event), NEW more \in Seq(Event), NEW list, NEW k,
           NEW rec, Follows(q, list, k, rec),
           \A i \in For(more, k) : more[i].type = "added" /\ more[i].rec = rec
    PROVE  Follows(q \o more, list, k, rec)
<1> DEFINE new == q \o more
<1>1. Len(q) \in Nat /\ Len(more) \in Nat
  BY LenProperties
<1>2. /\ For(new, k) = For(q, k) \cup {Len(q) + i : i \in For(more, k)}
      /\ \A i \in For(q, k) : i \in 1 .. Len(q) /\ new[i] = q[i]
      /\ \A i \in For(more, k) : /\ i \in 1 .. Len(more)
                                 /\ new[Len(q) + i] = more[i]
  BY ForJoined
<1> HIDE DEF new
<1>3. \A i \in For(new, k) : \/ i \in For(q, k)
                             \/ /\ i > Len(q) /\ i \in Nat
                                /\ new[i].type = "added" /\ new[i].rec = rec
  BY <1>1, <1>2
<1>4. AddedFirst(q, k) => AddedFirst(new, k)
  BY <1>1, <1>2, <1>3 DEF AddedFirst
<1>5. ChangesTo(q, k, rec) => ChangesTo(new, k, rec)
  BY <1>1, <1>2, <1>3 DEF ChangesTo
<1>6. StaysAt(q, list, k, rec) => StaysAt(new, list, k, rec)
  BY <1>1, <1>2, <1>3 DEF StaysAt
<1> QED
  BY <1>4, <1>5, <1>6 DEF Follows, new

LEMMA UnheardMore ==
    ASSUME NEW q \in Seq(Event), NEW more \in Seq(Event), NEW list, NEW k,
           Unheard(q, list, k), For(more, k) = {}
    PROVE  Unheard(q \o more, list, k)
BY ForJoined DEF Unheard

\* The calls of childChanged for a write or an update.
LEMMA FollowsChange ==
    ASSUME NEW q \in Seq(Event), NEW n \in Nat \ {0}, NEW k \in Keys,
           NEW rec \in Record, NEW list,
           Listed(list, k) \/ AddedFirst(q, k)
    PROVE  Follows(q \o Calls(n, "changed", k, rec), list, k, rec)
<1> DEFINE more == Calls(n, "changed", k, rec)
           new == q \o more
<1>1. more \in Seq(Event)
  BY IsASeq DEF Calls, Event
<1>2. DOMAIN more = 1 .. n
      /\ \A i \in 1 .. n : more[i] = [type |-> "changed", key |-> k, rec |-> rec]
  BY DEF Calls
<1>3. For(more, k) = 1 .. n
  BY <1>2 DEF For
<1> HIDE DEF more
<1>4. Len(q) \in Nat
  BY LenProperties
<1>5. /\ For(new, k) = For(q, k) \cup {Len(q) + i : i \in For(more, k)}
      /\ \A i \in For(q, k) : i \in 1 .. Len(q) /\ new[i] = q[i]
      /\ \A i \in For(more, k) : new[Len(q) + i] = more[i]
  BY <1>1, ForJoined
<1> HIDE DEF new
<1>6. AddedFirst(q, k) => AddedFirst(new, k)
  BY <1>3, <1>4, <1>5 DEF AddedFirst
<1>7. ChangesTo(new, k, rec)
  <2>1. n \in For(more, k)
    BY <1>3
  <2>2. Len(q) + n \in For(new, k) /\ new[Len(q) + n] = more[n]
    BY <1>5, <2>1
  <2>3. \A j \in For(new, k) : j <= Len(q) + n
    BY <1>3, <1>4, <1>5
  <2>4. For(new, k) \subseteq Nat
    BY <1>3, <1>4, <1>5
  <2> QED
    BY <1>2, <1>4, <2>2, <2>3, <2>4 DEF ChangesTo
<1> QED
  BY <1>6, <1>7 DEF Follows, new, more

\* The calls of childAdded for a place that is new to the SDK.
LEMMA FollowsAddition ==
    ASSUME NEW q \in Seq(Event), NEW n \in Nat \ {0}, NEW k \in Keys,
           NEW rec \in Record, NEW list, Unheard(q, list, k)
    PROVE  Follows(q \o Calls(n, "added", k, rec), list, k, rec)
<1> DEFINE more == Calls(n, "added", k, rec)
           new == q \o more
<1>1. more \in Seq(Event)
  BY IsASeq DEF Calls, Event
<1>2. DOMAIN more = 1 .. n
      /\ \A i \in 1 .. n : more[i] = [type |-> "added", key |-> k, rec |-> rec]
  BY DEF Calls
<1>3. For(more, k) = 1 .. n
  BY <1>2 DEF For
<1> HIDE DEF more
<1>4. Len(q) \in Nat
  BY LenProperties
<1>5. /\ For(new, k) = {Len(q) + i : i \in 1 .. n}
      /\ \A i \in 1 .. n : new[Len(q) + i] = more[i]
  <2>1. /\ For(new, k) = For(q, k) \cup {Len(q) + i : i \in For(more, k)}
        /\ \A i \in For(more, k) : new[Len(q) + i] = more[i]
    BY <1>1, ForJoined
  <2>2. For(q, k) = {}
    BY DEF Unheard
  <2> HIDE DEF new
  <2>3. For(new, k) = {Len(q) + i : i \in For(more, k)}
    BY <2>1, <2>2
  <2> QED
    BY <1>3, <2>1, <2>3
<1> HIDE DEF new
<1>6. \A i \in For(new, k) : /\ new[i].type = "added" /\ new[i].rec = rec
                             /\ i \in Int /\ Len(q) + 1 <= i
  <2> TAKE i \in For(new, k)
  <2>1. PICK j \in 1 .. n : i = Len(q) + j
    BY <1>5
  <2>2. new[i] = more[j]
    BY <1>5, <2>1
  <2>3. more[j].type = "added" /\ more[j].rec = rec
    BY <1>2
  <2> QED
    BY <1>4, <2>1, <2>2, <2>3
<1>7. AddedFirst(new, k)
  <2>1. 1 \in 1 .. n
    OBVIOUS
  <2>2. Len(q) + 1 \in For(new, k)
    BY <1>5, <2>1
  <2> QED
    BY <1>6, <2>2 DEF AddedFirst
<1>8. StaysAt(new, list, k, rec)
  <2>1. For(list, k) = {}
    BY ListedFor DEF Unheard
  <2> QED
    BY <1>6, <2>1 DEF StaysAt
<1> QED
  BY <1>7, <1>8 DEF Follows, new, more

\* The head of the queue is a call for another place.
LEMMA FollowsOther ==
    ASSUME NEW q \in Seq(Event), q # << >>, NEW k, Head(q).key # k,
           NEW list, NEW new, NEW rec, Follows(q, list, k, rec),
           Listed(list, k) => Listed(new, k),
           \A i \in For(new, k) : \E j \in For(list, k) : new[i].rec = list[j].rec
    PROVE  Follows(Tail(q), new, k, rec)
<1> DEFINE rest == Tail(q)
<1>1. /\ For(rest, k) = {i - 1 : i \in For(q, k) \ {1}}
      /\ \A i \in For(q, k) : i \in 1 .. Len(q)
      /\ \A i \in For(q, k) \ {1} : rest[i - 1] = q[i]
      /\ Head(q) = q[1]
  BY ForTail
<1> HIDE DEF rest
<1>2. 1 \notin For(q, k) /\ Len(q) \in Nat
  BY <1>1, LenProperties DEF For
<1>3. /\ \A i \in For(q, k) : i \in Nat /\ i - 1 \in For(rest, k)
                              /\ rest[i - 1] = q[i]
      /\ \A i \in For(rest, k) : i \in Int /\ i + 1 \in For(q, k)
                                 /\ rest[i] = q[i + 1]
  BY <1>1, <1>2
<1>4. AddedFirst(q, k) => AddedFirst(rest, k)
  BY <1>3 DEF AddedFirst
<1>5. ChangesTo(q, k, rec) => ChangesTo(rest, k, rec)
  BY <1>3 DEF ChangesTo
<1>6. ASSUME StaysAt(q, list, k, rec) PROVE StaysAt(rest, new, k, rec)
  <2>1. \A i \in For(rest, k) : rest[i].type = "added"
    BY <1>3, <1>6 DEF StaysAt
  <2>2. \A i \in For(new, k) : new[i].rec = rec
    BY <1>6 DEF StaysAt
  <2>3. Listed(list, k) \/ \A i \in For(rest, k) : rest[i].rec = rec
    BY <1>3, <1>6 DEF StaysAt
  <2> QED
    BY <2>1, <2>2, <2>3 DEF StaysAt
<1>7. Listed(new, k) \/ AddedFirst(rest, k)
  BY <1>4 DEF Follows
<1>8. ChangesTo(rest, k, rec) \/ StaysAt(rest, new, k, rec)
  BY <1>5, <1>6 DEF Follows
<1>9. Follows(rest, new, k, rec)
  BY <1>7, <1>8 DEF Follows
<1> QED
  BY <1>9 DEF rest

LEMMA UnheardTail ==
    ASSUME NEW q \in Seq(Event), q # << >>, NEW k, NEW list, NEW new,
           Unheard(q, list, k), ~ Listed(new, k)
    PROVE  Unheard(Tail(q), new, k)
BY ForTail DEF Unheard

\* The observers' blocks and the rows of other places.
LEMMA OtherRows ==
    ASSUME NEW list \in Seq(Entry), NEW key \in Keys, NEW rec \in Record,
           NEW k \in Keys \ {key},
           NEW new \in {WithAdded(list, key, rec), Replaced(list, key, rec)}
    PROVE  /\ For(new, k) = For(list, k)
           /\ \A i \in For(list, k) : new[i] = list[i]
<1>1. [key |-> key, rec |-> rec] \in Entry
  BY DEF Entry
<1>2. CASE new = WithAdded(list, key, rec)
  <2>1. CASE Listed(list, key)
    BY <1>2, <2>1 DEF WithAdded
  <2>2. CASE ~ Listed(list, key)
    <3> DEFINE entry == [key |-> key, rec |-> rec]
    <3>1. new = Append(list, entry) /\ entry.key # k
      BY <1>2, <2>2 DEF WithAdded
    <3> HIDE DEF entry
    <3>2. /\ For(Append(list, entry), k) = For(list, k) \cup
               (IF entry.key = k THEN {Len(list) + 1} ELSE {})
          /\ \A i \in For(list, k) : Append(list, entry)[i] = list[i]
      BY <1>1, ForAppended DEF entry
    <3> QED
      BY <3>1, <3>2
  <2> QED
    BY <2>1, <2>2
<1>3. CASE new = Replaced(list, key, rec)
  <2>1. /\ DOMAIN new = DOMAIN list
        /\ \A i \in DOMAIN list : \/ new[i] = list[i]
                                  \/ /\ list[i].key = key
                                     /\ new[i] = [key |-> key, rec |-> rec]
    BY <1>3 DEF Replaced
  <2> QED
    BY <2>1 DEF For
<1> QED
  BY <1>2, <1>3

\* childAdded for the place itself.
LEMMA FollowsAdded ==
    ASSUME NEW q \in Seq(Event), q # << >>, Head(q).type = "added",
           NEW list \in Seq(Entry), NEW rec,
           Follows(q, list, Head(q).key, rec)
    PROVE  Follows(Tail(q), WithAdded(list, Head(q).key, Head(q).rec),
                   Head(q).key, rec)
<1> DEFINE e == Head(q)
           k == e.key
           rest == Tail(q)
           new == WithAdded(list, k, e.rec)
           entry == [key |-> k, rec |-> e.rec]
<1>1. /\ For(rest, k) = {i - 1 : i \in For(q, k) \ {1}}
      /\ \A i \in For(q, k) : i \in 1 .. Len(q)
      /\ \A i \in For(q, k) \ {1} : rest[i - 1] = q[i]
      /\ e = q[1] /\ 1 \in DOMAIN q
  BY ForTail
<1>2. e.key \in Keys /\ e.rec \in Record
  <2>1. Head(q) \in Event
    BY HeadTailProperties
  <2> QED
    BY <2>1 DEF Event
<1>3. entry \in Entry
  BY <1>2 DEF Entry
<1>4. 1 \in For(q, k) /\ q[1].type = "added" /\ q[1].rec = e.rec
  BY <1>1 DEF For
<1> HIDE DEF e, rest
<1>5. Follows(q, list, k, rec)
  BY DEF e
<1> HIDE DEF k
<1>6. \A i \in For(rest, k) : i \in Int /\ i + 1 \in For(q, k) \ {1}
                              /\ rest[i] = q[i + 1]
  <2> TAKE i \in For(rest, k)
  <2>1. PICK j \in For(q, k) \ {1} : i = j - 1
    BY <1>1
  <2> QED
    BY <1>1, <2>1
<1>7. Listed(new, k)
  <2>1. CASE Listed(list, k)
    BY <2>1 DEF WithAdded
  <2>2. CASE ~ Listed(list, k)
    <3>1. new = Append(list, entry) /\ entry.key = k
      BY <2>2 DEF WithAdded
    <3> HIDE DEF entry, new
    <3>2. For(Append(list, entry), k) = For(list, k) \cup
            (IF entry.key = k THEN {Len(list) + 1} ELSE {})
      BY <1>3, ForAppended
    <3>3. For(new, k) # {}
      BY <3>1, <3>2
    <3> QED
      BY <3>3, ListedFor
  <2> QED
    BY <2>1, <2>2
<1>8. CASE ChangesTo(q, k, rec)
  <2>1. PICK i \in For(q, k) : /\ q[i].type = "changed" /\ q[i].rec = rec
                               /\ \A j \in For(q, k) : j > i => q[j].type = "added"
    BY <1>8 DEF ChangesTo
  <2>2. i # 1 /\ i \in Int
    BY <1>1, <1>4, <2>1
  <2>3. i - 1 \in For(rest, k) /\ rest[i - 1] = q[i]
    BY <1>1, <2>1, <2>2
  <2>4. \A j \in For(rest, k) : j > i - 1 => rest[j].type = "added"
    BY <1>6, <2>1, <2>2
  <2>5. ChangesTo(rest, k, rec)
    BY <2>1, <2>3, <2>4 DEF ChangesTo
  <2> QED
    BY <1>7, <2>5 DEF Follows, e, k, rest
<1>9. CASE StaysAt(q, list, k, rec)
  <2>1. \A i \in For(rest, k) : rest[i].type = "added"
    BY <1>6, <1>9 DEF StaysAt
  <2>2. \A i \in For(new, k) : new[i].rec = rec
    <3>1. CASE Listed(list, k)
      BY <1>9, <3>1 DEF StaysAt, WithAdded
    <3>2. CASE ~ Listed(list, k)
      <4>1. new = Append(list, entry) /\ e.rec = rec /\ For(list, k) = {}
        BY <1>4, <1>9, <3>2, ListedFor DEF WithAdded, StaysAt
      <4>2. For(new, k) \subseteq {Len(list) + 1} /\ new[Len(list) + 1] = entry
        BY <1>3, <4>1, ForAppended
      <4> QED
        BY <4>1, <4>2
    <3> QED
      BY <3>1, <3>2
  <2> QED
    BY <1>7, <2>1, <2>2 DEF StaysAt, Follows, e, k, rest
<1> QED
  BY <1>5, <1>8, <1>9 DEF Follows

\* childChanged for the place itself: it is listed.
LEMMA FollowsChanged ==
    ASSUME NEW q \in Seq(Event), q # << >>, Head(q).type = "changed",
           NEW list \in Seq(Entry),
           \A i, j \in DOMAIN list : list[i].key = list[j].key => i = j,
           NEW rec, Follows(q, list, Head(q).key, rec)
    PROVE  /\ Listed(list, Head(q).key)
           /\ Follows(Tail(q), Replaced(list, Head(q).key, Head(q).rec),
                      Head(q).key, rec)
<1> DEFINE e == Head(q)
           k == e.key
           rest == Tail(q)
           new == Replaced(list, k, e.rec)
<1>1. /\ For(rest, k) = {i - 1 : i \in For(q, k) \ {1}}
      /\ \A i \in For(q, k) : i \in 1 .. Len(q)
      /\ \A i \in For(q, k) \ {1} : rest[i - 1] = q[i]
      /\ e = q[1] /\ 1 \in DOMAIN q
  BY ForTail
<1>2. e.key \in Keys /\ e.rec \in Record
  <2>1. Head(q) \in Event
    BY HeadTailProperties
  <2> QED
    BY <2>1 DEF Event
<1>3. 1 \in For(q, k) /\ q[1].type = "changed" /\ q[1].rec = e.rec
  BY <1>1 DEF For
<1> HIDE DEF e, rest
<1>4. Follows(q, list, k, rec)
  BY DEF e
<1> HIDE DEF k
<1>5. \A i \in For(rest, k) : i \in Int /\ i + 1 \in For(q, k) \ {1}
                              /\ rest[i] = q[i + 1]
  <2> TAKE i \in For(rest, k)
  <2>1. PICK j \in For(q, k) \ {1} : i = j - 1
    BY <1>1
  <2> QED
    BY <1>1, <2>1
<1>6. ~ AddedFirst(q, k)
  BY <1>1, <1>3 DEF AddedFirst
<1>7. Listed(list, k) /\ ChangesTo(q, k, rec)
  BY <1>3, <1>4, <1>6 DEF Follows, StaysAt
<1>8. /\ Listed(new, k)
      /\ \A i \in For(new, k) : new[i].rec = e.rec
  <2>1. Len(list) \in Nat /\ DOMAIN list = 1 .. Len(list)
    BY LenProperties
  <2>2. \A i, j \in DOMAIN list : list[i].key = k /\ j \in 1 .. i - 1
                                    => list[j].key # k
    BY <2>1
  <2>3. \A i \in DOMAIN list : list[i].key = k
           => new[i] = [key |-> k, rec |-> e.rec]
    BY <2>1, <2>2 DEF Replaced
  <2>4. \A i \in DOMAIN list : list[i].key # k => new[i] = list[i]
    BY DEF Replaced
  <2>5. DOMAIN new = DOMAIN list
    BY DEF Replaced
  <2> HIDE DEF new
  <2> QED
    BY <1>7, <2>3, <2>4, <2>5 DEF Listed, For
<1>9. PICK i \in For(q, k) : /\ q[i].type = "changed" /\ q[i].rec = rec
                             /\ \A j \in For(q, k) : j > i => q[j].type = "added"
  BY <1>7 DEF ChangesTo
<1>10. CASE i = 1
  <2>1. \A j \in For(rest, k) : rest[j].type = "added"
    BY <1>1, <1>5, <1>9, <1>10
  <2>2. StaysAt(rest, new, k, rec)
    BY <1>3, <1>8, <1>9, <1>10, <2>1 DEF StaysAt
  <2> QED
    BY <1>7, <1>8, <2>2 DEF Follows, e, k, rest
<1>11. CASE i # 1
  <2>1. i \in Int /\ i - 1 \in For(rest, k) /\ rest[i - 1] = q[i]
    BY <1>1, <1>9, <1>11
  <2>2. \A j \in For(rest, k) : j > i - 1 => rest[j].type = "added"
    BY <1>5, <1>9, <2>1
  <2>3. ChangesTo(rest, k, rec)
    BY <1>9, <2>1, <2>2 DEF ChangesTo
  <2> QED
    BY <1>7, <1>8, <2>3 DEF Follows, e, k, rest
<1> QED
  BY <1>10, <1>11

-----------------------------------------------------------------------------
(* The SDK's cache gets a record, and the rows of its place may get it too. *)

SameRows(list, new, k) == /\ For(new, k) = For(list, k)
                          /\ \A i \in For(list, k) : new[i].rec = list[i].rec

RowsBecome(list, new, k, rec) ==
    /\ \A key \in Keys \ {k} : SameRows(list, new, key)
    /\ For(new, k) = For(list, k)
    /\ SameRows(list, new, k) \/ \A i \in For(new, k) : new[i].rec = rec

LEMMA FollowsSameRows ==
    ASSUME NEW q, NEW list, NEW new, NEW k, NEW rec, SameRows(list, new, k)
    PROVE  /\ Follows(q, list, k, rec) => Follows(q, new, k, rec)
           /\ Unheard(q, list, k) => Unheard(q, new, k)
BY ListedFor DEF SameRows, Follows, Unheard, StaysAt

LEMMA CallsFor ==
    ASSUME NEW n \in Nat, NEW type \in {"added", "changed"}, NEW k \in Keys,
           NEW rec \in Record
    PROVE  /\ Calls(n, type, k, rec) \in Seq(Event)
           /\ \A key : key # k => For(Calls(n, type, k, rec), key) = {}
BY IsASeq DEF Calls, Event, For

LEMMA CacheBecomesFollows ==
    ASSUME TypeOK, NEW d \in Devices, NEW k \in Keys, NEW rec \in Record,
           CacheBecomes(d, k, rec), observers[d] # 0,
           RowsBecome(places[d], places'[d], k, rec),
           FollowsCache(events[d], places[d], view[d])
    PROVE  FollowsCache(events'[d], places'[d], view'[d])
<1> DEFINE type == IF view[d][k] = None THEN "added" ELSE "changed"
           calls == Calls(observers[d], type, k, rec)
           list == places[d]
           new == places'[d]
           q == events[d]
<1>1. /\ view'[d] = [view[d] EXCEPT ![k] = rec]
      /\ view[d] \in [Keys -> Record \cup {None}]
      /\ rec # None
  BY NoneIsNoRecord DEF CacheBecomes, TypeOK
<1>2. events'[d] = IF view[d][k] = rec THEN q ELSE q \o calls
  BY DEF CacheBecomes, TypeOK
<1>3. q \in Seq(Event) /\ observers[d] \in Nat \ {0}
  BY DEF TypeOK
<1>4. calls \in Seq(Event) /\ \A key : key # k => For(calls, key) = {}
  BY <1>3, CallsFor
<1> HIDE DEF calls, q
<1>5. ASSUME NEW key \in Keys \ {k}
      PROVE  IF view'[d][key] = None
             THEN Unheard(events'[d], new, key)
             ELSE Follows(events'[d], new, key, view'[d][key])
  <2>1. view'[d][key] = view[d][key] /\ For(calls, key) = {}
    BY <1>1, <1>4
  <2>2. SameRows(list, new, key)
    BY DEF RowsBecome
  <2>3. CASE view[d][key] = None
    <3>1. Unheard(q, list, key)
      BY <2>3 DEF FollowsCache, q
    <3>2. Unheard(events'[d], list, key)
      BY <1>2, <1>3, <1>4, <2>1, <3>1, UnheardMore
    <3> QED
      BY <2>1, <2>2, <2>3, <3>2, FollowsSameRows
  <2>4. CASE view[d][key] # None
    <3>1. Follows(q, list, key, view[d][key])
      BY <2>4 DEF FollowsCache, q
    <3>2. Follows(events'[d], list, key, view[d][key])
      BY <1>2, <1>3, <1>4, <2>1, <3>1, FollowsMore
    <3> QED
      BY <2>1, <2>2, <2>4, <3>2, FollowsSameRows
  <2> QED
    BY <2>3, <2>4
<1>6. Follows(events'[d], new, k, rec)
  <2>1. Listed(new, k) <=> Listed(list, k)
    BY ListedFor DEF RowsBecome
  <2>2. CASE view[d][k] = rec
    <3>1. Follows(q, list, k, rec) /\ events'[d] = q
      BY <1>1, <1>2, <2>2 DEF FollowsCache, q
    <3>2. CASE SameRows(list, new, k)
      BY <3>1, <3>2, FollowsSameRows
    <3>3. CASE \A i \in For(new, k) : new[i].rec = rec
      BY <2>1, <3>1, <3>3 DEF Follows, StaysAt
    <3> QED
      BY <3>2, <3>3 DEF RowsBecome
  <2>3. CASE view[d][k] = None
    <3>1. Unheard(q, list, k)
      BY <2>3 DEF FollowsCache, q
    <3>2. Unheard(q, new, k)
      BY <2>1, <3>1 DEF Unheard
    <3>3. Follows(q \o Calls(observers[d], "added", k, rec), new, k, rec)
      BY <1>3, <3>2, FollowsAddition
    <3> QED
      BY <1>1, <1>2, <2>3, <3>3 DEF calls
  <2>4. CASE view[d][k] # None /\ view[d][k] # rec
    <3>1. Follows(q, list, k, view[d][k])
      BY <2>4 DEF FollowsCache, q
    <3>2. Listed(new, k) \/ AddedFirst(q, k)
      BY <2>1, <3>1 DEF Follows
    <3>3. Follows(q \o Calls(observers[d], "changed", k, rec), new, k, rec)
      BY <1>3, <3>2, FollowsChange
    <3> QED
      BY <1>2, <2>4, <3>3 DEF calls
  <2> QED
    BY <2>2, <2>3, <2>4
<1> QED
  BY <1>1, <1>5, <1>6 DEF FollowsCache

\* A row of the list gets the record.
LEMMA RowBecomes ==
    ASSUME TypeOK, PlacesListedOnce, NEW d \in Devices,
           NEW i \in DOMAIN places[d], NEW rec,
           places' = [places EXCEPT ![d][i].rec = rec]
    PROVE  RowsBecome(places[d], places'[d], places[d][i].key, rec)
<1> DEFINE list == places[d]
<1>1. places'[d] = [list EXCEPT ![i] = [list[i] EXCEPT !.rec = rec]]
  BY DEF TypeOK
<1>2. Len(list) \in Nat /\ list \in [1 .. Len(list) -> Entry]
  BY LenProperties DEF TypeOK
<1>3. list[i] \in [key : Keys, rec : Record]
  BY <1>2 DEF Entry
<1>4. /\ DOMAIN places'[d] = DOMAIN list
      /\ places'[d][i].key = list[i].key /\ places'[d][i].rec = rec
      /\ \A j \in DOMAIN list \ {i} : places'[d][j] = list[j]
  BY <1>1, <1>2, <1>3
<1>5. \A j \in DOMAIN list : list[j].key = list[i].key => j = i
  BY DEF PlacesListedOnce
<1> QED
  BY <1>4, <1>5 DEF RowsBecome, SameRows, For

-----------------------------------------------------------------------------
(* The steps.                                                              *)

\* A step concerns no other device.
OnlyAt(d) ==
    /\ Running(d) /\ UNCHANGED status
    /\ \A c \in Devices \ {d} :
          /\ view'[c] = view[c] /\ sending'[c] = sending[c]
          /\ unacked'[c] = unacked[c] /\ events'[c] = events[c]
          /\ places'[c] = places[c] /\ detail'[c] = detail[c]
          /\ orphan'[c] = orphan[c]

\* What concerns one device, whether the SDK, the main queue or the user does
\* it.
LEMMA SDKStepOnlyAt ==
    ASSUME TypeOK, NEW d \in Devices,
           ServerApply(d) \/ Deliver(d) \/ Reconnect(d)
    PROVE  OnlyAt(d)
<1> USE DEF OnlyAt, TypeOK
<1>1. CASE ServerApply(d)
  BY <1>1 DEF ServerApply, Broadcast
<1>2. CASE Deliver(d)
  BY <1>2 DEF Deliver, CacheBecomes
<1>3. CASE Reconnect(d)
  BY <1>3 DEF Reconnect
<1> QED
  BY <1>1, <1>2, <1>3

LEMMA EventStepOnlyAt ==
    ASSUME TypeOK, NEW d \in Devices,
           HandleChildAdded(d) \/ HandleChildChanged(d)
    PROVE  OnlyAt(d)
<1> USE DEF OnlyAt, TypeOK, sdk
<1>1. CASE HandleChildAdded(d)
  BY <1>1 DEF HandleChildAdded
<1>2. CASE HandleChildChanged(d)
  BY <1>2 DEF HandleChildChanged
<1> QED
  BY <1>1, <1>2

LEMMA WriteStepOnlyAt ==
    ASSUME TypeOK, NEW d \in Devices,
           \/ \E i \in DOMAIN places[d] : Visit(d, i)
           \/ \E i \in DOMAIN places[d], stars \in RateChoices :
                 RateListed(d, i, stars)
           \/ \E stars \in RateChoices : RateOrphan(d, stars)
    PROVE  OnlyAt(d)
<1> DEFINE Queued == \A c \in Devices \ {d} :
              /\ view'[c] = view[c] /\ sending'[c] = sending[c]
              /\ events'[c] = events[c]
<1>1. ASSUME NEW k, NEW rec, UpdateChildValues(d, k, rec)
      PROVE  Queued
  BY <1>1 DEF UpdateChildValues, CacheBecomes, TypeOK
<1>2. Running(d) /\ UNCHANGED <<status, unacked, detail>> /\ Queued
  BY <1>1 DEF Visit, RateListed, RateOrphan
<1>3. \A c \in Devices \ {d} : places'[c] = places[c] /\ orphan'[c] = orphan[c]
  BY DEF Visit, RateListed, RateOrphan, TypeOK
<1> QED
  BY <1>2, <1>3 DEF OnlyAt

LEMMA ScreenStepOnlyAt ==
    ASSUME TypeOK, NEW d \in Devices,
           \/ \E i \in DOMAIN places[d] : OpenDetail(d, i)
           \/ CloseDetail(d) \/ OpenMyPlaces(d)
           \/ \E u \in Users : SignIn(d, u)
           \/ SignOut(d)
    PROVE  OnlyAt(d)
<1> USE DEF OnlyAt, TypeOK, sdk
<1>1. ASSUME NEW i \in DOMAIN places[d], OpenDetail(d, i)
      PROVE  OnlyAt(d)
  BY <1>1 DEF OpenDetail
<1>2. CASE CloseDetail(d)
  BY <1>2 DEF CloseDetail
<1>3. CASE OpenMyPlaces(d)
  BY <1>3 DEF OpenMyPlaces
<1>4. ASSUME NEW u \in Users, SignIn(d, u)
      PROVE  OnlyAt(d)
  BY <1>4 DEF SignIn
<1>5. CASE SignOut(d)
  BY <1>5 DEF SignOut
<1> QED
  BY <1>1, <1>2, <1>3, <1>4, <1>5

LEMMA OffIsEmptyStep ==
    ASSUME TypeOK, OffIsEmpty, [Next]_vars
    PROVE  OffIsEmpty'
<1>1. ASSUME NEW k \in Keys, NEW info \in Infos,
             ConsoleAdd(k, info) \/ ConsoleEdit(k, info)
      PROVE  OffIsEmpty'
  BY <1>1 DEF OffIsEmpty, ConsoleAdd, ConsoleEdit, ConsoleWrites
<1>2. ASSUME NEW d \in Devices, NEW reason \in Statuses \ {"off"},
             Trap(d, reason), Running(d)
      PROVE  OffIsEmpty'
  BY <1>2 DEF OffIsEmpty, Trap, Running, TypeOK
<1>3. ASSUME NEW d \in Devices, Launch(d)
      PROVE  OffIsEmpty'
  BY <1>3 DEF OffIsEmpty, Launch, TypeOK
<1>4. ASSUME NEW d \in Devices, Kill(d)
      PROVE  OffIsEmpty'
  BY <1>4 DEF OffIsEmpty, Kill, TypeOK
<1>5. ASSUME NEW d \in Devices, OnlyAt(d)
      PROVE  OffIsEmpty'
  BY <1>5 DEF OnlyAt, OffIsEmpty, Running
<1>6. ASSUME NEW d \in Devices,
             \/ ServerApply(d) \/ Deliver(d) \/ Reconnect(d)
             \/ HandleChildAdded(d) \/ HandleChildChanged(d)
             \/ \E i \in DOMAIN places[d] : Visit(d, i)
             \/ \E i \in DOMAIN places[d], stars \in RateChoices :
                   RateListed(d, i, stars)
             \/ \E stars \in RateChoices : RateOrphan(d, stars)
             \/ \E i \in DOMAIN places[d] : OpenDetail(d, i)
             \/ CloseDetail(d) \/ OpenMyPlaces(d)
             \/ \E u \in Users : SignIn(d, u)
             \/ SignOut(d)
      PROVE  OnlyAt(d)
  BY <1>6, SDKStepOnlyAt, EventStepOnlyAt, WriteStepOnlyAt, ScreenStepOnlyAt
<1>7. CASE UNCHANGED vars
  BY <1>7 DEF OffIsEmpty, vars
<1>8. ASSUME NEW d \in Devices, FailCast(d) \/ FailUnwrap(d)
      PROVE  OffIsEmpty'
  BY <1>2, <1>8 DEF FailCast, FailUnwrap, Statuses
<1> QED
  BY <1>1, <1>3, <1>4, <1>5, <1>6, <1>7, <1>8 DEF Next, HandleEvent

\* Devices that a step does not concern, and steps that do not concern the
\* list.
LEMMA FollowsElsewhere ==
    ASSUME ListFollowsCache, NEW c \in Devices,
           observers'[c] = observers[c], detail'[c] = detail[c],
           places'[c] = places[c], events'[c] = events[c], view'[c] = view[c],
           status'[c] = "running" => Running(c)
    PROVE  Running(c)' => FollowsOn(c)'
BY DEF ListFollowsCache, FollowsOn, FollowsCache, Running

\* A step of one device.
LEMMA FollowsOnlyHere ==
    ASSUME TypeOK, ListFollowsCache, NEW d \in Devices, UNCHANGED status,
           \A c \in Devices \ {d} :
              /\ observers'[c] = observers[c] /\ detail'[c] = detail[c]
              /\ places'[c] = places[c] /\ events'[c] = events[c]
              /\ view'[c] = view[c],
           FollowsOn(d)'
    PROVE  ListFollowsCache'
<1> SUFFICES ASSUME NEW c \in Devices PROVE Running(c)' => FollowsOn(c)'
  BY DEF ListFollowsCache
<1>1. CASE c = d
  BY <1>1
<1>2. CASE c # d
  BY <1>2, FollowsElsewhere DEF Running
<1> QED
  BY <1>1, <1>2

\* What Visit, RateListed, RateOrphan and Deliver do, as far as the list is
\* concerned.
LEMMA BecomesFollows ==
    ASSUME TypeOK, ListFollowsCache, NEW d \in Devices, Running(d),
           NEW k \in Keys, NEW rec \in Record, CacheBecomes(d, k, rec),
           RowsBecome(places[d], places'[d], k, rec),
           \A c \in Devices \ {d} : places'[c] = places[c],
           UNCHANGED <<observers, detail, status>>
    PROVE  ListFollowsCache'
<1>1. /\ observers[d] # 0
      /\ FollowsCache(events[d], places[d], view[d])
      /\ detail[d] # None => Listed(places[d], detail[d])
  BY DEF ListFollowsCache, FollowsOn
<1>2. FollowsCache(events'[d], places'[d], view'[d])
  BY <1>1, CacheBecomesFollows
<1>3. \A key \in Keys : Listed(places[d], key) => Listed(places'[d], key)
  BY ListedFor DEF RowsBecome, SameRows
<1>4. FollowsOn(d)'
  <2>1. observers'[d] # 0 /\ (detail'[d] # None => Listed(places'[d], detail'[d]))
    BY <1>1, <1>3 DEF TypeOK
  <2> QED
    BY <1>2, <2>1 DEF FollowsOn
<1>5. \A c \in Devices \ {d} : view'[c] = view[c] /\ events'[c] = events[c]
  BY DEF CacheBecomes, TypeOK
<1> QED
  BY <1>4, <1>5, FollowsOnlyHere

LEMMA RowIsEntry ==
    ASSUME TypeOK, NEW d \in Devices, NEW i \in DOMAIN places[d]
    PROVE  places[d][i] \in Entry
<1>1. places[d] \in Seq(Entry)
  BY DEF TypeOK
<1> QED
  BY <1>1, LenProperties, ElementOfSeq

LEMMA VisitFollows ==
    ASSUME TypeOK, PlacesListedOnce, ListFollowsCache, NEW d \in Devices,
           NEW i \in DOMAIN places[d], Visit(d, i)
    PROVE  ListFollowsCache'
<1> DEFINE p == places[d][i]
           rec == Visited(p.rec, VisitorName(p.rec, auth[d], None))
<1>1. p.key \in Keys /\ p.rec \in Record
  BY RowIsEntry DEF Entry
<1>2. rec \in Record
  BY <1>1, NamesAreNames, VisitedIsRecord DEF TypeOK
<1>3. /\ Running(d) /\ CacheBecomes(d, p.key, rec)
      /\ places' = [places EXCEPT ![d][i].rec = rec]
      /\ UNCHANGED <<observers, detail, status>>
  BY DEF Visit, UpdateChildValues
<1> HIDE DEF rec
<1>4. RowsBecome(places[d], places'[d], p.key, rec)
  BY <1>3, RowBecomes
<1>5. \A c \in Devices \ {d} : places'[c] = places[c]
  BY <1>3 DEF TypeOK
<1> QED
  BY <1>1, <1>2, <1>3, <1>4, <1>5, BecomesFollows

LEMMA RateListedFollows ==
    ASSUME TypeOK, PlacesListedOnce, ListFollowsCache, NEW d \in Devices,
           NEW i \in DOMAIN places[d], NEW stars \in RateChoices,
           RateListed(d, i, stars)
    PROVE  ListFollowsCache'
<1> DEFINE p == places[d][i]
           rec == Rated(p.rec, RaterName(p.rec, auth[d], None), stars)
<1>1. p.key \in Keys /\ p.rec \in Record
  BY RowIsEntry DEF Entry
<1>2. rec \in Record
  BY <1>1, NamesAreNames, RatedIsRecord, ChoicesAssumption DEF TypeOK
<1>3. /\ Running(d) /\ CacheBecomes(d, p.key, rec)
      /\ places' = [places EXCEPT ![d][i].rec = rec]
      /\ UNCHANGED <<observers, detail, status>>
  BY DEF RateListed, UpdateChildValues
<1> HIDE DEF rec
<1>4. RowsBecome(places[d], places'[d], p.key, rec)
  BY <1>3, RowBecomes
<1>5. \A c \in Devices \ {d} : places'[c] = places[c]
  BY <1>3 DEF TypeOK
<1> QED
  BY <1>1, <1>2, <1>3, <1>4, <1>5, BecomesFollows

LEMMA RateOrphanFollows ==
    ASSUME TypeOK, ListFollowsCache, NEW d \in Devices,
           NEW stars \in RateChoices, RateOrphan(d, stars)
    PROVE  ListFollowsCache'
<1> DEFINE rec == Rated(orphan[d], RaterName(orphan[d], auth[d], None), stars)
<1>1. detail[d] \in Keys /\ orphan[d] \in Record
  BY DEF TypeOK, RateOrphan
<1>2. rec \in Record
  BY <1>1, NamesAreNames, RatedIsRecord, ChoicesAssumption DEF TypeOK
<1>3. /\ Running(d) /\ CacheBecomes(d, detail[d], rec)
      /\ UNCHANGED <<places, observers, detail, status>>
  BY DEF RateOrphan, UpdateChildValues
<1> HIDE DEF rec
<1>4. RowsBecome(places[d], places'[d], detail[d], rec)
  BY <1>3 DEF RowsBecome, SameRows
<1> QED
  BY <1>1, <1>2, <1>3, <1>4, BecomesFollows

LEMMA DeliverFollows ==
    ASSUME TypeOK, ListFollowsCache, NEW d \in Devices, Deliver(d)
    PROVE  ListFollowsCache'
<1> DEFINE m == Head(down[d])
<1>1. m.key \in Keys /\ m.rec \in Record
  <2>1. down[d] \in Seq(Update) /\ down[d] # << >>
    BY DEF TypeOK, Deliver
  <2>2. m \in Update
    BY <2>1, HeadTailProperties
  <2> QED
    BY <2>2 DEF Update
<1>2. Running(d) /\ UNCHANGED <<places, observers, detail, status>>
  BY DEF Deliver
<1>3. CASE UNCHANGED <<view, events>>
  BY <1>2, <1>3, FollowsElsewhere DEF ListFollowsCache, Running
<1>4. CASE CacheBecomes(d, m.key, m.rec)
  <2>1. RowsBecome(places[d], places'[d], m.key, m.rec)
    BY <1>2 DEF RowsBecome, SameRows
  <2> QED
    BY <1>1, <1>2, <1>4, <2>1, BecomesFollows
<1> QED
  BY <1>3, <1>4 DEF Deliver

LEMMA HeadIsEvent ==
    ASSUME TypeOK, NEW d \in Devices, events[d] # << >>
    PROVE  /\ events[d] \in Seq(Event)
           /\ Head(events[d]).key \in Keys /\ Head(events[d]).rec \in Record
<1>1. events[d] \in Seq(Event)
  BY DEF TypeOK
<1>2. Head(events[d]) \in Event
  BY <1>1, HeadTailProperties
<1> QED
  BY <1>1, <1>2 DEF Event

\* A place that has been heard of and is known.
LEMMA HeadIsKnown ==
    ASSUME TypeOK, NEW d \in Devices, events[d] # << >>,
           FollowsCache(events[d], places[d], view[d])
    PROVE  LET k == Head(events[d]).key
           IN /\ view[d][k] # None
              /\ Follows(events[d], places[d], k, view[d][k])
<1> DEFINE k == Head(events[d]).key
<1>1. events[d] \in Seq(Event) /\ k \in Keys
  BY HeadIsEvent
<1>2. 1 \in DOMAIN events[d] /\ Head(events[d]) = events[d][1]
  BY <1>1, ForTail
<1>3. 1 \in For(events[d], k)
  BY <1>2 DEF For
<1> HIDE DEF k
<1>4. ~ Unheard(events[d], places[d], k)
  BY <1>3 DEF Unheard
<1> QED
  BY <1>1, <1>4 DEF FollowsCache, k

\* An observer's block has handled the head of the queue.
LEMMA HandledFollows ==
    ASSUME TypeOK, ListFollowsCache, NEW d \in Devices, Running(d),
           events[d] # << >>,
           LET e == Head(events[d])
           IN \/ /\ e.type = "added"
                 /\ places' = [places EXCEPT ![d] = WithAdded(@, e.key, e.rec)]
              \/ /\ e.type = "changed"
                 /\ places' = [places EXCEPT ![d] = Replaced(@, e.key, e.rec)],
           events' = [events EXCEPT ![d] = Tail(@)],
           UNCHANGED <<view, observers, detail, status>>, PlacesListedOnce
    PROVE  ListFollowsCache'
<1> DEFINE e == Head(events[d])
           list == places[d]
           new == places'[d]
           q == events[d]
<1>1. /\ observers[d] # 0
      /\ detail[d] # None => Listed(list, detail[d])
      /\ FollowsCache(q, list, view[d])
  BY DEF ListFollowsCache, FollowsOn
<1>2. q \in Seq(Event) /\ e.key \in Keys /\ e.rec \in Record
  BY HeadIsEvent
<1>3. /\ view[d][e.key] # None
      /\ Follows(q, list, e.key, view[d][e.key])
  BY <1>1, HeadIsKnown
<1>4. list \in Seq(Entry)
      /\ \A i, j \in DOMAIN list : list[i].key = list[j].key => i = j
  BY DEF TypeOK, PlacesListedOnce
<1>5. /\ new \in {WithAdded(list, e.key, e.rec), Replaced(list, e.key, e.rec)}
      /\ Listed(new, e.key)
      /\ Follows(Tail(q), new, e.key, view[d][e.key])
  <2>1. CASE e.type = "added"
    <3>1. new = WithAdded(list, e.key, e.rec)
      BY <2>1 DEF TypeOK
    <3>2. Follows(Tail(q), WithAdded(list, e.key, e.rec), e.key, view[d][e.key])
      BY <1>2, <1>3, <1>4, <2>1, FollowsAdded
    <3>3. Listed(WithAdded(list, e.key, e.rec), e.key)
      <4> DEFINE entry == [key |-> e.key, rec |-> e.rec]
      <4>1. entry \in Entry /\ entry.key = e.key
        BY <1>2 DEF Entry
      <4>2. For(Append(list, entry), e.key) = For(list, e.key) \cup
              (IF entry.key = e.key THEN {Len(list) + 1} ELSE {})
        BY <1>4, <4>1, ForAppended
      <4>3. Listed(Append(list, entry), e.key)
        BY <4>1, <4>2, ListedFor
      <4> QED
        BY <4>3 DEF WithAdded
    <3> QED
      BY <3>1, <3>2, <3>3
  <2>2. CASE e.type = "changed"
    <3>1. new = Replaced(list, e.key, e.rec)
      BY <2>2 DEF TypeOK
    <3>2. /\ Listed(list, e.key)
          /\ Follows(Tail(q), Replaced(list, e.key, e.rec), e.key,
                     view[d][e.key])
      BY <1>2, <1>3, <1>4, <2>2, FollowsChanged
    <3>3. SameKeys(list, Replaced(list, e.key, e.rec))
      BY <1>2, <1>4, SameKeysReplaced
    <3>4. Listed(Replaced(list, e.key, e.rec), e.key)
      BY <3>2, <3>3 DEF SameKeys, Listed
    <3> QED
      BY <3>1, <3>2, <3>4
  <2> QED
    BY <2>1, <2>2
<1> HIDE DEF e, list, new, q
<1>6. ASSUME NEW k \in Keys \ {e.key}
      PROVE  /\ Listed(new, k) <=> Listed(list, k)
             /\ IF view[d][k] = None
                THEN Unheard(Tail(q), new, k)
                ELSE Follows(Tail(q), new, k, view[d][k])
  <2>1. /\ For(new, k) = For(list, k)
        /\ \A i \in For(list, k) : new[i] = list[i]
    BY <1>2, <1>4, <1>5, OtherRows
  <2>2. Listed(new, k) <=> Listed(list, k)
    BY <2>1, ListedFor
  <2>3. q # << >> /\ Head(q).key # k
    BY DEF q, e
  <2>4. CASE view[d][k] = None
    BY <1>1, <1>2, <2>2, <2>3, <2>4, UnheardTail DEF FollowsCache, Unheard
  <2>5. CASE view[d][k] # None
    <3>1. Follows(q, list, k, view[d][k])
      BY <1>1, <2>5 DEF FollowsCache
    <3>2. \A i \in For(new, k) : \E j \in For(list, k) : new[i].rec = list[j].rec
      BY <2>1
    <3>3. q \in Seq(Event) /\ (Listed(list, k) => Listed(new, k))
      BY <1>2, <2>2
    <3> DEFINE rec == view[d][k]
    <3> HIDE DEF rec
    <3>4. Follows(q, list, k, rec)
      BY <3>1 DEF rec
    <3>5. Follows(Tail(q), new, k, rec)
      BY ONLY <2>3, <3>2, <3>3, <3>4, FollowsOther
    <3> QED
      BY <2>2, <2>5, <3>5 DEF rec
  <2> QED
    BY <2>2, <2>4, <2>5
<1>7. FollowsCache(Tail(q), new, view[d])
  BY <1>3, <1>5, <1>6 DEF FollowsCache
<1>8. \A k \in Keys : Listed(list, k) => Listed(new, k)
  BY <1>5, <1>6
<1>9. FollowsOn(d)'
  <2>1. events'[d] = Tail(q) /\ detail[d] \in Keys \cup {None}
    BY DEF TypeOK, q
  <2> QED
    BY <1>1, <1>7, <1>8, <2>1 DEF FollowsOn, list, new
<1>10. \A c \in Devices \ {d} : places'[c] = places[c] /\ events'[c] = events[c]
  BY DEF TypeOK
<1> QED
  BY <1>9, <1>10, FollowsOnlyHere

LEMMA HandleEventFollows ==
    ASSUME TypeOK, PlacesListedOnce, ListFollowsCache, NEW d \in Devices,
           HandleChildAdded(d) \/ HandleChildChanged(d)
    PROVE  ListFollowsCache'
BY HandledFollows DEF HandleChildAdded, HandleChildChanged, sdk

LEMMA OpenMyPlacesFollows ==
    ASSUME TypeOK, ListFollowsCache, NEW d \in Devices, OpenMyPlaces(d)
    PROVE  ListFollowsCache'
<1>1. PICK order \in InKeyOrder(Existing(view[d])) :
        events' = [events EXCEPT ![d] = @ \o
                     [i \in DOMAIN order |->
                        [type |-> "added", key |-> order[i],
                         rec |-> view[d][order[i]]]]]
  BY DEF OpenMyPlaces
<1> DEFINE call(i) == [type |-> "added", key |-> order[i],
                       rec |-> view[d][order[i]]]
           more == [i \in 1 .. Len(order) |-> call(i)]
           q == events[d]
<1>2. /\ Len(order) \in Nat /\ DOMAIN order = 1 .. Len(order)
      /\ \A i \in 1 .. Len(order) : /\ order[i] \in Keys
                                    /\ view[d][order[i]] \in Record
  <2>1. view[d] \in Caches(Keys \X Record)
    BY DEF TypeOK, Caches
  <2> QED
    BY <2>1, OrderTypes
<1>3. \A i \in 1 .. Len(order) : call(i) \in Event
  BY <1>2 DEF Event
<1>4. /\ \A i \in 1 .. Len(order) : more[i] = call(i)
      /\ DOMAIN more = 1 .. Len(order)
  OBVIOUS
<1>5. \A i \in 1 .. Len(order) : more[i].type = "added" /\ more[i].key = order[i]
                                 /\ more[i].rec = view[d][order[i]]
  OBVIOUS
<1>6. more \in Seq(Event)
  <2> HIDE DEF call
  <2> QED
    BY <1>2, <1>3, IsASeq
<1>7. events'[d] = q \o more
  BY <1>1, <1>2 DEF TypeOK
<1> HIDE DEF call, more, q
<1>8. \A k \in Keys : \A i \in For(more, k) :
         more[i].type = "added" /\ more[i].rec = view[d][k] /\ view[d][k] # None
  BY <1>2, <1>4, <1>5, NoneIsNoRecord DEF For
<1>9. /\ Running(d) /\ UNCHANGED <<view, places, detail, status>>
      /\ observers' = [observers EXCEPT ![d] = @ + 1]
      /\ \A c \in Devices \ {d} : events'[c] = events[c]
      /\ q \in Seq(Event)
  BY <1>1 DEF OpenMyPlaces, sdk, TypeOK, q
<1>10. /\ observers[d] # 0
       /\ detail[d] # None => Listed(places[d], detail[d])
       /\ FollowsCache(q, places[d], view[d])
  BY <1>9 DEF ListFollowsCache, FollowsOn, q
<1>11. FollowsCache(q \o more, places[d], view[d])
  <2> SUFFICES ASSUME NEW k \in Keys
               PROVE  IF view[d][k] = None
                      THEN Unheard(q \o more, places[d], k)
                      ELSE Follows(q \o more, places[d], k, view[d][k])
    BY DEF FollowsCache
  <2>1. CASE view[d][k] = None
    <3>1. Unheard(q, places[d], k) /\ For(more, k) = {}
      BY <1>8, <1>10, <2>1 DEF FollowsCache
    <3> QED
      BY <1>6, <1>9, <2>1, <3>1, UnheardMore
  <2>2. CASE view[d][k] # None
    <3>1. Follows(q, places[d], k, view[d][k])
      BY <1>10, <2>2 DEF FollowsCache
    <3> QED
      BY <1>6, <1>8, <1>9, <2>2, <3>1, FollowsMore
  <2> QED
    BY <2>1, <2>2
<1>12. observers'[d] # 0
  BY <1>9 DEF TypeOK
<1>13. FollowsOn(d)'
  BY <1>7, <1>9, <1>10, <1>11, <1>12 DEF FollowsOn
<1>14. \A c \in Devices \ {d} : observers'[c] = observers[c]
  BY <1>9 DEF TypeOK
<1> QED
  BY <1>9, <1>13, <1>14, FollowsOnlyHere

LEMMA ListFollowsStep ==
    ASSUME TypeOK, PlacesListedOnce, OffIsEmpty, ListFollowsCache, [Next]_vars
    PROVE  ListFollowsCache'
<1>1. ASSUME UNCHANGED <<observers, detail, places, events, view>>,
             \A c \in Devices : status'[c] = "running" => Running(c)
      PROVE  ListFollowsCache'
  BY <1>1, FollowsElsewhere DEF ListFollowsCache
<1>2. ASSUME NEW k \in Keys, NEW info \in Infos,
             ConsoleAdd(k, info) \/ ConsoleEdit(k, info)
      PROVE  ListFollowsCache'
  BY <1>1, <1>2 DEF ConsoleAdd, ConsoleEdit, ConsoleWrites, Running
<1>3. ASSUME NEW d \in Devices,
             \/ ServerApply(d) \/ Reconnect(d)
             \/ \E u \in Users : SignIn(d, u)
             \/ SignOut(d)
      PROVE  ListFollowsCache'
  BY <1>1, <1>3 DEF ServerApply, Reconnect, SignIn, SignOut, Running, sdk
<1>4. ASSUME NEW d \in Devices, FailCast(d) \/ FailUnwrap(d)
      PROVE  ListFollowsCache'
  BY <1>1, <1>4 DEF FailCast, FailUnwrap, Trap, Running, TypeOK
<1>5. ASSUME NEW d \in Devices, Launch(d)
      PROVE  ListFollowsCache'
  <2>1. /\ places[d] = << >> /\ events[d] = << >> /\ detail[d] = None
        /\ \A k \in Keys : view[d][k] = None
    BY <1>5 DEF OffIsEmpty, Launch
  <2>2. FollowsCache(events[d], places[d], view[d])
    BY <2>1 DEF FollowsCache, Unheard, Listed, For
  <2>3. UNCHANGED <<places, events, detail, view>> /\ observers'[d] = 1
    BY <1>5 DEF Launch, TypeOK
  <2>4. FollowsOn(d)'
    BY <2>1, <2>2, <2>3 DEF FollowsOn
  <2>5. \A c \in Devices \ {d} : observers'[c] = observers[c]
                                 /\ status'[c] = status[c]
    BY <1>5 DEF Launch, TypeOK
  <2>6. \A c \in Devices \ {d} : Running(c)' => FollowsOn(c)'
    BY <2>3, <2>5, FollowsElsewhere DEF Running
  <2> QED
    BY <2>4, <2>6 DEF ListFollowsCache
<1>6. ASSUME NEW d \in Devices, Kill(d)
      PROVE  ListFollowsCache'
  <2>1. status'[d] = "off"
    BY <1>6 DEF Kill, TypeOK
  <2>2. \A c \in Devices \ {d} :
           /\ observers'[c] = observers[c] /\ detail'[c] = detail[c]
           /\ places'[c] = places[c] /\ events'[c] = events[c]
           /\ view'[c] = view[c] /\ status'[c] = status[c]
    BY <1>6 DEF Kill, TypeOK
  <2>3. \A c \in Devices \ {d} : Running(c)' => FollowsOn(c)'
    BY <2>2, FollowsElsewhere DEF Running
  <2> QED
    BY <2>1, <2>3 DEF ListFollowsCache, Running
<1>7. ASSUME NEW d \in Devices, NEW i \in DOMAIN places[d], OpenDetail(d, i)
      PROVE  ListFollowsCache'
  <2>1. /\ Running(d) /\ UNCHANGED <<view, events, observers, places, status>>
        /\ detail' = [detail EXCEPT ![d] = places[d][i].key]
    BY <1>7 DEF OpenDetail, sdk
  <2>2. Listed(places[d], places[d][i].key)
    BY DEF Listed
  <2>3. FollowsOn(d)'
    BY <2>1, <2>2 DEF FollowsOn, ListFollowsCache, TypeOK
  <2>4. \A c \in Devices \ {d} : detail'[c] = detail[c]
    BY <2>1 DEF TypeOK
  <2> QED
    BY <2>1, <2>3, <2>4, FollowsOnlyHere
<1>8. ASSUME NEW d \in Devices, CloseDetail(d)
      PROVE  ListFollowsCache'
  <2>1. /\ Running(d) /\ UNCHANGED <<view, events, observers, places, status>>
        /\ detail' = [detail EXCEPT ![d] = None]
    BY <1>8 DEF CloseDetail, sdk
  <2>2. FollowsOn(d)'
    BY <2>1 DEF FollowsOn, ListFollowsCache, TypeOK
  <2>3. \A c \in Devices \ {d} : detail'[c] = detail[c]
    BY <2>1 DEF TypeOK
  <2> QED
    BY <2>1, <2>2, <2>3, FollowsOnlyHere
<1>9. CASE UNCHANGED vars
  BY <1>1, <1>9 DEF vars, Running
<1> QED
  BY <1>2, <1>3, <1>4, <1>5, <1>6, <1>7, <1>8, <1>9, VisitFollows,
     RateListedFollows, RateOrphanFollows, DeliverFollows, HandleEventFollows,
     OpenMyPlacesFollows DEF Next, HandleEvent

\* The list is what the SDK knows and the main queue will tell it.
THEOREM ListIsTold == Spec => [](OffIsEmpty /\ ListFollowsCache)
<1>1. Init => OffIsEmpty /\ ListFollowsCache
  BY DEF Init, OffIsEmpty, ListFollowsCache, Running
<1>2. TypeOK /\ PlacesListedOnce /\ OffIsEmpty /\ ListFollowsCache
        /\ [Next]_vars => (OffIsEmpty /\ ListFollowsCache)'
  BY OffIsEmptyStep, ListFollowsStep
<1> QED
  BY <1>1, <1>2, TypeCorrect, ListedOnce, PTL DEF Spec

\* childChanged finds its place in the list, so that its loop from 0 to
\* count-1 never meets an empty list (Places.swift:160-168).
THEOREM ChangesFindTheirPlace == Spec => []ChildChangedFindsPlace
<1>1. TypeOK /\ PlacesListedOnce /\ ListFollowsCache => ChildChangedFindsPlace
  <2> SUFFICES ASSUME TypeOK, PlacesListedOnce, ListFollowsCache,
                      NEW d \in Devices, Running(d), events[d] # << >>,
                      Head(events[d]).type = "changed"
               PROVE  Listed(places[d], Head(events[d]).key)
    BY DEF ChildChangedFindsPlace
  <2> DEFINE k == Head(events[d]).key
             rec == view[d][k]
  <2>1. FollowsCache(events[d], places[d], view[d])
    BY DEF ListFollowsCache, FollowsOn
  <2>2. Follows(events[d], places[d], k, rec)
    BY <2>1, HeadIsKnown
  <2>3. /\ events[d] \in Seq(Event) /\ places[d] \in Seq(Entry)
        /\ \A i, j \in DOMAIN places[d] :
              places[d][i].key = places[d][j].key => i = j
    BY DEF TypeOK, PlacesListedOnce
  <2> HIDE DEF rec
  <2> QED
    BY <2>2, <2>3, FollowsChanged
<1> QED
  BY <1>1, ListIsTold, TypeCorrect, ListedOnce, PTL

\* With an empty queue every row shows what the cache has.
LEMMA ServedShows ==
    ASSUME ListFollowsCache, NEW d \in Devices, Running(d), events[d] = << >>,
           NEW k \in Keys
    PROVE  IF view[d][k] = None
           THEN For(places[d], k) = {}
           ELSE /\ For(places[d], k) # {}
                /\ \A i \in For(places[d], k) : places[d][i].rec = view[d][k]
<1>1. For(events[d], k) = {}
  BY DEF For
<1>2. FollowsCache(events[d], places[d], view[d])
  BY DEF ListFollowsCache, FollowsOn
<1> QED
  BY <1>1, <1>2, ListedFor DEF FollowsCache, Unheard, Follows, AddedFirst,
     ChangesTo, StaysAt

LEMMA ServedList ==
    ASSUME TypeOK, ListFollowsCache, NEW d \in Devices, Running(d),
           events[d] = << >>
    PROVE  {places[d][i] : i \in DOMAIN places[d]} =
             {[key |-> k, rec |-> view[d][k]] : k \in Existing(view[d])}
<1> DEFINE row(k) == [key |-> k, rec |-> view[d][k]]
<1>1. ASSUME NEW i \in DOMAIN places[d]
      PROVE  \E k \in Existing(view[d]) : places[d][i] = row(k)
  <2>1. places[d][i] \in Entry
    BY RowIsEntry
  <2> DEFINE k == places[d][i].key
  <2>2. k \in Keys /\ i \in For(places[d], k)
    BY <2>1 DEF Entry, For
  <2>3. view[d][k] # None /\ places[d][i].rec = view[d][k]
    BY <2>2, ServedShows
  <2>4. places[d][i] = row(k)
    BY <2>1, <2>3 DEF Entry
  <2> QED
    BY <2>2, <2>3, <2>4 DEF Existing
<1>2. ASSUME NEW k \in Existing(view[d])
      PROVE  \E i \in DOMAIN places[d] : places[d][i] = row(k)
  <2>1. k \in Keys /\ view[d][k] # None
    BY DEF Existing
  <2>2. PICK i \in For(places[d], k) : places[d][i].rec = view[d][k]
    BY <2>1, ServedShows
  <2>3. i \in DOMAIN places[d] /\ places[d][i].key = k
    BY DEF For
  <2>4. places[d][i] \in Entry
    BY <2>3, RowIsEntry
  <2> QED
    BY <2>2, <2>3, <2>4 DEF Entry
<1> HIDE DEF row
<1>3. {places[d][i] : i \in DOMAIN places[d]} = {row(k) : k \in Existing(view[d])}
  BY <1>1, <1>2
<1> QED
  BY <1>3 DEF row

\* When the main queue has been served, the list shows what the SDK knows
\* (Places.swift:136-172).
THEOREM ListShowsTheCache == Spec => []ListCatchesUp
<1>1. TypeOK /\ ListFollowsCache => ListCatchesUp
  BY ServedList DEF ListCatchesUp
<1> QED
  BY <1>1, ListIsTold, TypeCorrect, PTL

LEMMA VisitedKeeps ==
    ASSUME NEW rec \in Record, NEW name \in Name
    PROVE  Keeps(rec, Visited(rec, name))
<1> DEFINE new == Append(rec.visitors, name)
<1>1. rec.visitors \in Seq(Name) /\ Len(rec.visitors) \in Nat
      /\ DOMAIN rec.visitors = 1 .. Len(rec.visitors)
  BY LenProperties DEF Record
<1>2. new \in Seq(Name) /\ Len(new) = Len(rec.visitors) + 1
      /\ \A i \in 1 .. Len(rec.visitors) : new[i] = rec.visitors[i]
  BY <1>1, AppendProperties
<1>3. DOMAIN new = 1 .. Len(rec.visitors) + 1
  BY <1>2, LenProperties
<1>4. Visited(rec, name) = [rec EXCEPT !.visitors = new]
  BY DEF Visited
<1> HIDE DEF new
<1>5. /\ Visited(rec, name).visitors = new
      /\ Visited(rec, name).ratings = rec.ratings
      /\ Visited(rec, name).info = rec.info
  BY <1>4 DEF Record
<1> QED
  BY <1>1, <1>2, <1>3, <1>5 DEF Keeps, HasVisited, HasRated

LEMMA RatedKeeps ==
    ASSUME NEW rec \in Record, NEW name \in Name, NEW stars \in Stars
    PROVE  Keeps(rec, Rated(rec, name, stars))
<1> DEFINE new == {pair \in rec.ratings : pair[1] # name} \cup {<<name, stars>>}
<1>1. /\ Rated(rec, name, stars).visitors = rec.visitors
      /\ Rated(rec, name, stars).ratings = new
      /\ Rated(rec, name, stars).info = rec.info
  BY DEF Rated, Record
<1>2. \A pair \in rec.ratings : \E other \in new : other[1] = pair[1]
  <2> TAKE pair \in rec.ratings
  <2>1. <<name, stars>> \in new /\ <<name, stars>>[1] = name
    OBVIOUS
  <2>2. pair[1] # name => pair \in new
    OBVIOUS
  <2> QED
    BY <2>1, <2>2
<1> QED
  BY <1>1, <1>2 DEF Keeps, HasVisited, HasRated

\* The last write in a queue that has got one more.
LEMMA WriteIsLast ==
    ASSUME TypeOK, NEW d \in Devices, NEW k \in Keys, NEW rec \in Record,
           UpdateChildValues(d, k, rec)
    PROVE  LastWrite(d) = [key |-> k, rec |-> rec]
<1> DEFINE w == [key |-> k, rec |-> rec]
<1>1. sending'[d] = Append(sending[d], w) /\ sending[d] \in Seq(Write)
  BY DEF UpdateChildValues, TypeOK
<1>2. w \in Write
  BY DEF Write
<1> HIDE DEF w
<1>3. /\ Len(Append(sending[d], w)) = Len(sending[d]) + 1
      /\ Append(sending[d], w)[Len(sending[d]) + 1] = w
  BY <1>1, <1>2, AppendProperties
<1> QED
  BY <1>1, <1>3 DEF LastWrite, w

\* Only visits and ratings write.
LEMMA OnlyUsersWrite ==
    ASSUME TypeOK, [Next]_vars, NEW d \in Devices, Writes(d), orphan[d] = None
    PROVE  \/ \E i \in DOMAIN places[d] : Visit(d, i)
           \/ \E i \in DOMAIN places[d], stars \in RateChoices :
                 RateListed(d, i, stars)
<1>1. sending[d] \in Seq(Write) /\ Len(sending[d]) \in Nat
  BY LenProperties DEF TypeOK
<1>2. sending'[d] # sending[d]
  BY <1>1 DEF Writes
<1>3. ASSUME NEW k \in Keys, NEW info \in Infos,
             ConsoleAdd(k, info) \/ ConsoleEdit(k, info)
      PROVE  FALSE
  BY <1>2, <1>3 DEF ConsoleAdd, ConsoleEdit, ConsoleWrites
<1>4. ASSUME NEW c \in Devices,
             \/ Deliver(c) \/ Launch(c)
             \/ HandleChildAdded(c) \/ HandleChildChanged(c) \/ FailCast(c)
             \/ \E i \in DOMAIN places[c] : OpenDetail(c, i)
             \/ CloseDetail(c) \/ OpenMyPlaces(c) \/ FailUnwrap(c)
             \/ \E u \in Users : SignIn(c, u)
             \/ SignOut(c)
      PROVE  FALSE
  BY <1>2, <1>4 DEF Deliver, Launch, HandleChildAdded, HandleChildChanged,
     FailCast, Trap, OpenDetail, CloseDetail, OpenMyPlaces, FailUnwrap,
     SignIn, SignOut, sdk
<1>5. ASSUME NEW c \in Devices, ServerApply(c)
      PROVE  FALSE
  <2>1. c = d /\ sending'[d] = Tail(sending[d]) /\ sending[d] # << >>
    BY <1>2, <1>5 DEF ServerApply, TypeOK
  <2>2. Len(Tail(sending[d])) = Len(sending[d]) - 1
    BY <1>1, <2>1, HeadTailProperties
  <2> QED
    BY <1>1, <2>1, <2>2 DEF Writes
<1>6. ASSUME NEW c \in Devices, Reconnect(c)
      PROVE  FALSE
  <2>1. c = d /\ sending'[d] = unacked[d] \o sending[d] /\ unacked'[d] = << >>
    BY <1>2, <1>6 DEF Reconnect, TypeOK
  <2>2. unacked[d] = << >>
    BY <2>1 DEF Writes
  <2>3. << >> \o sending[d] = sending[d]
    BY <1>1, ConcatEmptySeq
  <2> QED
    BY <1>2, <2>1, <2>2, <2>3
<1>7. ASSUME NEW c \in Devices, Kill(c)
      PROVE  FALSE
  <2>1. c = d /\ sending'[d] = << >>
    BY <1>2, <1>7 DEF Kill, TypeOK
  <2> QED
    BY <1>1, <2>1, EmptySeq DEF Writes
<1>8. ASSUME NEW c \in Devices,
             \/ \E i \in DOMAIN places[c] : Visit(c, i)
             \/ \E i \in DOMAIN places[c], stars \in RateChoices :
                   RateListed(c, i, stars)
             \/ \E stars \in RateChoices : RateOrphan(c, stars)
      PROVE  c = d
  BY <1>2, <1>8 DEF Visit, RateListed, RateOrphan, UpdateChildValues, TypeOK
<1>9. ASSUME NEW stars \in RateChoices, RateOrphan(d, stars)
      PROVE  FALSE
  BY <1>9 DEF RateOrphan
<1>10. CASE UNCHANGED vars
  BY <1>2, <1>10 DEF vars
<1> QED
  BY <1>3, <1>4, <1>5, <1>6, <1>7, <1>8, <1>9, <1>10 DEF Next, HandleEvent

\* The whole record that Places.visit and Places.rate write (Places.swift:195,
\* 230) has everybody whom the device knows of, if the main queue has been
\* served and the screen shares its object with the list.
THEOREM FreshWritesKeepAll == Spec => FreshWriteKeepsAll
<1> DEFINE Kept == \A d \in Devices :
             Writes(d) /\ events[d] = << >> /\ orphan[d] = None =>
               LET w == LastWrite(d) IN Keeps(view[d][w.key], w.rec)
<1>1. TypeOK /\ PlacesListedOnce /\ ListFollowsCache /\ [Next]_vars
        => [Kept]_vars
  <2> SUFFICES ASSUME TypeOK, PlacesListedOnce, ListFollowsCache, [Next]_vars,
                      NEW d \in Devices, Writes(d), events[d] = << >>,
                      orphan[d] = None
               PROVE  Keeps(view[d][LastWrite(d).key], LastWrite(d).rec)
    OBVIOUS
  <2>1. ASSUME NEW i \in DOMAIN places[d], Running(d)
        PROVE  /\ places[d][i].key \in Keys /\ places[d][i].rec \in Record
               /\ view[d][places[d][i].key] = places[d][i].rec
    <3>1. places[d][i].key \in Keys /\ places[d][i].rec \in Record
      BY RowIsEntry DEF Entry
    <3>2. i \in For(places[d], places[d][i].key)
      BY DEF For
    <3> QED
      BY <2>1, <3>1, <3>2, ServedShows
  <2>2. ASSUME NEW i \in DOMAIN places[d], Visit(d, i)
        PROVE  Keeps(view[d][LastWrite(d).key], LastWrite(d).rec)
    <3> DEFINE p == places[d][i]
               name == VisitorName(p.rec, auth[d], None)
    <3>1. /\ Running(d)
          /\ UpdateChildValues(d, p.key, Visited(p.rec, name))
      BY <2>2 DEF Visit
    <3>2. p.key \in Keys /\ p.rec \in Record /\ view[d][p.key] = p.rec
      BY <2>1, <3>1
    <3>3. name \in Name
      BY <3>2, NamesAreNames DEF TypeOK
    <3> HIDE DEF p, name
    <3>4. Visited(p.rec, name) \in Record
      BY <3>2, <3>3, VisitedIsRecord
    <3>5. LastWrite(d) = [key |-> p.key, rec |-> Visited(p.rec, name)]
      BY <3>1, <3>2, <3>4, WriteIsLast
    <3> QED
      BY <3>2, <3>3, <3>5, VisitedKeeps
  <2>3. ASSUME NEW i \in DOMAIN places[d], NEW stars \in RateChoices,
               RateListed(d, i, stars)
        PROVE  Keeps(view[d][LastWrite(d).key], LastWrite(d).rec)
    <3> DEFINE p == places[d][i]
               name == RaterName(p.rec, auth[d], None)
    <3>1. /\ Running(d)
          /\ UpdateChildValues(d, p.key, Rated(p.rec, name, stars))
      BY <2>3 DEF RateListed
    <3>2. p.key \in Keys /\ p.rec \in Record /\ view[d][p.key] = p.rec
      BY <2>1, <3>1
    <3>3. name \in Name /\ stars \in Stars
      BY <3>2, NamesAreNames, ChoicesAssumption DEF TypeOK
    <3> HIDE DEF p, name
    <3>4. Rated(p.rec, name, stars) \in Record
      BY <3>2, <3>3, RatedIsRecord
    <3>5. LastWrite(d) = [key |-> p.key, rec |-> Rated(p.rec, name, stars)]
      BY <3>1, <3>2, <3>4, WriteIsLast
    <3> QED
      BY <3>2, <3>3, <3>5, RatedKeeps
  <2> QED
    BY <2>2, <2>3, OnlyUsersWrite
<1> QED
  BY <1>1, ListIsTold, TypeCorrect, ListedOnce, PTL DEF Spec, FreshWriteKeepsAll

-----------------------------------------------------------------------------
(* Acknowledgements on their way.                                          *)

LEMMA MatchesApplied ==
    ASSUME NEW waiting \in Seq(Write), NEW coming \in Seq(Update), NEW f,
           Matches(f, waiting, coming), NEW w \in Write, NEW m \in Update,
           m.ack, m.key = w.key
    PROVE  \E g : Matches(g, Append(waiting, w), Append(coming, m))
<1> DEFINE n == Len(waiting)
           c == Len(coming)
           g == [i \in 1 .. n + 1 |-> IF i <= n THEN f[i] ELSE c + 1]
           new == Append(waiting, w)
           more == Append(coming, m)
<1>1. /\ n \in Nat /\ DOMAIN waiting = 1 .. n
      /\ c \in Nat /\ DOMAIN coming = 1 .. c
  BY LenProperties
<1>2. /\ new \in Seq(Write) /\ Len(new) = n + 1 /\ new[n + 1] = w
      /\ \A i \in 1 .. n : new[i] = waiting[i]
  BY AppendProperties
<1>3. /\ more \in Seq(Update) /\ Len(more) = c + 1 /\ more[c + 1] = m
      /\ \A i \in 1 .. c : more[i] = coming[i]
  BY AppendProperties
<1>4. DOMAIN new = 1 .. n + 1 /\ DOMAIN more = 1 .. c + 1
  BY <1>2, <1>3, LenProperties
<1>5. /\ f \in [1 .. n -> 1 .. c]
      /\ \A i, j \in 1 .. n : i < j => f[i] < f[j]
      /\ \A i \in 1 .. n : coming[f[i]].ack /\ coming[f[i]].key = waiting[i].key
      /\ \A j \in 1 .. c : coming[j].ack => \E i \in 1 .. n : f[i] = j
  BY <1>1 DEF Matches
<1> HIDE DEF n, c, new, more
<1>6. /\ \A i \in 1 .. n : g[i] = f[i] /\ f[i] \in 1 .. c
      /\ g[n + 1] = c + 1
  BY <1>1, <1>5
<1>7. g \in [1 .. n + 1 -> 1 .. c + 1]
  BY <1>1, <1>5
<1> HIDE DEF g
<1>8. \A i \in 1 .. n + 1 : i \in 1 .. n \/ i = n + 1
  BY <1>1
<1>9. \A i, j \in 1 .. n + 1 : i < j => g[i] < g[j]
  <2> SUFFICES ASSUME NEW i \in 1 .. n + 1, NEW j \in 1 .. n + 1, i < j
               PROVE  g[i] < g[j]
    OBVIOUS
  <2>1. i \in 1 .. n /\ g[i] = f[i] /\ f[i] \in 1 .. c
    BY <1>1, <1>6
  <2>2. CASE j \in 1 .. n
    BY <1>5, <1>6, <2>1, <2>2
  <2>3. CASE j = n + 1
    BY <1>1, <1>6, <2>1, <2>3
  <2> QED
    BY <1>8, <2>2, <2>3
<1>10. \A i \in 1 .. n + 1 : more[g[i]].ack /\ more[g[i]].key = new[i].key
  <2> TAKE i \in 1 .. n + 1
  <2>1. CASE i \in 1 .. n
    BY <1>2, <1>3, <1>5, <1>6, <2>1
  <2>2. CASE i = n + 1
    <3>1. more[g[i]] = m /\ new[i] = w
      BY <1>2, <1>3, <1>6, <2>2
    <3> QED
      BY <3>1
  <2> QED
    BY <1>8, <2>1, <2>2
<1>11. ASSUME NEW j \in 1 .. c + 1, more[j].ack
       PROVE  \E i \in 1 .. n + 1 : g[i] = j
  <2>1. CASE j = c + 1
    BY <1>1, <1>6, <2>1
  <2>2. CASE j \in 1 .. c
    <3>1. PICK i \in 1 .. n : f[i] = j
      BY <1>3, <1>5, <1>11, <2>2
    <3> QED
      BY <1>1, <1>6, <3>1
  <2> QED
    BY <1>1, <2>1, <2>2
<1>12. Matches(g, new, more)
  BY <1>4, <1>7, <1>9, <1>10, <1>11 DEF Matches
<1> QED
  BY <1>12 DEF new, more

LEMMA MatchesTold ==
    ASSUME NEW waiting \in Seq(Write), NEW coming \in Seq(Update), NEW f,
           Matches(f, waiting, coming), NEW m \in Update, ~ m.ack
    PROVE  Matches(f, waiting, Append(coming, m))
<1> DEFINE c == Len(coming)
           more == Append(coming, m)
<1>1. c \in Nat /\ DOMAIN coming = 1 .. c
  BY LenProperties
<1>2. /\ more \in Seq(Update) /\ Len(more) = c + 1 /\ more[c + 1] = m
      /\ \A i \in 1 .. c : more[i] = coming[i]
  BY AppendProperties
<1>3. DOMAIN more = 1 .. c + 1
  BY <1>2, LenProperties
<1> HIDE DEF c, more
<1>4. \A j \in DOMAIN more : j \in DOMAIN coming \/ j = c + 1
  BY <1>1, <1>3
<1>5. DOMAIN coming \subseteq DOMAIN more
  BY <1>1, <1>3
<1>6. Matches(f, waiting, more)
  BY <1>1, <1>2, <1>4, <1>5 DEF Matches
<1> QED
  BY <1>6 DEF more

LEMMA MatchesHeadTold ==
    ASSUME NEW waiting \in Seq(Write), NEW coming \in Seq(Update), NEW f,
           Matches(f, waiting, coming), coming # << >>, ~ Head(coming).ack
    PROVE  \E g : Matches(g, waiting, Tail(coming))
<1> DEFINE n == Len(waiting)
           c == Len(coming)
           rest == Tail(coming)
           g == [i \in 1 .. n |-> f[i] - 1]
<1>1. /\ n \in Nat /\ DOMAIN waiting = 1 .. n
      /\ c \in Nat \ {0} /\ DOMAIN coming = 1 .. c /\ Head(coming) = coming[1]
  BY LenProperties, EmptySeq
<1>2. /\ rest \in Seq(Update) /\ Len(rest) = c - 1
      /\ \A i \in 1 .. c - 1 : rest[i] = coming[i + 1]
  BY HeadTailProperties
<1>3. DOMAIN rest = 1 .. c - 1
  BY <1>2, LenProperties
<1>4. /\ f \in [1 .. n -> 1 .. c]
      /\ \A i, j \in 1 .. n : i < j => f[i] < f[j]
      /\ \A i \in 1 .. n : coming[f[i]].ack /\ coming[f[i]].key = waiting[i].key
      /\ \A j \in 1 .. c : coming[j].ack => \E i \in 1 .. n : f[i] = j
  BY <1>1 DEF Matches
<1> HIDE DEF n, c, rest
<1>5. \A i \in 1 .. n : f[i] \in 2 .. c
  <2> TAKE i \in 1 .. n
  <2>1. f[i] # 1
    BY <1>1, <1>4
  <2> QED
    BY <1>1, <1>4, <2>1
<1>6. \A i \in 1 .. n : /\ g[i] = f[i] - 1 /\ g[i] \in 1 .. c - 1
                        /\ rest[g[i]] = coming[f[i]]
  <2> TAKE i \in 1 .. n
  <2>1. f[i] \in 2 .. c /\ g[i] = f[i] - 1
    BY <1>5
  <2>2. g[i] \in 1 .. c - 1 /\ g[i] + 1 = f[i]
    BY <1>1, <2>1
  <2> QED
    BY <1>2, <2>1, <2>2
<1>7. g \in [1 .. n -> 1 .. c - 1]
  BY <1>6
<1> HIDE DEF g
<1>8. \A i, j \in 1 .. n : i < j => g[i] < g[j]
  BY <1>4, <1>5, <1>6
<1>9. ASSUME NEW j \in 1 .. c - 1, rest[j].ack
      PROVE  \E i \in 1 .. n : g[i] = j
  <2>1. j + 1 \in 1 .. c /\ coming[j + 1].ack
    BY <1>1, <1>2, <1>9
  <2>2. PICK i \in 1 .. n : f[i] = j + 1
    BY <1>4, <2>1
  <2> QED
    BY <1>6, <2>2
<1>10. Matches(g, waiting, rest)
  BY <1>1, <1>3, <1>4, <1>6, <1>7, <1>8, <1>9 DEF Matches
<1> QED
  BY <1>10 DEF rest

LEMMA MatchesHeadAck ==
    ASSUME NEW waiting \in Seq(Write), NEW coming \in Seq(Update), NEW f,
           Matches(f, waiting, coming), coming # << >>, Head(coming).ack
    PROVE  /\ waiting # << >>
           /\ \E g : Matches(g, Tail(waiting), Tail(coming))
<1> DEFINE n == Len(waiting)
           c == Len(coming)
           rest == Tail(coming)
           left == Tail(waiting)
           g == [i \in 1 .. n - 1 |-> f[i + 1] - 1]
<1>1. /\ n \in Nat /\ DOMAIN waiting = 1 .. n
      /\ c \in Nat \ {0} /\ DOMAIN coming = 1 .. c /\ Head(coming) = coming[1]
  BY LenProperties, EmptySeq
<1>2. /\ rest \in Seq(Update) /\ Len(rest) = c - 1
      /\ \A i \in 1 .. c - 1 : rest[i] = coming[i + 1]
  BY HeadTailProperties
<1>3. DOMAIN rest = 1 .. c - 1
  BY <1>2, LenProperties
<1>4. /\ f \in [1 .. n -> 1 .. c]
      /\ \A i, j \in 1 .. n : i < j => f[i] < f[j]
      /\ \A i \in 1 .. n : coming[f[i]].ack /\ coming[f[i]].key = waiting[i].key
      /\ \A j \in 1 .. c : coming[j].ack => \E i \in 1 .. n : f[i] = j
  BY <1>1 DEF Matches
<1> HIDE DEF c, rest
<1>5. PICK first \in 1 .. n : f[first] = 1
  BY <1>1, <1>4
<1>6. waiting # << >> /\ n \in Nat \ {0}
  BY <1>1, <1>5, EmptySeq
<1>7. /\ left \in Seq(Write) /\ Len(left) = n - 1
      /\ \A i \in 1 .. n - 1 : left[i] = waiting[i + 1]
  BY <1>6, HeadTailProperties
<1>8. DOMAIN left = 1 .. n - 1
  BY <1>7, LenProperties
<1> HIDE DEF n, left
<1>9. f[1] = 1
  <2>1. 1 \in 1 .. n /\ f[1] \in 1 .. c
    BY <1>4, <1>6
  <2>2. CASE first = 1
    BY <1>5, <2>2
  <2>3. CASE first # 1
    <3>1. 1 < first
      BY <1>1, <1>5, <2>3
    <3>2. f[1] < f[first]
      BY <1>4, <1>5, <2>1, <3>1
    <3> QED
      BY <1>1, <1>5, <2>1, <3>2
  <2> QED
    BY <2>2, <2>3
<1>10. \A i \in 1 .. n - 1 :
          /\ i + 1 \in 1 .. n
          /\ g[i] = f[i + 1] - 1 /\ g[i] \in 1 .. c - 1
          /\ rest[g[i]] = coming[f[i + 1]]
  <2> TAKE i \in 1 .. n - 1
  <2>1. i + 1 \in 1 .. n /\ 1 \in 1 .. n /\ 1 < i + 1
    BY <1>1
  <2>2. f[i + 1] \in 1 .. c /\ f[1] < f[i + 1]
    BY <1>4, <2>1
  <2>3. g[i] = f[i + 1] - 1
    OBVIOUS
  <2>4. g[i] \in 1 .. c - 1 /\ g[i] + 1 = f[i + 1]
    BY <1>1, <1>9, <2>2, <2>3
  <2> QED
    BY <1>2, <2>1, <2>3, <2>4
<1>11. g \in [1 .. n - 1 -> 1 .. c - 1]
  BY <1>10
<1> HIDE DEF g
<1>12. \A i, j \in 1 .. n - 1 : i < j => g[i] < g[j]
  <2> SUFFICES ASSUME NEW i \in 1 .. n - 1, NEW j \in 1 .. n - 1, i < j
               PROVE  g[i] < g[j]
    OBVIOUS
  <2>1. i + 1 \in 1 .. n /\ j + 1 \in 1 .. n /\ i + 1 < j + 1
    BY <1>1
  <2>2. f[i + 1] < f[j + 1] /\ f[i + 1] \in 1 .. c /\ f[j + 1] \in 1 .. c
    BY <1>4, <2>1
  <2> QED
    BY <1>1, <1>10, <2>2
<1>13. ASSUME NEW j \in 1 .. c - 1, rest[j].ack
       PROVE  \E i \in 1 .. n - 1 : g[i] = j
  <2>1. j + 1 \in 1 .. c /\ coming[j + 1].ack /\ j + 1 # 1
    BY <1>1, <1>2, <1>13
  <2>2. PICK i \in 1 .. n : f[i] = j + 1
    BY <1>4, <2>1
  <2>3. i # 1
    BY <1>9, <2>1, <2>2
  <2>4. i - 1 \in 1 .. n - 1 /\ (i - 1) + 1 = i
    BY <1>1, <2>3
  <2> QED
    BY <1>10, <2>2, <2>4
<1>14. \A i \in 1 .. n - 1 : rest[g[i]].ack /\ rest[g[i]].key = left[i].key
  BY <1>4, <1>7, <1>10
<1>15. Matches(g, left, rest)
  BY <1>3, <1>8, <1>11, <1>12, <1>13, <1>14 DEF Matches
<1> QED
  BY <1>6, <1>15 DEF left, rest

LEMMA MatchesNothing ==
    ASSUME NEW coming, \A j \in DOMAIN coming : ~ coming[j].ack
    PROVE  \E g : Matches(g, << >>, coming)
<1> DEFINE g == [i \in {} |-> i]
<1>1. DOMAIN << >> = {}
  OBVIOUS
<1>2. g \in [{} -> DOMAIN coming]
  OBVIOUS
<1>3. Matches(g, << >>, coming)
  BY <1>1, <1>2 DEF Matches
<1> QED
  BY <1>3

-----------------------------------------------------------------------------
(* Updates on their way.                                                   *)

LEMMA BringsAppended ==
    ASSUME NEW q \in Seq(Update), NEW m \in Update
    PROVE  /\ For(Append(q, m), m.key) # {}
           /\ BringsLast(Append(q, m), m.key, m.rec)
           /\ \A k : k # m.key =>
                /\ For(Append(q, m), k) = For(q, k)
                /\ \A rec : BringsLast(q, k, rec)
                              => BringsLast(Append(q, m), k, rec)
<1> DEFINE new == Append(q, m)
<1>1. Len(q) \in Nat
  BY LenProperties
<1>2. \A k : /\ For(new, k) = For(q, k) \cup
                    (IF m.key = k THEN {Len(q) + 1} ELSE {})
             /\ new[Len(q) + 1] = m
             /\ \A i \in For(q, k) : i \in 1 .. Len(q) /\ new[i] = q[i]
  BY ForAppended
<1> HIDE DEF new
<1>3. For(new, m.key) # {} /\ BringsLast(new, m.key, m.rec)
  <2>1. Len(q) + 1 \in For(new, m.key)
    BY <1>2
  <2>2. \A i \in For(new, m.key) : i \in 1 .. Len(q) \/ i = Len(q) + 1
    BY <1>2
  <2>3. ASSUME NEW i \in For(new, m.key),
               \A j \in For(new, m.key) : j <= i
        PROVE  new[i].rec = m.rec
    <3>1. Len(q) + 1 <= i
      BY <2>1, <2>3
    <3>2. i = Len(q) + 1
      BY <1>1, <2>2, <3>1
    <3> QED
      BY <1>2, <3>2
  <2> QED
    BY <2>1, <2>3 DEF BringsLast
<1>4. ASSUME NEW k, k # m.key
      PROVE  /\ For(new, k) = For(q, k)
             /\ \A rec : BringsLast(q, k, rec) => BringsLast(new, k, rec)
  <2>1. For(new, k) = For(q, k)
    BY <1>2, <1>4
  <2> QED
    BY <1>2, <2>1 DEF BringsLast
<1> QED
  BY <1>3, <1>4 DEF new

LEMMA BringsTail ==
    ASSUME NEW q \in Seq(Update), q # << >>, NEW k
    PROVE  /\ \A rec : BringsLast(q, k, rec) => BringsLast(Tail(q), k, rec)
           /\ For(Tail(q), k) # {} => For(q, k) # {}
           /\ Head(q).key # k => (For(Tail(q), k) = {} <=> For(q, k) = {})
           /\ Head(q).key = k => For(q, k) # {}
           /\ Head(q).key = k /\ For(Tail(q), k) = {} =>
                \A rec : BringsLast(q, k, rec) => Head(q).rec = rec
<1> DEFINE rest == Tail(q)
<1>1. /\ For(rest, k) = {i - 1 : i \in For(q, k) \ {1}}
      /\ \A i \in For(q, k) : i \in 1 .. Len(q)
      /\ \A i \in For(q, k) \ {1} : rest[i - 1] = q[i]
      /\ Head(q) = q[1] /\ 1 \in DOMAIN q
  BY ForTail
<1>2. Len(q) \in Nat
  BY LenProperties
<1> HIDE DEF rest
<1>3. \A i \in For(rest, k) : i \in Int /\ i + 1 \in For(q, k) \ {1}
                              /\ rest[i] = q[i + 1]
  <2> TAKE i \in For(rest, k)
  <2>1. PICK j \in For(q, k) \ {1} : i = j - 1
    BY <1>1
  <2> QED
    BY <1>1, <2>1
<1>4. ASSUME NEW rec, BringsLast(q, k, rec)
      PROVE  BringsLast(rest, k, rec)
  <2> SUFFICES ASSUME NEW i \in For(rest, k),
                      \A j \in For(rest, k) : j <= i
               PROVE  rest[i].rec = rec
    BY DEF BringsLast
  <2>1. i \in Int /\ i + 1 \in For(q, k) /\ i + 1 # 1 /\ rest[i] = q[i + 1]
    BY <1>3
  <2>2. \A j \in For(q, k) : j <= i + 1
    <3> TAKE j \in For(q, k)
    <3>1. CASE j = 1
      BY <1>1, <2>1, <3>1
    <3>2. CASE j # 1
      <4>1. j - 1 \in For(rest, k) /\ j \in Int
        BY <1>1, <3>2
      <4>2. j - 1 <= i
        BY <4>1
      <4> QED
        BY <2>1, <4>1, <4>2
    <3> QED
      BY <3>1, <3>2
  <2> QED
    BY <1>4, <2>1, <2>2 DEF BringsLast
<1>5. Head(q).key = k <=> 1 \in For(q, k)
  BY <1>1 DEF For
<1>6. For(rest, k) = {} <=> For(q, k) \subseteq {1}
  BY <1>1, <1>3
<1>7. ASSUME 1 \in For(q, k), For(q, k) \subseteq {1}, NEW rec,
             BringsLast(q, k, rec)
      PROVE  Head(q).rec = rec
  BY <1>1, <1>7 DEF BringsLast
<1> QED
  BY <1>4, <1>5, <1>6, <1>7 DEF rest

LEMMA SnapshotBrings ==
    ASSUME TypeOK, NEW order \in InKeyOrder(Existing(server))
    PROVE  LET q == SnapshotOf(order)
           IN /\ \A j \in DOMAIN q : ~ q[j].ack
              /\ \A k \in Keys : /\ For(q, k) # {} <=> server[k] # None
                                 /\ \A i \in For(q, k) : q[i].rec = server[k]
<1> DEFINE S == Existing(server)
           n == Cardinality(S)
           q == SnapshotOf(order)
<1>1. S \subseteq Keys /\ IsFiniteSet(S)
  BY KeysAssumption, FS_Subset DEF Existing
<1>2. n \in Nat
  BY <1>1, FS_CardinalityType
<1>3. /\ order \in [1 .. n -> S]
      /\ \A i, j \in 1 .. n : i < j => order[i] < order[j]
  BY DEF InKeyOrder
<1> HIDE DEF n
<1>4. \A i, j \in 1 .. n : order[i] = order[j] => i = j
  <2> SUFFICES ASSUME NEW i \in 1 .. n, NEW j \in 1 .. n, order[i] = order[j],
                      i # j
               PROVE  FALSE
    OBVIOUS
  <2>1. order[i] \in Int /\ order[j] \in Int
    BY <1>1, <1>3, KeysAssumption
  <2>2. i < j \/ j < i
    BY <1>2
  <2> QED
    BY <1>3, <2>1, <2>2
<1>5. order \in Injection(1 .. n, S)
  BY <1>3, <1>4 DEF Injection, IsInjective
<1>6. Cardinality(1 .. n) = n
  BY <1>2, FS_Interval
<1>7. order \in Surjection(1 .. n, S)
  BY <1>1, <1>5, <1>6, FS_Injection DEF n
<1>8. \A k \in S : \E i \in 1 .. n : order[i] = k
  BY <1>7 DEF Surjection
<1>9. /\ DOMAIN q = 1 .. n
      /\ \A i \in 1 .. n : /\ q[i].key = order[i] /\ q[i].ack = FALSE
                           /\ q[i].rec = server[order[i]]
  BY <1>3 DEF SnapshotOf
<1> HIDE DEF q
<1>10. \A k \in Keys : k \in S <=> server[k] # None
  BY DEF Existing
<1> QED
  BY <1>3, <1>8, <1>9, <1>10 DEF For, q

-----------------------------------------------------------------------------
(* The steps.                                                              *)

\* What ServerApply and the console have in common.
LEMMA ToldFollows ==
    ASSUME TypeOK, CacheFollowsServer, NEW k \in Keys, NEW rec \in Record,
           NEW writer, Broadcast(k, rec, writer),
           server' = [server EXCEPT ![k] = rec], UNCHANGED <<view, status>>,
           \A c \in Devices : Running(c) =>
              /\ AcksComing(c)'
              /\ \A key \in Keys \ {k} :
                   For(sending'[c], key) = {} /\ For(unacked'[c], key) = {}
                     => For(sending[c], key) = {} /\ For(unacked[c], key) = {}
    PROVE  CacheFollowsServer'
<1> SUFFICES ASSUME NEW c \in Devices, Running(c), NEW key \in Keys
             PROVE  KeyFollows(c, key)'
  BY DEF CacheFollowsServer, Running
<1> DEFINE m == [key |-> k, rec |-> rec, ack |-> c = writer]
<1>1. down'[c] = Append(down[c], m) /\ down[c] \in Seq(Update) /\ m \in Update
  BY DEF Broadcast, TypeOK, Update
<1>2. m.key = k /\ m.rec = rec
  OBVIOUS
<1> HIDE DEF m
<1>3. KeyFollows(c, key)
  BY DEF CacheFollowsServer
<1>4. view'[c] = view[c]
  OBVIOUS
<1>5. CASE key = k
  <2>1. server'[key] = rec /\ rec # None
    BY <1>5, NoneIsNoRecord DEF TypeOK
  <2>2. For(down'[c], key) # {} /\ BringsLast(down'[c], key, rec)
    BY <1>1, <1>2, <1>5, BringsAppended
  <2> QED
    BY <2>1, <2>2 DEF KeyFollows, Quiet
<1>6. CASE key # k
  <2>1. server'[key] = server[key]
    BY <1>6 DEF TypeOK
  <2>2. /\ For(down'[c], key) = For(down[c], key)
        /\ BringsLast(down'[c], key, server[key])
    BY <1>1, <1>2, <1>3, <1>6, BringsAppended DEF KeyFollows
  <2>3. Quiet(c, key)' => Quiet(c, key)
    BY <1>6, <2>2 DEF Quiet
  <2> QED
    BY <1>3, <1>4, <2>1, <2>2, <2>3 DEF KeyFollows
<1> QED
  BY <1>5, <1>6

\* Devices that a step does not concern.
LEMMA CacheElsewhere ==
    ASSUME CacheFollowsServer, NEW c \in Devices, server' = server,
           view'[c] = view[c], down'[c] = down[c], sending'[c] = sending[c],
           unacked'[c] = unacked[c], status'[c] = "running" => Running(c)
    PROVE  Running(c)' => AcksComing(c)' /\ \A k \in Keys : KeyFollows(c, k)'
BY DEF CacheFollowsServer, Running, AcksComing, KeyFollows, Quiet

LEMMA ConsoleFollows ==
    ASSUME TypeOK, CacheFollowsServer, NEW k \in Keys, NEW info \in Infos,
           ConsoleAdd(k, info) \/ ConsoleEdit(k, info)
    PROVE  CacheFollowsServer'
<1>1. PICK rec \in Record : ConsoleWrites(k, rec)
  <2>1. NewRecord(info) \in Record
    BY NewRecordIsRecord
  <2>2. server[k] # None => [server[k] EXCEPT !.info = info] \in Record
    BY EditedIsRecord DEF TypeOK
  <2> QED
    BY <2>1, <2>2 DEF ConsoleAdd, ConsoleEdit
<1>2. /\ Broadcast(k, rec, None) /\ server' = [server EXCEPT ![k] = rec]
      /\ UNCHANGED <<view, sending, unacked, status>>
  BY <1>1 DEF ConsoleWrites
<1>3. ASSUME NEW c \in Devices, Running(c)
      PROVE  AcksComing(c)'
  <2> DEFINE m == [key |-> k, rec |-> rec, ack |-> c = None]
  <2>1. /\ down'[c] = Append(down[c], m) /\ down[c] \in Seq(Update)
        /\ unacked[c] \in Seq(Write) /\ m \in Update /\ ~ m.ack
    BY <1>2, <1>3, NoneAssumption DEF Broadcast, TypeOK, Update
  <2> HIDE DEF m
  <2>2. PICK f : Matches(f, unacked[c], down[c])
    BY <1>3 DEF CacheFollowsServer, AcksComing
  <2>3. Matches(f, unacked[c], Append(down[c], m))
    BY <2>1, <2>2, MatchesTold
  <2> QED
    BY <1>2, <2>1, <2>3 DEF AcksComing
<1> QED
  BY <1>2, <1>3, ToldFollows

LEMMA ServerApplyFollows ==
    ASSUME TypeOK, CacheFollowsServer, NEW d \in Devices, ServerApply(d)
    PROVE  CacheFollowsServer'
<1> DEFINE w == Head(sending[d])
<1>1. /\ Running(d) /\ sending[d] # << >>
      /\ server' = [server EXCEPT ![w.key] = w.rec]
      /\ unacked' = [unacked EXCEPT ![d] = Append(@, w)]
      /\ Broadcast(w.key, w.rec, d)
      /\ sending' = [sending EXCEPT ![d] = Tail(@)]
      /\ UNCHANGED <<view, status>>
  BY DEF ServerApply
<1>2. sending[d] \in Seq(Write) /\ unacked[d] \in Seq(Write)
  BY DEF TypeOK
<1>3. w \in Write
  BY <1>1, <1>2, HeadTailProperties
<1>4. w.key \in Keys /\ w.rec \in Record
  BY <1>3 DEF Write
<1>5. \A key : w.key # key => /\ For(sending'[d], key) = {}
                                    => For(sending[d], key) = {}
                              /\ For(unacked'[d], key) = For(unacked[d], key)
  <2> TAKE key
  <2> HAVE w.key # key
  <2>1. For(Tail(sending[d]), key) = {i - 1 : i \in For(sending[d], key) \ {1}}
        /\ w = sending[d][1]
    BY <1>1, <1>2, ForTail
  <2>2. 1 \notin For(sending[d], key)
    BY <2>1 DEF For
  <2>3. For(Append(unacked[d], w), key) = For(unacked[d], key) \cup
           (IF w.key = key THEN {Len(unacked[d]) + 1} ELSE {})
    BY <1>2, <1>3, ForAppended
  <2>4. sending'[d] = Tail(sending[d]) /\ unacked'[d] = Append(unacked[d], w)
    BY <1>1 DEF TypeOK
  <2> HIDE DEF w
  <2> QED
    BY <2>1, <2>2, <2>3, <2>4
<1> HIDE DEF w
<1>6. ASSUME NEW c \in Devices, Running(c)
      PROVE  AcksComing(c)'
  <2> DEFINE m == [key |-> w.key, rec |-> w.rec, ack |-> c = d]
  <2>1. /\ down'[c] = Append(down[c], m) /\ down[c] \in Seq(Update)
        /\ unacked[c] \in Seq(Write) /\ m \in Update
        /\ m.key = w.key /\ m.ack = (c = d)
    BY <1>1, <1>4, <1>6 DEF Broadcast, TypeOK, Update
  <2> HIDE DEF m
  <2>2. PICK f : Matches(f, unacked[c], down[c])
    BY <1>6 DEF CacheFollowsServer, AcksComing
  <2>3. CASE c = d
    <3>1. \E g : Matches(g, Append(unacked[c], w), Append(down[c], m))
      BY <1>3, <2>1, <2>2, <2>3, MatchesApplied
    <3>2. unacked'[c] = Append(unacked[c], w)
      BY <1>1, <2>3 DEF TypeOK
    <3> QED
      BY <2>1, <3>1, <3>2 DEF AcksComing
  <2>4. CASE c # d
    <3>1. Matches(f, unacked[c], Append(down[c], m))
      BY <2>1, <2>2, <2>4, MatchesTold
    <3>2. unacked'[c] = unacked[c]
      BY <1>1, <2>4 DEF TypeOK
    <3> QED
      BY <2>1, <3>1, <3>2 DEF AcksComing
  <2> QED
    BY <2>3, <2>4
<1>7. \A c \in Devices \ {d} : sending'[c] = sending[c] /\ unacked'[c] = unacked[c]
  BY <1>1 DEF TypeOK
<1>8. \A c \in Devices, key \in Keys \ {w.key} :
         For(sending'[c], key) = {} /\ For(unacked'[c], key) = {}
           => For(sending[c], key) = {} /\ For(unacked[c], key) = {}
  BY <1>5, <1>7
<1> QED
  BY <1>1, <1>4, <1>6, <1>8, ToldFollows

\* A step of one device that leaves the server alone.
LEMMA CacheOnlyHere ==
    ASSUME TypeOK, CacheFollowsServer, NEW d \in Devices, server' = server,
           \A c \in Devices \ {d} :
              /\ view'[c] = view[c] /\ down'[c] = down[c]
              /\ sending'[c] = sending[c] /\ unacked'[c] = unacked[c]
              /\ status'[c] = status[c],
           Running(d)' => AcksComing(d)' /\ \A k \in Keys : KeyFollows(d, k)'
    PROVE  CacheFollowsServer'
<1> SUFFICES ASSUME NEW c \in Devices
             PROVE  Running(c)' => /\ AcksComing(c)'
                                   /\ \A k \in Keys : KeyFollows(c, k)'
  BY DEF CacheFollowsServer
<1>1. CASE c = d
  BY <1>1
<1>2. CASE c # d
  BY <1>2, CacheElsewhere DEF Running
<1> QED
  BY <1>1, <1>2

\* A write: the place is known to the cache and so to the server.
LEMMA WriteFollows ==
    ASSUME TypeOK, CacheFollowsServer, NEW d \in Devices, Running(d),
           NEW k \in Keys, NEW rec \in Record, view[d][k] # None,
           UpdateChildValues(d, k, rec),
           UNCHANGED <<server, unacked, down, status>>
    PROVE  CacheFollowsServer'
<1> DEFINE w == [key |-> k, rec |-> rec]
<1>1. /\ sending' = [sending EXCEPT ![d] = Append(@, w)]
      /\ view' = [view EXCEPT ![d][k] = rec]
  BY DEF UpdateChildValues, CacheBecomes
<1>2. sending[d] \in Seq(Write) /\ w \in Write /\ w.key = k
  BY DEF TypeOK, Write
<1>3. sending'[d] = Append(sending[d], w)
  BY <1>1 DEF TypeOK
<1> HIDE DEF w
<1>4. \A key : For(sending'[d], key) = For(sending[d], key) \cup
                 (IF w.key = key THEN {Len(sending[d]) + 1} ELSE {})
  BY <1>2, <1>3, ForAppended
<1>5. AcksComing(d)'
  BY DEF CacheFollowsServer, AcksComing
<1>6. ASSUME NEW key \in Keys
      PROVE  KeyFollows(d, key)'
  <2>1. KeyFollows(d, key) /\ KeyFollows(d, k)
    BY DEF CacheFollowsServer
  <2>2. CASE key = k
    <3>1. server[k] # None
      BY <2>1 DEF KeyFollows
    <3>2. ~ Quiet(d, key)'
      BY <1>2, <1>4, <2>2 DEF Quiet
    <3> QED
      BY <2>1, <2>2, <3>1, <3>2 DEF KeyFollows
  <2>3. CASE key # k
    <3>1. view'[d][key] = view[d][key]
      BY <1>1, <2>3 DEF TypeOK
    <3>2. Quiet(d, key)' => Quiet(d, key)
      BY <1>2, <1>4, <2>3 DEF Quiet
    <3> QED
      BY <2>1, <3>1, <3>2 DEF KeyFollows
  <2> QED
    BY <2>2, <2>3
<1>7. \A c \in Devices \ {d} : view'[c] = view[c] /\ sending'[c] = sending[c]
  BY <1>1 DEF TypeOK
<1> QED
  BY <1>5, <1>6, <1>7, CacheOnlyHere

\* Whatever is listed is known to the cache.
LEMMA ListedIsKnown ==
    ASSUME ListFollowsCache, NEW d \in Devices, Running(d), NEW k \in Keys,
           Listed(places[d], k)
    PROVE  view[d][k] # None
BY DEF ListFollowsCache, FollowsOn, FollowsCache, Unheard

LEMMA UsersFollow ==
    ASSUME TypeOK, ListFollowsCache, CacheFollowsServer, NEW d \in Devices,
           \/ \E i \in DOMAIN places[d] : Visit(d, i)
           \/ \E i \in DOMAIN places[d], stars \in RateChoices :
                 RateListed(d, i, stars)
           \/ \E stars \in RateChoices : RateOrphan(d, stars)
    PROVE  CacheFollowsServer'
<1>1. ASSUME NEW i \in DOMAIN places[d], Visit(d, i)
      PROVE  CacheFollowsServer'
  <2> DEFINE p == places[d][i]
             rec == Visited(p.rec, VisitorName(p.rec, auth[d], None))
  <2>1. p.key \in Keys /\ p.rec \in Record
    BY RowIsEntry DEF Entry
  <2>2. rec \in Record
    BY <2>1, NamesAreNames, VisitedIsRecord DEF TypeOK
  <2>3. /\ Running(d) /\ UpdateChildValues(d, p.key, rec)
        /\ UNCHANGED <<server, unacked, down, status>>
    BY <1>1 DEF Visit
  <2>4. view[d][p.key] # None
    BY <2>1, <2>3, ListedIsKnown DEF Listed
  <2> HIDE DEF rec, p
  <2> QED
    BY <2>1, <2>2, <2>3, <2>4, WriteFollows
<1>2. ASSUME NEW i \in DOMAIN places[d], NEW stars \in RateChoices,
             RateListed(d, i, stars)
      PROVE  CacheFollowsServer'
  <2> DEFINE p == places[d][i]
             rec == Rated(p.rec, RaterName(p.rec, auth[d], None), stars)
  <2>1. p.key \in Keys /\ p.rec \in Record
    BY RowIsEntry DEF Entry
  <2>2. rec \in Record
    BY <2>1, NamesAreNames, RatedIsRecord, ChoicesAssumption DEF TypeOK
  <2>3. /\ Running(d) /\ UpdateChildValues(d, p.key, rec)
        /\ UNCHANGED <<server, unacked, down, status>>
    BY <1>2 DEF RateListed
  <2>4. view[d][p.key] # None
    BY <2>1, <2>3, ListedIsKnown DEF Listed
  <2> HIDE DEF rec, p
  <2> QED
    BY <2>1, <2>2, <2>3, <2>4, WriteFollows
<1>3. ASSUME NEW stars \in RateChoices, RateOrphan(d, stars)
      PROVE  CacheFollowsServer'
  <2> DEFINE rec == Rated(orphan[d], RaterName(orphan[d], auth[d], None), stars)
  <2>1. detail[d] \in Keys /\ detail[d] # None /\ orphan[d] \in Record
    BY <1>3 DEF TypeOK, RateOrphan
  <2>2. rec \in Record
    BY <2>1, NamesAreNames, RatedIsRecord, ChoicesAssumption DEF TypeOK
  <2>3. /\ Running(d) /\ UpdateChildValues(d, detail[d], rec)
        /\ UNCHANGED <<server, unacked, down, status>>
    BY <1>3 DEF RateOrphan
  <2>4. Listed(places[d], detail[d])
    BY <2>1, <2>3 DEF ListFollowsCache, FollowsOn
  <2>5. view[d][detail[d]] # None
    BY <2>1, <2>3, <2>4, ListedIsKnown
  <2> HIDE DEF rec
  <2> QED
    BY <2>1, <2>2, <2>3, <2>5, WriteFollows
<1> QED
  BY <1>1, <1>2, <1>3

LEMMA DeliverFollowsServer ==
    ASSUME TypeOK, CacheFollowsServer, NEW d \in Devices, Deliver(d)
    PROVE  CacheFollowsServer'
<1> DEFINE m == Head(down[d])
<1>1. /\ Running(d) /\ down[d] # << >>
      /\ UNCHANGED <<server, sending, status>>
      /\ unacked' = [unacked EXCEPT ![d] =
                       IF m.ack THEN SubSeq(@, 2, Len(@)) ELSE @]
      /\ down' = [down EXCEPT ![d] = Tail(@)]
  BY DEF Deliver
<1>2. down[d] \in Seq(Update) /\ unacked[d] \in Seq(Write)
  BY DEF TypeOK
<1>3. m.key \in Keys /\ m.rec \in Record
  <2>1. m \in Update
    BY <1>1, <1>2, HeadTailProperties
  <2> QED
    BY <2>1 DEF Update
<1>4. down'[d] = Tail(down[d])
  BY <1>1 DEF TypeOK
<1>5. \/ UNCHANGED view /\ Pending(d, m.key)
      \/ view' = [view EXCEPT ![d][m.key] = m.rec]
  BY DEF Deliver, CacheBecomes
<1>6. AcksComing(d)'
  <2>1. PICK f : Matches(f, unacked[d], down[d])
    BY <1>1 DEF CacheFollowsServer, AcksComing
  <2>2. CASE m.ack
    <3>1. /\ unacked[d] # << >>
          /\ \E g : Matches(g, Tail(unacked[d]), Tail(down[d]))
      BY <1>1, <1>2, <2>1, <2>2, MatchesHeadAck
    <3>2. unacked'[d] = Tail(unacked[d])
      BY <1>1, <1>2, <2>2, <3>1, TailIsSubSeq DEF TypeOK
    <3> QED
      BY <1>4, <3>1, <3>2 DEF AcksComing
  <2>3. CASE ~ m.ack
    <3>1. \E g : Matches(g, unacked[d], Tail(down[d]))
      BY <1>1, <1>2, <2>1, <2>3, MatchesHeadTold
    <3>2. unacked'[d] = unacked[d]
      BY <1>1, <2>3 DEF TypeOK
    <3> QED
      BY <1>4, <3>1, <3>2 DEF AcksComing
  <2> QED
    BY <2>2, <2>3
\* What is not acknowledged is answered by an update still to come.
<1>7. \A k : For(unacked'[d], k) # {} => For(down'[d], k) # {}
  <2>1. PICK g : Matches(g, unacked'[d], down'[d])
    BY <1>6 DEF AcksComing
  <2> QED
    BY <2>1 DEF Matches, For
<1>9. ASSUME NEW k \in Keys, m.key # k
      PROVE  For(unacked'[d], k) = {} => For(unacked[d], k) = {}
  <2>1. CASE ~ m.ack
    BY <1>1, <2>1 DEF TypeOK
  <2>2. CASE m.ack
    <3>1. PICK f : Matches(f, unacked[d], down[d])
      BY <1>1 DEF CacheFollowsServer, AcksComing
    <3>2. unacked[d] # << >>
      BY <1>1, <1>2, <2>2, <3>1, MatchesHeadAck
    <3>3. unacked'[d] = Tail(unacked[d])
      BY <1>1, <1>2, <2>2, <3>2, TailIsSubSeq DEF TypeOK
    <3>4. unacked[d][1].key = m.key
      <4>1. /\ 1 \in DOMAIN down[d] /\ m = down[d][1]
            /\ 1 \in DOMAIN unacked[d]
        BY <1>1, <1>2, <3>2, ForTail
      <4>2. PICK i \in DOMAIN unacked[d] : f[i] = 1
        BY <2>2, <3>1, <4>1 DEF Matches
      <4>3. /\ DOMAIN unacked[d] = 1 .. Len(unacked[d])
            /\ DOMAIN down[d] = 1 .. Len(down[d])
        BY <1>2, LenProperties
      <4>4. f[1] \in 1 .. Len(down[d])
        BY <3>1, <4>1, <4>3 DEF Matches
      <4>5. ~ (f[1] < f[i])
        BY <4>2, <4>4
      <4>6. i = 1
        BY <3>1, <4>1, <4>2, <4>3, <4>5 DEF Matches
      <4> QED
        BY <3>1, <4>1, <4>2, <4>6 DEF Matches
    <3>5. For(Tail(unacked[d]), k) = {i - 1 : i \in For(unacked[d], k) \ {1}}
      BY <1>2, <3>2, ForTail
    <3>6. 1 \notin For(unacked[d], k)
      BY <1>9, <3>4 DEF For
    <3> QED
      BY <3>3, <3>5, <3>6
  <2> QED
    BY <2>1, <2>2
<1> HIDE DEF m
<1>10. ASSUME NEW k \in Keys
       PROVE  KeyFollows(d, k)'
  <2>1. KeyFollows(d, k)
    BY <1>1 DEF CacheFollowsServer
  <2>2. /\ BringsLast(down'[d], k, server[k])
        /\ For(down'[d], k) # {} => For(down[d], k) # {}
        /\ m.key # k => (For(down'[d], k) = {} <=> For(down[d], k) = {})
        /\ m.key = k => For(down[d], k) # {}
        /\ m.key = k /\ For(down'[d], k) = {} => m.rec = server[k]
    BY <1>1, <1>2, <1>4, <2>1, BringsTail DEF KeyFollows, m
  <2>3. view'[d][k] # None => view[d][k] # None \/ m.key = k
    BY <1>5 DEF TypeOK
  <2>4. Quiet(d, k)' => view'[d][k] = server[k]
    <3> SUFFICES ASSUME Quiet(d, k)' PROVE view'[d][k] = server[k]
      OBVIOUS
    <3>1. CASE m.key = k
      <4>1. ~ Pending(d, k)
        BY DEF Pending, Quiet, For
      <4>2. view'[d][k] = m.rec
        BY <1>5, <3>1, <4>1 DEF TypeOK
      <4> QED
        BY <2>2, <3>1, <4>2 DEF Quiet
    <3>2. CASE m.key # k
      <4>1. Quiet(d, k)
        BY <1>1, <1>9, <2>2, <3>2 DEF Quiet
      <4>2. view'[d][k] = view[d][k]
        BY <1>5, <3>2 DEF TypeOK
      <4> QED
        BY <2>1, <4>1, <4>2 DEF KeyFollows
    <3> QED
      BY <3>1, <3>2
  <2> QED
    BY <1>1, <2>1, <2>2, <2>3, <2>4 DEF KeyFollows
<1>11. \A c \in Devices \ {d} :
          /\ view'[c] = view[c] /\ down'[c] = down[c]
          /\ unacked'[c] = unacked[c]
  BY <1>1, <1>5 DEF TypeOK
<1> QED
  BY <1>1, <1>6, <1>10, <1>11, CacheOnlyHere

\* A device that is sent everything.
LEMMA SnapshotFollows ==
    ASSUME TypeOK, NEW d \in Devices,
           NEW order \in InKeyOrder(Existing(server)),
           down' = [down EXCEPT ![d] = SnapshotOf(order)],
           unacked'[d] = << >>, server' = server,
           \A k \in Keys : view'[d][k] # None => server[k] # None
    PROVE  AcksComing(d)' /\ \A k \in Keys : KeyFollows(d, k)'
<1> DEFINE q == SnapshotOf(order)
<1>1. /\ \A j \in DOMAIN q : ~ q[j].ack
      /\ \A k \in Keys : /\ For(q, k) # {} <=> server[k] # None
                         /\ \A i \in For(q, k) : q[i].rec = server[k]
  BY SnapshotBrings
<1>2. down'[d] = q
  BY DEF TypeOK
<1> HIDE DEF q
<1>3. AcksComing(d)'
  BY <1>1, <1>2, MatchesNothing DEF AcksComing
<1>4. \A k \in Keys : KeyFollows(d, k)'
  BY <1>1, <1>2 DEF KeyFollows, BringsLast, Quiet
<1> QED
  BY <1>3, <1>4

LEMMA ConnectionFollows ==
    ASSUME TypeOK, OffIsEmpty, CacheFollowsServer, NEW d \in Devices,
           Reconnect(d) \/ Launch(d) \/ Kill(d)
    PROVE  CacheFollowsServer'
<1>1. \A c \in Devices \ {d} :
         /\ view'[c] = view[c] /\ down'[c] = down[c]
         /\ sending'[c] = sending[c] /\ unacked'[c] = unacked[c]
         /\ status'[c] = status[c]
  BY DEF Reconnect, Launch, Kill, TypeOK
<1>2. server' = server
  BY DEF Reconnect, Launch, Kill
<1>3. CASE Reconnect(d)
  <2>1. PICK order \in InKeyOrder(Existing(server)) :
           down' = [down EXCEPT ![d] = SnapshotOf(order)]
    BY <1>3 DEF Reconnect
  <2>2. Running(d) /\ unacked'[d] = << >> /\ view' = view
    BY <1>3 DEF Reconnect, TypeOK
  <2>3. \A k \in Keys : view'[d][k] # None => server[k] # None
    BY <2>2 DEF CacheFollowsServer, KeyFollows
  <2>4. AcksComing(d)' /\ \A k \in Keys : KeyFollows(d, k)'
    BY <1>2, <2>1, <2>2, <2>3, SnapshotFollows
  <2> QED
    BY <1>1, <1>2, <2>4, CacheOnlyHere
<1>4. CASE Launch(d)
  <2>1. PICK order \in InKeyOrder(Existing(server)) :
           down' = [down EXCEPT ![d] = SnapshotOf(order)]
    BY <1>4 DEF Launch
  <2>2. /\ unacked'[d] = << >>
        /\ \A k \in Keys : view'[d][k] # None => server[k] # None
    BY <1>4 DEF Launch, OffIsEmpty
  <2>3. AcksComing(d)' /\ \A k \in Keys : KeyFollows(d, k)'
    BY <1>2, <2>1, <2>2, SnapshotFollows
  <2> QED
    BY <1>1, <1>2, <2>3, CacheOnlyHere
<1>5. CASE Kill(d)
  <2>1. ~ Running(d)'
    BY <1>5 DEF Kill, TypeOK, Running
  <2> QED
    BY <1>1, <1>2, <2>1, CacheOnlyHere
<1> QED
  BY <1>3, <1>4, <1>5

LEMMA CacheFollowsStep ==
    ASSUME TypeOK, OffIsEmpty, ListFollowsCache, CacheFollowsServer,
           [Next]_vars
    PROVE  CacheFollowsServer'
<1>1. ASSUME UNCHANGED <<server, view, sending, unacked, down>>,
             \A c \in Devices : status'[c] = "running" => Running(c)
      PROVE  CacheFollowsServer'
  BY <1>1, CacheElsewhere DEF CacheFollowsServer
<1>2. ASSUME NEW d \in Devices,
             \/ HandleChildAdded(d) \/ HandleChildChanged(d)
             \/ \E i \in DOMAIN places[d] : OpenDetail(d, i)
             \/ CloseDetail(d) \/ OpenMyPlaces(d)
             \/ \E u \in Users : SignIn(d, u)
             \/ SignOut(d)
      PROVE  CacheFollowsServer'
  <2>1. UNCHANGED <<server, view, sending, unacked, down, status>>
    BY <1>2 DEF HandleChildAdded, HandleChildChanged, OpenDetail, CloseDetail,
       OpenMyPlaces, SignIn, SignOut, sdk
  <2> QED
    BY <1>1, <2>1 DEF Running
<1>3. ASSUME NEW d \in Devices, FailCast(d) \/ FailUnwrap(d)
      PROVE  CacheFollowsServer'
  <2>1. /\ UNCHANGED <<server, view, sending, unacked, down>>
        /\ \A c \in Devices : status'[c] = "running" => Running(c)
    BY <1>3 DEF FailCast, FailUnwrap, Trap, Running, TypeOK
  <2> QED
    BY <1>1, <2>1
<1>4. CASE UNCHANGED vars
  <2>1. UNCHANGED <<server, view, sending, unacked, down, status>>
    BY <1>4 DEF vars
  <2> QED
    BY <1>1, <2>1 DEF Running
<1> QED
  BY <1>2, <1>3, <1>4, ConsoleFollows, ServerApplyFollows,
     DeliverFollowsServer, ConnectionFollows, UsersFollow DEF Next, HandleEvent

\* The cache of a running app is the database and the updates on their way,
\* its own writes put on top.
THEOREM CacheIsTold == Spec => []CacheFollowsServer
<1>1. Init => CacheFollowsServer
  BY DEF Init, CacheFollowsServer, Running
<1>2. TypeOK /\ OffIsEmpty /\ ListFollowsCache /\ CacheFollowsServer
        /\ [Next]_vars => CacheFollowsServer'
  BY CacheFollowsStep
<1> QED
  BY <1>1, <1>2, TypeCorrect, ListIsTold, PTL DEF Spec

\* When no write, update or call is on its way, the list that
\* downloadDatabasePlacesData (Places.swift:132-172) has built is the
\* database: nothing that a device wrote or was told stays missing.
THEOREM QuietMeansAgreement == Spec => []QuiescentAgreement
<1>1. TypeOK /\ ListFollowsCache /\ CacheFollowsServer => QuiescentAgreement
  <2> SUFFICES ASSUME TypeOK, ListFollowsCache, CacheFollowsServer,
                      NEW d \in Devices, Running(d),
                      sending[d] = << >>, unacked[d] = << >>,
                      down[d] = << >>, events[d] = << >>
               PROVE  {places[d][i] : i \in DOMAIN places[d]} =
                        {[key |-> k, rec |-> server[k]] : k \in Existing(server)}
    BY DEF QuiescentAgreement
  <2>1. \A k \in Keys : Quiet(d, k)
    BY DEF Quiet, For
  <2>2. \A k \in Keys : view[d][k] = server[k]
    BY <2>1 DEF CacheFollowsServer, KeyFollows
  <2>3. view[d] = server
    BY <2>2 DEF TypeOK
  <2> QED
    BY <2>3, ServedList
<1> QED
  BY <1>1, TypeCorrect, ListIsTold, CacheIsTold, PTL

=============================================================================

-------------------------- MODULE ListScreensProofs ---------------------------
(***************************************************************************)
(* The list that is the delegate shows what it should, for any users,      *)
(* places and registrations of observers; placesUpdated never unwraps a    *)
(* missing user.                                                           *)
(*                                                                         *)
(* The inductive invariant has four parts: the type; who can be the        *)
(* delegate (KnowsInv: My Places only while it is on the stack, and then   *)
(* somebody is signed in); what the list will show once the calls in the   *)
(* main queue have been made (ListFollows); and what the screens have      *)
(* drawn of it (DrawnInv).                                                 *)
(***************************************************************************)
EXTENDS ListScreens, FiniteSetTheorems, SequenceTheorems, TLAPS

DelegateIsOpen == delegate = "my" => myOpen
OpenKnowsUser == myOpen => user # None

KnowsInv == DelegateIsOpen /\ OpenKnowsUser /\ UpdateKnowsUser

-----------------------------------------------------------------------------
(* What the list will show of a place once the calls in the main queue     *)
(* have been made: q is the queue, seen the places of the list.            *)

For(q, k) == {i \in DOMAIN q : q[i].key = k}

\* The first call for the place is one of childAdded.
AddedFirst(q, k) ==
    \E i \in For(q, k) : /\ q[i].type = "added"
                         /\ \A j \in For(q, k) : i <= j

\* The place is listed, or the next call for it will list it.
Heard(q, seen, k) == For(seen, k) # {} \/ AddedFirst(q, k)

Unheard(q, seen, k) == For(seen, k) = {} /\ For(q, k) = {}

\* The last call of childChanged for the place brings content.
ChangesTo(q, k, content) ==
    \E i \in For(q, k) : /\ q[i].type = "changed" /\ q[i].content = content
                         /\ \A j \in For(q, k) : j > i => q[j].type = "added"

\* No call of childChanged waits, and the list shows content or will.
StaysAt(q, seen, k, content) ==
    /\ \A i \in For(q, k) : q[i].type = "added"
    /\ \A i \in For(seen, k) : seen[i].content = content
    /\ For(seen, k) # {} \/ \A i \in For(q, k) : q[i].content = content

Follows(q, seen, k, content) ==
    ChangesTo(q, k, content) \/ StaysAt(q, seen, k, content)

-----------------------------------------------------------------------------
(* The inductive invariant.                                                *)

\* The places of the list, as its objects have them now.
Seen == [i \in DOMAIN list |-> objects[list[i]]]

ListedOnce == \A i, j \in DOMAIN list :
                 objects[list[i]].key = objects[list[j]].key => i = j

FollowsCache(q, seen, cache, gone) ==
    \A k \in Keys :
       IF cache[k] # None \/ k \in gone
       THEN /\ Heard(q, seen, k)
            /\ k \notin gone => Follows(q, seen, k, cache[k])
       ELSE Unheard(q, seen, k)

ListFollows ==
    /\ observers # 0
    /\ ListedOnce
    /\ FollowsCache(events, Seen, view, removed)

\* The rows that a screen has for places never removed are drawn from the
\* objects as they are.
DrawnNow(screen) ==
    \A i \in DOMAIN copy[screen] :
       objects[copy[screen][i]].key \notin removed =>
          rows[screen][i] = CellFor(objects[copy[screen][i]])

RootInv ==
    /\ delegate = "root" => copy["root"] = list
    /\ delegate = "root" /\ events = << >> => DrawnNow("root")

Held(screen) == {copy[screen][i] : i \in DOMAIN copy[screen]}

\* My Places holds objects of the list, each once, and once the queue is
\* served just those that the user has visited.
MyInv ==
    /\ delegate = "my" <=> myOpen
    /\ myOpen =>
          /\ \A i, j \in DOMAIN copy["my"] : copy["my"][i] = copy["my"][j] => i = j
          /\ Held("my") \subseteq {list[i] : i \in DOMAIN list}
    /\ myOpen /\ events = << >> =>
          /\ DrawnNow("my")
          /\ \A i \in DOMAIN list : objects[list[i]].key \notin removed =>
                (list[i] \in Held("my") <=>
                    user \in objects[list[i]].content.visitors)

\* A table has drawn as many rows as there are places in its copy.
SameLength == \A s \in Lists : DOMAIN rows[s] = DOMAIN copy[s]

DrawnInv == SameLength /\ RootInv /\ MyInv

ScreensInv == TypeOK /\ KnowsInv /\ ListFollows /\ DrawnInv

\* What the blocks of the observers do.
LEMMA EventKnowsUser ==
    ASSUME KnowsInv, HandleEvent
    PROVE  KnowsInv'
<1>1. UNCHANGED <<delegate, myOpen, user>>
  BY DEF HandleEvent, HandleChildAdded, HandleChildChanged
<1>2. PICK places, heap : PlacesUpdated(places, heap)
  BY DEF HandleEvent, HandleChildAdded, HandleChildChanged
<1>3. ~ (delegate = "my" /\ user = None)
  BY DEF KnowsInv, DelegateIsOpen, OpenKnowsUser
<1>4. UNCHANGED trap
  BY <1>2, <1>3 DEF PlacesUpdated, Show
<1> QED
  BY <1>1, <1>4 DEF KnowsInv, DelegateIsOpen, OpenKnowsUser, UpdateKnowsUser

LEMMA StepKnowsUser ==
    ASSUME KnowsInv, [Next]_vars
    PROVE  KnowsInv'
<1> USE DEF KnowsInv, DelegateIsOpen, OpenKnowsUser, UpdateKnowsUser
<1>1. CASE UNCHANGED <<delegate, myOpen, user, trap>>
  BY <1>1
<1>2. ASSUME NEW k \in Keys, NEW content \in Content, Receive(k, content)
      PROVE  UNCHANGED <<delegate, myOpen, user, trap>>
  BY <1>2 DEF Receive, screens
<1>12. ASSUME NEW k \in Keys, Remove(k)
      PROVE  UNCHANGED <<delegate, myOpen, user, trap>>
  BY <1>12 DEF Remove, screens
<1>3. CASE HandleEvent
  BY <1>3, EventKnowsUser
<1>4. ASSUME NEW i \in DOMAIN list, Visit(i)
      PROVE  UNCHANGED <<delegate, myOpen, user, trap>>
  BY <1>4 DEF Visit, ChangeAndWrite, screens
<1>5. ASSUME NEW s \in Lists,
             \/ \E i \in DOMAIN copy[s] : Scroll(s, i) \/ TapRow(s, i)
             \/ \E note \in Notes : Rate(s, note)
             \/ CloseDetail(s)
      PROVE  UNCHANGED <<delegate, myOpen, user, trap>>
  BY <1>5 DEF Scroll, TapRow, Rate, ChangeAndWrite, CloseDetail, screens
<1>6. CASE OpenMyPlaces
  BY <1>6 DEF OpenMyPlaces
<1>7. CASE TapMyPlacesSignedOut
  BY <1>7 DEF TapMyPlacesSignedOut, screens
<1>8. CASE CloseMyPlaces
  BY <1>8 DEF CloseMyPlaces
<1>9. ASSUME NEW u \in Users, SignIn(u)
      PROVE  KnowsInv'
  BY <1>9 DEF SignIn, screens
<1>10. CASE SignOut
  BY <1>10 DEF SignOut, screens
<1>11. CASE UNCHANGED vars
  BY <1>11 DEF vars, screens
<1> QED
  BY <1>1, <1>2, <1>3, <1>4, <1>5, <1>6, <1>7, <1>8, <1>9, <1>10, <1>11, <1>12
     DEF Next

\* Places.visitedPlaces (Places.swift:207) is never called by placesUpdated
\* (PlacesViewController.swift:24) without a user: the weak delegate is gone
\* before the Profile screen can sign anybody out.
THEOREM UpdatesKnowTheUser == Spec => []UpdateKnowsUser
<1>1. Init => KnowsInv
  BY DEF Init, KnowsInv, DelegateIsOpen, OpenKnowsUser, UpdateKnowsUser
<1>2. KnowsInv /\ [Next]_vars => KnowsInv'
  BY StepKnowsUser
<1>3. KnowsInv => UpdateKnowsUser
  BY DEF KnowsInv
<1> QED
  BY <1>1, <1>2, <1>3, PTL DEF Spec

-----------------------------------------------------------------------------
(* The queue: what is added at its end, and what is taken from its head.   *)

LEMMA ForJoined ==
    ASSUME NEW S, NEW q \in Seq(S), NEW more \in Seq(S), NEW k
    PROVE  LET new == q \o more
           IN /\ \A i \in For(q, k) : i \in 1 .. Len(q) /\ i \in For(new, k)
                                      /\ new[i] = q[i]
              /\ \A i \in For(more, k) : /\ i \in 1 .. Len(more)
                                         /\ Len(q) + i \in For(new, k)
                                         /\ new[Len(q) + i] = more[i]
              /\ \A i \in For(new, k) : \/ i \in For(q, k)
                                        \/ \E j \in For(more, k) : i = Len(q) + j
<1> DEFINE new == q \o more
<1>1. /\ Len(q) \in Nat /\ DOMAIN q = 1 .. Len(q)
      /\ Len(more) \in Nat /\ DOMAIN more = 1 .. Len(more)
  BY LenProperties
<1>2. /\ new \in Seq(S) /\ Len(new) = Len(q) + Len(more)
      /\ \A i \in 1 .. Len(q) + Len(more) :
            new[i] = IF i <= Len(q) THEN q[i] ELSE more[i - Len(q)]
  BY ConcatProperties
<1>3. DOMAIN new = 1 .. Len(q) + Len(more)
  BY <1>2, LenProperties
<1> HIDE DEF new
<1>4. \A i \in 1 .. Len(q) : new[i] = q[i] /\ i \in DOMAIN new
  BY <1>1, <1>2, <1>3
<1>5. \A i \in 1 .. Len(more) : new[Len(q) + i] = more[i]
                                /\ Len(q) + i \in DOMAIN new
  BY <1>1, <1>2, <1>3
<1>6. ASSUME NEW i \in DOMAIN new
      PROVE  i \in 1 .. Len(q) \/ \E j \in 1 .. Len(more) : i = Len(q) + j
  <2>1. i > Len(q) => i - Len(q) \in 1 .. Len(more) /\ i = Len(q) + (i - Len(q))
    BY <1>1, <1>3
  <2> QED
    BY <1>1, <1>3, <2>1
<1>7. \A i \in For(q, k) : i \in 1 .. Len(q) /\ i \in For(new, k) /\ new[i] = q[i]
  BY <1>1, <1>4 DEF For
<1>8. \A i \in For(more, k) : /\ i \in 1 .. Len(more)
                              /\ Len(q) + i \in For(new, k)
                              /\ new[Len(q) + i] = more[i]
  BY <1>1, <1>5 DEF For
<1>9. ASSUME NEW i \in For(new, k)
      PROVE  i \in For(q, k) \/ \E j \in For(more, k) : i = Len(q) + j
  <2>1. i \in DOMAIN new /\ new[i].key = k
    BY <1>9 DEF For
  <2>2. CASE i \in 1 .. Len(q)
    BY <1>1, <1>4, <2>1, <2>2 DEF For
  <2>3. CASE \E j \in 1 .. Len(more) : i = Len(q) + j
    <3>1. PICK j \in 1 .. Len(more) : i = Len(q) + j
      BY <2>3
    <3>2. j \in For(more, k)
      BY <1>1, <1>5, <2>1, <3>1 DEF For
    <3> QED
      BY <3>1, <3>2
  <2> QED
    BY <1>6, <2>1, <2>2, <2>3
<1> QED
  BY <1>7, <1>8, <1>9 DEF new

\* For one place the rest of a queue is the queue without its head.
IsRest(rest, q, k) ==
    /\ \A i \in For(q, k) :
          i \in Nat /\ (i # 1 => i - 1 \in For(rest, k) /\ rest[i - 1] = q[i])
    /\ \A i \in For(rest, k) :
          i \in Nat /\ i >= 1 /\ i + 1 \in For(q, k) /\ rest[i] = q[i + 1]
    /\ Head(q) = q[1]
    /\ 1 \in For(q, k) <=> Head(q).key = k

LEMMA ForTail ==
    ASSUME NEW S, NEW q \in Seq(S), q # << >>, NEW k
    PROVE  IsRest(Tail(q), q, k)
<1> DEFINE rest == Tail(q)
<1>1. Len(q) \in Nat \ {0} /\ DOMAIN q = 1 .. Len(q) /\ Head(q) = q[1]
  BY LenProperties, EmptySeq
<1>2. /\ rest \in Seq(S) /\ Len(rest) = Len(q) - 1
      /\ \A i \in 1 .. Len(q) - 1 : rest[i] = q[i + 1]
  BY HeadTailProperties
<1>3. DOMAIN rest = 1 .. Len(q) - 1
  BY <1>2, LenProperties
<1> HIDE DEF rest
<1>4. \A i \in DOMAIN rest : i \in Nat /\ i >= 1 /\ i + 1 \in DOMAIN q
                             /\ rest[i] = q[i + 1]
  BY <1>1, <1>2, <1>3
<1>5. ASSUME NEW i \in DOMAIN q, i # 1
      PROVE  i - 1 \in DOMAIN rest /\ rest[i - 1] = q[i]
  <2>1. i - 1 \in 1 .. Len(q) - 1 /\ (i - 1) + 1 = i
    BY <1>1, <1>5
  <2> QED
    BY <1>2, <1>3, <2>1
<1>6. \A i \in For(q, k) : i \in Nat /\ (i # 1 =>
         i - 1 \in For(rest, k) /\ rest[i - 1] = q[i])
  BY <1>1, <1>5 DEF For
<1>7. \A i \in For(rest, k) : /\ i \in Nat /\ i >= 1 /\ i + 1 \in For(q, k)
                              /\ rest[i] = q[i + 1]
  BY <1>4 DEF For
<1>8. 1 \in For(q, k) <=> Head(q).key = k
  BY <1>1 DEF For
<1> QED
  BY <1>1, <1>6, <1>7, <1>8 DEF rest, IsRest

\* A place that has been heard of stays so, whatever calls are added.
LEMMA HeardMore ==
    ASSUME NEW S, NEW q \in Seq(S), NEW more \in Seq(S), NEW seen, NEW k,
           Heard(q, seen, k)
    PROVE  Heard(q \o more, seen, k)
<1> DEFINE new == q \o more
<1>1. /\ \A i \in For(q, k) : i \in 1 .. Len(q) /\ i \in For(new, k)
                              /\ new[i] = q[i]
      /\ \A i \in For(new, k) : \/ i \in For(q, k)
                                \/ \E j \in For(more, k) : i = Len(q) + j
      /\ \A j \in For(more, k) : j \in 1 .. Len(more)
      /\ Len(q) \in Nat /\ Len(more) \in Nat
  BY ForJoined, LenProperties
<1> HIDE DEF new
<1>2. AddedFirst(q, k) => AddedFirst(new, k)
  BY <1>1 DEF AddedFirst
<1> QED
  BY <1>2 DEF Heard, new

LEMMA UnheardMore ==
    ASSUME NEW S, NEW q \in Seq(S), NEW more \in Seq(S), NEW seen, NEW k,
           Unheard(q, seen, k), For(more, k) = {}
    PROVE  Unheard(q \o more, seen, k)
BY ForJoined DEF Unheard

\* Further calls that bring nothing new.
LEMMA FollowsMore ==
    ASSUME NEW S, NEW q \in Seq(S), NEW more \in Seq(S), NEW seen, NEW k,
           NEW content, Follows(q, seen, k, content),
           \A i \in For(more, k) : more[i].type = "added"
                                   /\ more[i].content = content
    PROVE  Follows(q \o more, seen, k, content)
<1> DEFINE new == q \o more
<1>1. /\ \A i \in For(q, k) : i \in 1 .. Len(q) /\ i \in For(new, k)
                              /\ new[i] = q[i]
      /\ Len(q) \in Nat
  BY ForJoined, LenProperties
<1>2. \A i \in For(new, k) : \/ i \in For(q, k)
                             \/ /\ new[i].type = "added"
                                /\ new[i].content = content
  <2>1. /\ \A i \in For(new, k) : \/ i \in For(q, k)
                                  \/ \E j \in For(more, k) : i = Len(q) + j
        /\ \A i \in For(more, k) : new[Len(q) + i] = more[i]
    BY ForJoined
  <2> QED
    BY <2>1
<1> HIDE DEF new
<1>3. ChangesTo(q, k, content) => ChangesTo(new, k, content)
  BY <1>1, <1>2 DEF ChangesTo
<1>4. StaysAt(q, seen, k, content) => StaysAt(new, seen, k, content)
  BY <1>1, <1>2 DEF StaysAt
<1> QED
  BY <1>3, <1>4 DEF Follows, new

\* The calls for a change.
LEMMA FollowsChange ==
    ASSUME NEW S, NEW q \in Seq(S), NEW more \in Seq(S), more # << >>,
           NEW seen, NEW k, NEW content,
           \A i \in DOMAIN more : /\ more[i].key = k /\ more[i].type = "changed"
                                  /\ more[i].content = content
    PROVE  Follows(q \o more, seen, k, content)
<1> DEFINE new == q \o more
           last == Len(more)
<1>1. /\ Len(q) \in Nat /\ DOMAIN more = 1 .. Len(more)
      /\ Len(more) \in Nat \ {0}
  BY LenProperties, EmptySeq
<1>2. last \in For(more, k)
  BY <1>1 DEF For
<1>3. Len(q) + last \in For(new, k) /\ new[Len(q) + last] = more[last]
  BY <1>2, ForJoined
<1>4. \A i \in For(new, k) : i \in Nat /\ i <= Len(q) + last
  <2>1. /\ \A i \in For(new, k) : \/ i \in For(q, k)
                                  \/ \E j \in For(more, k) : i = Len(q) + j
        /\ \A j \in For(more, k) : j \in 1 .. Len(more)
        /\ \A i \in For(q, k) : i \in 1 .. Len(q)
    BY ForJoined
  <2> QED
    BY <1>1, <2>1
<1>5. more[last].type = "changed" /\ more[last].content = content
  BY <1>1
<1> HIDE DEF new
<1>6. ChangesTo(new, k, content)
  BY <1>1, <1>3, <1>4, <1>5 DEF ChangesTo
<1> QED
  BY <1>6 DEF Follows, new

\* The calls for a new place.
LEMMA FollowsAddition ==
    ASSUME NEW S, NEW q \in Seq(S), NEW more \in Seq(S), more # << >>,
           NEW seen, NEW k, NEW content, Unheard(q, seen, k),
           \A i \in DOMAIN more : /\ more[i].key = k /\ more[i].type = "added"
                                  /\ more[i].content = content
    PROVE  Heard(q \o more, seen, k) /\ Follows(q \o more, seen, k, content)
<1> DEFINE new == q \o more
<1>1. /\ Len(q) \in Nat /\ DOMAIN more = 1 .. Len(more)
      /\ Len(more) \in Nat \ {0}
  BY LenProperties, EmptySeq
<1>2. 1 \in For(more, k)
  BY <1>1 DEF For
<1>3. Len(q) + 1 \in For(new, k)
  BY <1>2, ForJoined
<1>4. \A i \in For(new, k) : \E j \in For(more, k) : i = Len(q) + j
  BY ForJoined DEF Unheard
<1>5. \A j \in For(more, k) : j \in 1 .. Len(more) /\ new[Len(q) + j] = more[j]
  BY ForJoined
<1> HIDE DEF new
<1>6. \A i \in For(new, k) : /\ new[i].type = "added" /\ new[i].content = content
                             /\ Len(q) + 1 <= i
  BY <1>1, <1>4, <1>5
<1>7. AddedFirst(new, k)
  BY <1>3, <1>6 DEF AddedFirst
<1>8. StaysAt(new, seen, k, content)
  BY <1>6 DEF StaysAt, Unheard
<1> QED
  BY <1>7, <1>8 DEF Heard, Follows, new

SameRows(seen, new, k) ==
    /\ For(new, k) = For(seen, k)
    /\ \A i \in For(seen, k) : new[i].content = seen[i].content

\* The head of the queue is a call for another place.
LEMMA TailOther ==
    ASSUME NEW S, NEW q \in Seq(S), q # << >>, NEW k, Head(q).key # k,
           NEW seen, NEW new, SameRows(seen, new, k)
    PROVE  /\ Heard(q, seen, k) => Heard(Tail(q), new, k)
           /\ Unheard(q, seen, k) => Unheard(Tail(q), new, k)
           /\ \A content : Follows(q, seen, k, content)
                              => Follows(Tail(q), new, k, content)
<1> DEFINE rest == Tail(q)
<1>0. IsRest(rest, q, k)
  BY ForTail
<1> HIDE DEF rest
<1>1. /\ \A i \in For(q, k) : i \in Nat /\ (i # 1 =>
             i - 1 \in For(rest, k) /\ rest[i - 1] = q[i])
      /\ \A i \in For(rest, k) : /\ i \in Nat /\ i >= 1
                                 /\ i + 1 \in For(q, k)
                                 /\ rest[i] = q[i + 1]
      /\ 1 \notin For(q, k)
  BY <1>0 DEF IsRest
<1>2. \A i \in For(q, k) : /\ i \in Nat /\ i - 1 \in For(rest, k)
                           /\ rest[i - 1] = q[i]
  BY <1>1
<1>3. Heard(q, seen, k) => Heard(rest, new, k)
  BY <1>1, <1>2 DEF Heard, AddedFirst, SameRows
<1>4. Unheard(q, seen, k) => Unheard(rest, new, k)
  BY <1>1 DEF Unheard, SameRows
<1>5. ASSUME NEW content, Follows(q, seen, k, content)
      PROVE  Follows(rest, new, k, content)
  <2>1. CASE ChangesTo(q, k, content)
    <3>1. PICK i \in For(q, k) :
             /\ q[i].type = "changed" /\ q[i].content = content
             /\ \A j \in For(q, k) : j > i => q[j].type = "added"
      BY <2>1 DEF ChangesTo
    <3>2. i \in Nat
      BY <1>1
    <3>3. \A j \in For(rest, k) : j > i - 1 => rest[j].type = "added"
      BY <1>1, <3>1, <3>2
    <3>4. ChangesTo(rest, k, content)
      BY <1>2, <3>1, <3>3 DEF ChangesTo
    <3> QED
      BY <3>4 DEF Follows
  <2>2. CASE StaysAt(q, seen, k, content)
    <3>1. StaysAt(rest, new, k, content)
      BY <1>1, <2>2 DEF StaysAt, SameRows
    <3> QED
      BY <3>1 DEF Follows
  <2> QED
    BY <1>5, <2>1, <2>2 DEF Follows
<1> QED
  BY <1>3, <1>4, <1>5 DEF rest

\* The head is a call of childAdded for the place: it lists the place unless
\* there is a row already.
LEMMA TailAdded ==
    ASSUME NEW S, NEW q \in Seq(S), q # << >>, NEW k, Head(q).key = k,
           Head(q).type = "added", NEW seen, NEW new, For(new, k) # {},
           \/ SameRows(seen, new, k)
           \/ /\ For(seen, k) = {}
              /\ \A i \in For(new, k) : new[i].content = Head(q).content,
           NEW content, Follows(q, seen, k, content)
    PROVE  Follows(Tail(q), new, k, content)
<1> DEFINE rest == Tail(q)
<1>0. IsRest(rest, q, k)
  BY ForTail
<1> HIDE DEF rest
<1>1. /\ \A i \in For(q, k) : i \in Nat /\ (i # 1 =>
             i - 1 \in For(rest, k) /\ rest[i - 1] = q[i])
      /\ \A i \in For(rest, k) : /\ i \in Nat /\ i >= 1
                                 /\ i + 1 \in For(q, k)
                                 /\ rest[i] = q[i + 1]
      /\ 1 \in For(q, k) /\ Head(q) = q[1]
  BY <1>0 DEF IsRest
<1>2. CASE ChangesTo(q, k, content)
  <2>1. PICK i \in For(q, k) :
           /\ q[i].type = "changed" /\ q[i].content = content
           /\ \A j \in For(q, k) : j > i => q[j].type = "added"
    BY <1>2 DEF ChangesTo
  <2>2. i # 1 /\ i \in Nat
    BY <1>1, <2>1
  <2>3. \A j \in For(rest, k) : j > i - 1 => rest[j].type = "added"
    BY <1>1, <2>1, <2>2
  <2>4. ChangesTo(rest, k, content)
    BY <1>1, <2>1, <2>2, <2>3 DEF ChangesTo
  <2> QED
    BY <2>4 DEF Follows, rest
<1>3. CASE StaysAt(q, seen, k, content)
  <2>1. \A i \in For(rest, k) : rest[i].type = "added"
    BY <1>1, <1>3 DEF StaysAt
  <2>2. \A i \in For(new, k) : new[i].content = content
    BY <1>1, <1>3 DEF StaysAt, SameRows
  <2> QED
    BY <2>1, <2>2 DEF StaysAt, Follows, rest
<1> QED
  BY <1>2, <1>3 DEF Follows

\* The head is a call of childChanged for the place, which is listed.
LEMMA ChangedIsListed ==
    ASSUME NEW S, NEW q \in Seq(S), q # << >>, NEW k, Head(q).key = k,
           Head(q).type = "changed", NEW seen, Heard(q, seen, k)
    PROVE  For(seen, k) # {}
<1>1. /\ \A i \in For(q, k) : i \in Nat /\ (i # 1 => i - 1 \in For(Tail(q), k))
      /\ \A i \in For(Tail(q), k) : i >= 1
      /\ 1 \in For(q, k) /\ Head(q) = q[1]
  BY ForTail DEF IsRest
<1>2. ASSUME AddedFirst(q, k) PROVE FALSE
  <2>1. PICK i \in For(q, k) : q[i].type = "added" /\ i <= 1
    BY <1>1, <1>2 DEF AddedFirst
  <2>2. i = 1
    BY <1>1, <2>1
  <2> QED
    BY <1>1, <2>1, <2>2
<1> QED
  BY <1>2 DEF Heard

LEMMA TailChanged ==
    ASSUME NEW S, NEW q \in Seq(S), q # << >>, NEW k, Head(q).key = k,
           Head(q).type = "changed", NEW seen, NEW new, For(new, k) # {},
           \A i \in For(new, k) : new[i].content = Head(q).content,
           NEW content, Follows(q, seen, k, content)
    PROVE  Follows(Tail(q), new, k, content)
<1> DEFINE rest == Tail(q)
<1>0. IsRest(rest, q, k)
  BY ForTail
<1> HIDE DEF rest
<1>1. /\ \A i \in For(q, k) : i \in Nat /\ (i # 1 =>
             i - 1 \in For(rest, k) /\ rest[i - 1] = q[i])
      /\ \A i \in For(rest, k) : /\ i \in Nat /\ i >= 1
                                 /\ i + 1 \in For(q, k)
                                 /\ rest[i] = q[i + 1]
      /\ 1 \in For(q, k) /\ Head(q) = q[1]
  BY <1>0 DEF IsRest
<1>2. ChangesTo(q, k, content)
  BY <1>1 DEF Follows, StaysAt
<1>3. PICK i \in For(q, k) :
         /\ q[i].type = "changed" /\ q[i].content = content
         /\ \A j \in For(q, k) : j > i => q[j].type = "added"
  BY <1>2 DEF ChangesTo
<1>4. i \in Nat
  BY <1>1, <1>3
<1>5. \A j \in For(rest, k) : j > i - 1 => rest[j].type = "added"
  BY <1>1, <1>3, <1>4
<1>6. CASE i = 1
  <2>1. \A j \in For(rest, k) : rest[j].type = "added"
    BY <1>1, <1>5, <1>6
  <2>2. StaysAt(rest, new, k, content)
    BY <1>1, <1>3, <1>6, <2>1 DEF StaysAt
  <2> QED
    BY <2>2 DEF Follows, rest
<1>7. CASE i # 1
  <2>1. ChangesTo(rest, k, content)
    BY <1>1, <1>3, <1>4, <1>5, <1>7 DEF ChangesTo
  <2> QED
    BY <2>1 DEF Follows, rest
<1> QED
  BY <1>6, <1>7

-----------------------------------------------------------------------------
(* Sets of integers in increasing order.                                   *)

LEMMA OrderOnto ==
    ASSUME NEW S \in SUBSET Int, IsFiniteSet(S), NEW order \in InOrder(S)
    PROVE  /\ Cardinality(S) \in Nat
           /\ order \in [1 .. Cardinality(S) -> S]
           /\ \A i, j \in 1 .. Cardinality(S) : order[i] = order[j] => i = j
           /\ \A x \in S : \E i \in 1 .. Cardinality(S) : order[i] = x
<1> DEFINE n == Cardinality(S)
<1>1. n \in Nat
  BY FS_CardinalityType
<1>2. order \in [1 .. n -> S]
      /\ \A i, j \in 1 .. n : i < j => order[i] < order[j]
  BY DEF InOrder
<1>3. IsFiniteSet(1 .. n) /\ Cardinality(1 .. n) = n
  BY <1>1, FS_Interval
<1> HIDE DEF n
<1>4. \A i, j \in 1 .. n : order[i] = order[j] => i = j
  <2> TAKE i, j \in 1 .. n
  <2>1. order[i] \in Int /\ order[j] \in Int
    BY <1>2
  <2>2. (i < j => order[i] < order[j]) /\ (j < i => order[j] < order[i])
    BY <1>2
  <2> QED
    BY <1>1, <2>1, <2>2
<1>5. order \in Injection(1 .. n, S)
  BY <1>2, <1>4 DEF Injection, IsInjective
<1>6. order \in Surjection(1 .. n, S)
  <2>1. Cardinality(1 .. n) = Cardinality(S)
    BY <1>3 DEF n
  <2> QED
    BY <1>5, <2>1, FS_Injection
<1>7. \A x \in S : \E i \in 1 .. n : order[i] = x
  BY <1>6 DEF Surjection
<1> QED
  BY <1>1, <1>2, <1>4, <1>7 DEF n

\* The place of a member in the order is the number of those up to it.
LEMMA OrderExists ==
    ASSUME NEW S \in SUBSET Int, IsFiniteSet(S)
    PROVE  InOrder(S) # {}
<1> DEFINE n == Cardinality(S)
           upTo(x) == {z \in S : z <= x}
           rank == [x \in S |-> Cardinality(upTo(x))]
           order == [i \in 1 .. n |-> CHOOSE x \in S : rank[x] = i]
<1>1. n \in Nat
  BY FS_CardinalityType
<1>2. \A x \in S : /\ IsFiniteSet(upTo(x)) /\ rank[x] \in Nat
                   /\ rank[x] <= n /\ rank[x] # 0
  <2> TAKE x \in S
  <2>1. IsFiniteSet(upTo(x)) /\ Cardinality(upTo(x)) <= n
    BY FS_Subset
  <2>2. x \in upTo(x)
    OBVIOUS
  <2> HIDE DEF upTo
  <2>3. Cardinality(upTo(x)) # 0 /\ Cardinality(upTo(x)) \in Nat
    BY <2>1, <2>2, FS_EmptySet, FS_CardinalityType, Zenon
  <2> QED
    BY <2>1, <2>3
<1>3. ASSUME NEW x \in S, NEW y \in S, x < y
      PROVE  rank[x] < rank[y]
  <2>0. x \in Int /\ y \in Int /\ \A z \in S : z \in Int
    OBVIOUS
  <2>1. upTo(x) \subseteq upTo(y)
    <3>1. \A z \in S : z <= x => z <= y
      BY <1>3, <2>0
    <3> QED
      BY <3>1
  <2>2. y \in upTo(y) /\ y \notin upTo(x)
    BY <1>3, <2>0
  <2>3. IsFiniteSet(upTo(y)) /\ rank[x] \in Nat /\ rank[y] \in Nat
    BY <1>2
  <2> HIDE DEF upTo
  <2>4. Cardinality(upTo(x)) <= Cardinality(upTo(y))
        /\ Cardinality(upTo(x)) # Cardinality(upTo(y))
    BY <2>1, <2>2, <2>3, FS_Subset
  <2> QED
    BY <2>3, <2>4
<1>4. rank \in [S -> 1 .. n]
  <2>1. \A x \in S : rank[x] \in 1 .. n
    BY <1>1, <1>2
  <2> QED
    BY <2>1
<1> HIDE DEF rank
<1>5. \A x, y \in S : rank[x] = rank[y] => x = y
  <2> TAKE x, y \in S
  <2>1. x \in Int /\ y \in Int /\ rank[x] \in Nat /\ rank[y] \in Nat
    BY <1>2
  <2>2. (x < y => rank[x] < rank[y]) /\ (y < x => rank[y] < rank[x])
    BY <1>3
  <2> QED
    BY <2>1, <2>2
<1>6. rank \in Injection(S, 1 .. n)
  BY <1>4, <1>5 DEF Injection, IsInjective
<1>7. IsFiniteSet(1 .. n) /\ Cardinality(1 .. n) = n
  BY <1>1, FS_Interval
<1> HIDE DEF n
<1>8. rank \in Surjection(S, 1 .. n)
  BY <1>6, <1>7, FS_Injection DEF n
<1>9. \A i \in 1 .. n : \E x \in S : rank[x] = i
  BY <1>8 DEF Surjection
<1>10. \A i \in 1 .. n : order[i] \in S /\ rank[order[i]] = i
  BY <1>9
<1>11. order \in [1 .. n -> S]
  BY <1>10
<1> HIDE DEF order
<1>12. ASSUME NEW i \in 1 .. n, NEW j \in 1 .. n, i < j
       PROVE  order[i] < order[j]
  <2>1. order[i] \in S /\ order[j] \in S
        /\ rank[order[i]] = i /\ rank[order[j]] = j
    BY <1>10
  <2>2. /\ order[j] < order[i] => j < i
        /\ order[j] = order[i] => j = i
    BY <1>3, <2>1
  <2>3. \A x \in S : x \in Int
    OBVIOUS
  <2>4. order[i] \in Int /\ order[j] \in Int
    BY <2>1, <2>3
  <2>5. i \in Int /\ j \in Int
    BY <1>1
  <2> QED
    BY <1>12, <2>2, <2>4, <2>5
<1>13. order \in InOrder(S)
  BY <1>11, <1>12 DEF InOrder, n
<1> QED
  BY <1>13

\* visitedPlaces: the places of the list that the user has visited.
LEMMA VisitedPlacesAre ==
    ASSUME NEW S, NEW places \in Seq(S), NEW heap
    PROVE  LET visited == VisitedPlaces(places, heap)
           IN /\ visited \in Seq(S)
              /\ \A i \in DOMAIN visited : \E j \in DOMAIN places :
                    /\ visited[i] = places[j]
                    /\ user \in heap[places[j]].content.visitors
              /\ \A j \in DOMAIN places :
                    user \in heap[places[j]].content.visitors =>
                       \E i \in DOMAIN visited : visited[i] = places[j]
              /\ (\A i, j \in DOMAIN places : places[i] = places[j] => i = j)
                 => \A i, j \in DOMAIN visited :
                       visited[i] = visited[j] => i = j
<1> DEFINE those == {i \in DOMAIN places :
                        user \in heap[places[i]].content.visitors}
           order == CHOOSE o \in InOrder(those) : TRUE
           visited == [i \in DOMAIN order |-> places[order[i]]]
           n == Cardinality(those)
<1>1. Len(places) \in Nat /\ DOMAIN places = 1 .. Len(places)
      /\ \A i \in DOMAIN places : places[i] \in S
  BY LenProperties, ElementOfSeq
<1>2. IsFiniteSet(DOMAIN places)
  BY <1>1, FS_Interval
<1>3. those \in SUBSET Int /\ IsFiniteSet(those)
  BY <1>1, <1>2, FS_Subset
<1>4. those \subseteq DOMAIN places
      /\ \A i \in DOMAIN places :
            i \in those <=> user \in heap[places[i]].content.visitors
  OBVIOUS
<1>5. VisitedPlaces(places, heap) = visited
  BY DEF VisitedPlaces
<1> HIDE DEF those
<1>6. order \in InOrder(those)
  BY <1>3, OrderExists
<1> HIDE DEF order
<1>7. /\ n \in Nat
      /\ order \in [1 .. n -> those]
      /\ \A i, j \in 1 .. n : order[i] = order[j] => i = j
      /\ \A x \in those : \E i \in 1 .. n : order[i] = x
  BY <1>3, <1>6, OrderOnto
<1> HIDE DEF n
<1>8. DOMAIN visited = 1 .. n /\ \A i \in 1 .. n : visited[i] = places[order[i]]
  BY <1>7
<1>9. visited \in Seq(S)
  <2> DEFINE e(i) == places[order[i]]
  <2>1. \A i \in 1 .. n : e(i) \in S
    BY <1>1, <1>4, <1>7
  <2>2. visited = [i \in 1 .. n |-> e(i)]
    BY <1>7
  <2> HIDE DEF e
  <2>3. [i \in 1 .. n |-> e(i)] \in Seq(S)
    BY <1>7, <2>1, IsASeq
  <2> QED
    BY <2>2, <2>3
<1> HIDE DEF visited
<1>10. \A i \in DOMAIN visited : \E j \in DOMAIN places :
          /\ visited[i] = places[j]
          /\ user \in heap[places[j]].content.visitors
  BY <1>4, <1>7, <1>8
<1>11. \A j \in DOMAIN places :
          user \in heap[places[j]].content.visitors =>
             \E i \in DOMAIN visited : visited[i] = places[j]
  <2> SUFFICES ASSUME NEW j \in those
               PROVE  \E i \in DOMAIN visited : visited[i] = places[j]
    BY <1>4
  <2>1. PICK i \in 1 .. n : order[i] = j
    BY <1>7
  <2> QED
    BY <1>8, <2>1
<1>12. (\A i, j \in DOMAIN places : places[i] = places[j] => i = j)
       => \A i, j \in DOMAIN visited : visited[i] = visited[j] => i = j
  BY <1>4, <1>7, <1>8
<1> QED
  BY <1>5, <1>9, <1>10, <1>11, <1>12

-----------------------------------------------------------------------------
(* Types.                                                                  *)

LEMMA NoneIsNone == /\ None \notin Content /\ None \notin Users
                    /\ None \notin Keys /\ None \notin Nat
BY ScreensNoneAssumption

LEMMA HeadIsEvent ==
    ASSUME TypeOK, events # << >>
    PROVE  /\ Head(events) \in Event /\ Tail(events) \in Seq(Event)
           /\ Head(events).type \in {"added", "changed"}
           /\ Head(events).key \in Keys /\ Head(events).content \in Content
<1>1. events \in Seq(Event)
  BY DEF TypeOK
<1>2. Head(events) \in Event /\ Tail(events) \in Seq(Event)
  BY <1>1, HeadTailProperties
<1> QED
  BY <1>2 DEF Event

LEMMA CacheTypes ==
    ASSUME TypeOK, NEW k \in Keys, NEW content \in Content,
           CacheBecomes(k, content)
    PROVE  view' \in [Keys -> Content \cup {None}] /\ events' \in Seq(Event)
<1>1. /\ view' = [view EXCEPT ![k] = content]
      /\ view \in [Keys -> Content \cup {None}] /\ events \in Seq(Event)
      /\ observers \in Nat
  BY DEF TypeOK, CacheBecomes
<1>2. view' \in [Keys -> Content \cup {None}]
  BY <1>1
<1>3. ASSUME NEW type \in {"added", "changed"}
      PROVE  events \o Calls(type, k, content) \in Seq(Event)
  <2> DEFINE call(i) == [type |-> type, key |-> k, content |-> content]
  <2>1. \A i \in 1 .. observers : call(i) \in Event
    BY DEF Event
  <2> HIDE DEF call
  <2>2. [i \in 1 .. observers |-> call(i)] \in Seq(Event)
    BY <1>1, <2>1, IsASeq
  <2>3. Calls(type, k, content) \in Seq(Event)
    BY <2>2 DEF Calls, call
  <2> QED
    BY <1>1, <2>3, ConcatProperties
<1>4. PICK type \in {"added", "changed"} :
         events' = events \o Calls(type, k, content) \/ UNCHANGED events
  BY DEF CacheBecomes
<1> QED
  BY <1>1, <1>2, <1>3, <1>4

LEMMA CellIsRow == ASSUME NEW place \in Place PROVE CellFor(place) \in Row
BY DEF Place, Content, Row, CellFor

LEMMA CellsAreRows ==
    ASSUME NEW heap \in Seq(Place), NEW places \in Seq(DOMAIN heap)
    PROVE  /\ Cells(places, heap) \in Seq(Row)
           /\ DOMAIN Cells(places, heap) = DOMAIN places
           /\ \A i \in DOMAIN places :
                 Cells(places, heap)[i] = CellFor(heap[places[i]])
<1> DEFINE cell(i) == CellFor(heap[places[i]])
<1>1. Len(places) \in Nat /\ DOMAIN places = 1 .. Len(places)
  BY LenProperties
<1>2. \A i \in 1 .. Len(places) : cell(i) \in Row
  <2> TAKE i \in 1 .. Len(places)
  <2>1. places[i] \in DOMAIN heap
    BY ElementOfSeq
  <2>2. heap[places[i]] \in Place
    BY <2>1, LenProperties, ElementOfSeq
  <2> QED
    BY <2>2, CellIsRow
<1>3. Cells(places, heap) = [i \in 1 .. Len(places) |-> cell(i)]
  BY <1>1 DEF Cells
<1> HIDE DEF cell
<1>4. [i \in 1 .. Len(places) |-> cell(i)] \in Seq(Row)
  BY <1>1, <1>2, IsASeq
<1> QED
  BY <1>1, <1>3, <1>4 DEF cell

\* A heap that has all objects of the present one.
Larger(heap) == heap \in Seq(Place) /\ Objects \subseteq DOMAIN heap

LEMMA LargerHolds ==
    ASSUME TypeOK, NEW heap, Larger(heap)
    PROVE  /\ list \in Seq(DOMAIN heap)
           /\ copy \in [Lists -> Seq(DOMAIN heap)]
           /\ detail \in [Lists -> DOMAIN heap \cup {None}]
<1>1. \A s \in Seq(Objects) : s \in Seq(DOMAIN heap)
  BY SeqMonotonic DEF Larger
<1> QED
  BY <1>1 DEF TypeOK, Larger

LEMMA PlacesUpdatedTypes ==
    ASSUME TypeOK, NEW heap, Larger(heap), NEW places \in Seq(DOMAIN heap),
           PlacesUpdated(places, heap)
    PROVE  /\ copy' \in [Lists -> Seq(DOMAIN heap)]
           /\ rows' \in [Lists -> Seq(Row)]
           /\ shown' \in [Lists -> BOOLEAN]
           /\ trap' \in {"no", "tapped", "placesUpdated"}
<1>1. /\ copy \in [Lists -> Seq(DOMAIN heap)] /\ heap \in Seq(Place)
      /\ rows \in [Lists -> Seq(Row)] /\ shown \in [Lists -> BOOLEAN]
      /\ trap \in {"no", "tapped", "placesUpdated"}
  BY LargerHolds DEF TypeOK, Larger
<1>2. ASSUME NEW screen \in Lists, NEW these \in Seq(DOMAIN heap),
             Show(screen, these, heap)
      PROVE  /\ copy' \in [Lists -> Seq(DOMAIN heap)]
             /\ rows' \in [Lists -> Seq(Row)]
             /\ shown' \in [Lists -> BOOLEAN]
             /\ trap' = trap
  <2>1. Cells(these, heap) \in Seq(Row)
    BY <1>1, CellsAreRows
  <2> QED
    BY <1>1, <1>2, <2>1 DEF Show
<1>3. VisitedPlaces(places, heap) \in Seq(DOMAIN heap)
  BY VisitedPlacesAre
<1>4. "root" \in Lists /\ "my" \in Lists
  BY DEF Lists
<1> QED
  BY <1>1, <1>2, <1>3, <1>4 DEF PlacesUpdated

\* An object is made.
LEMMA MadeObject ==
    ASSUME TypeOK, NEW place \in Place
    PROVE  LET heap == Append(objects, place)
               o == Len(objects) + 1
           IN /\ Larger(heap)
              /\ o \in DOMAIN heap \ Objects /\ heap[o] = place
              /\ DOMAIN heap = Objects \cup {o}
              /\ \A i \in Objects : heap[i] = objects[i]
<1> DEFINE heap == Append(objects, place)
           o == Len(objects) + 1
<1>1. objects \in Seq(Place)
  BY DEF TypeOK
<1>2. Len(objects) \in Nat /\ Objects = 1 .. Len(objects)
  BY <1>1, LenProperties DEF Objects
<1>3. /\ heap \in Seq(Place) /\ Len(heap) = o /\ heap[o] = place
      /\ \A i \in 1 .. Len(objects) : heap[i] = objects[i]
  BY <1>1, AppendProperties
<1>4. DOMAIN heap = 1 .. o
  BY <1>3, LenProperties
<1> HIDE DEF heap
<1> QED
  BY <1>2, <1>3, <1>4 DEF Larger, heap

\* An object is changed.
LEMMA ChangedObject ==
    ASSUME TypeOK, NEW o \in Objects, NEW content \in Content
    PROVE  LET heap == [objects EXCEPT ![o].content = content]
           IN /\ Larger(heap) /\ DOMAIN heap = Objects
              /\ \A i \in Objects :
                    /\ heap[i].key = objects[i].key
                    /\ i # o => heap[i] = objects[i]
              /\ heap[o].content = content
<1> DEFINE heap == [objects EXCEPT ![o].content = content]
           place == [objects[o] EXCEPT !.content = content]
<1>1. objects \in Seq(Place)
  BY DEF TypeOK
<1>2. Len(objects) \in Nat /\ Objects = 1 .. Len(objects)
      /\ objects \in [1 .. Len(objects) -> Place]
  BY <1>1, LenProperties DEF Objects
<1>3. objects[o] \in Place
  BY <1>2
<1>4. place \in Place /\ place.key = objects[o].key /\ place.content = content
  BY <1>3 DEF Place
<1>5. heap = [objects EXCEPT ![o] = place]
  BY <1>2
<1> HIDE DEF place
<1>6. heap \in Seq(Place) /\ Len(heap) = Len(objects)
  BY <1>1, <1>2, <1>4, <1>5, ExceptSeq
<1>7. DOMAIN heap = Objects
      /\ \A i \in Objects : heap[i] = IF i = o THEN place ELSE objects[i]
  BY <1>2, <1>5
<1> HIDE DEF heap
<1> QED
  BY <1>4, <1>6, <1>7 DEF Larger, heap

LEMMA ObjectIsPlace ==
    ASSUME TypeOK, NEW o \in Objects
    PROVE  /\ objects[o] \in Place
           /\ objects[o].key \in Keys /\ objects[o].content \in Content
<1>1. objects[o] \in Place
  BY LenProperties, ElementOfSeq DEF TypeOK, Objects
<1> QED
  BY <1>1 DEF Place

LEMMA ListedIsObject ==
    ASSUME TypeOK, NEW i \in DOMAIN list
    PROVE  /\ list[i] \in Objects /\ i \in Nat
           /\ objects[list[i]].key \in Keys
           /\ objects[list[i]].content \in Content
<1>1. list[i] \in Objects /\ i \in Nat
  BY LenProperties, ElementOfSeq DEF TypeOK
<1> QED
  BY <1>1, ObjectIsPlace

LEMMA CopiedIsObject ==
    ASSUME TypeOK, NEW s \in Lists, NEW i \in DOMAIN copy[s]
    PROVE  copy[s][i] \in Objects
BY LenProperties, ElementOfSeq DEF TypeOK

\* The list after a call of an observer's block.
LEMMA AddedTypes ==
    ASSUME TypeOK, HandleChildAdded
    PROVE  Larger(objects') /\ list' \in Seq(DOMAIN objects')
<1>1. CASE UNCHANGED <<objects, list>>
  BY <1>1 DEF TypeOK, Larger, Objects
<1>2. CASE ~ UNCHANGED <<objects, list>>
  <2> DEFINE place == [key |-> Head(events).key, content |-> Head(events).content]
             o == Len(objects) + 1
  <2>1. /\ objects' = Append(objects, place) /\ list' = Append(list, o)
        /\ events # << >>
    BY <1>2 DEF HandleChildAdded
  <2>2. place \in Place
    BY <2>1, HeadIsEvent DEF Place
  <2> HIDE DEF place
  <2>3. Larger(objects') /\ o \in DOMAIN objects'
    BY <2>1, <2>2, MadeObject
  <2>4. list \in Seq(DOMAIN objects')
    BY <2>3, LargerHolds
  <2> QED
    BY <2>1, <2>3, <2>4, AppendProperties
<1> QED
  BY <1>1, <1>2

LEMMA ChangedTypes ==
    ASSUME TypeOK, HandleChildChanged
    PROVE  Larger(objects') /\ list' \in Seq(DOMAIN objects')
<1> DEFINE place == [key |-> Head(events).key, content |-> Head(events).content]
           k == Head(events).key
           row(i) == IF /\ objects[list[i]].key = k
                        /\ \A j \in 1 .. i - 1 : objects[list[j]].key # k
                     THEN Len(objects) + 1 ELSE list[i]
<1>1. /\ objects' = Append(objects, place) /\ list' = Replaced(k)
      /\ events # << >>
  BY DEF HandleChildChanged
<1>2. place \in Place
  BY <1>1, HeadIsEvent DEF Place
<1> HIDE DEF place, k
<1>3. /\ Larger(objects') /\ Len(objects) + 1 \in DOMAIN objects'
  BY <1>1, <1>2, MadeObject
<1>4. Len(list) \in Nat /\ DOMAIN list = 1 .. Len(list)
  BY LenProperties DEF TypeOK
<1>5. \A i \in 1 .. Len(list) : row(i) \in DOMAIN objects'
  BY <1>3, <1>4, ListedIsObject DEF Larger
<1>6. list' = [i \in 1 .. Len(list) |-> row(i)]
  BY <1>1, <1>4 DEF Replaced
<1> HIDE DEF row
<1>7. [i \in 1 .. Len(list) |-> row(i)] \in Seq(DOMAIN objects')
  BY <1>4, <1>5, IsASeq
<1> QED
  BY <1>3, <1>6, <1>7

LEMMA EventTypes ==
    ASSUME TypeOK, HandleEvent
    PROVE  TypeOK'
<1>1. /\ Larger(objects') /\ list' \in Seq(DOMAIN objects')
      /\ PlacesUpdated(list', objects')
      /\ events' = Tail(events) /\ events # << >>
      /\ UNCHANGED <<view, observers, delegate, myOpen, detail, user, writes,
                     updates, removed>>
  BY AddedTypes, ChangedTypes
     DEF HandleEvent, HandleChildAdded, HandleChildChanged
<1>2. /\ copy' \in [Lists -> Seq(DOMAIN objects')]
      /\ rows' \in [Lists -> Seq(Row)]
      /\ shown' \in [Lists -> BOOLEAN]
      /\ trap' \in {"no", "tapped", "placesUpdated"}
  BY <1>1, PlacesUpdatedTypes
<1>3. events' \in Seq(Event)
  BY <1>1, HeadIsEvent
<1>4. detail' \in [Lists -> DOMAIN objects' \cup {None}]
  BY <1>1, LargerHolds
<1> QED
  BY <1>1, <1>2, <1>3, <1>4 DEF TypeOK, Larger, Objects

LEMMA ReceiveTypes ==
    ASSUME TypeOK, NEW k \in Keys, NEW content \in Content, Receive(k, content)
    PROVE  TypeOK'
<1>1. view' \in [Keys -> Content \cup {None}] /\ events' \in Seq(Event)
  BY CacheTypes DEF Receive
<1> QED
  BY <1>1 DEF Receive, TypeOK, screens, Objects

LEMMA RemoveTypes ==
    ASSUME TypeOK, NEW k \in Keys, Remove(k)
    PROVE  TypeOK'
BY DEF Remove, TypeOK, screens, Objects

LEMMA WriteTypes ==
    ASSUME TypeOK, NEW o \in Objects, NEW content \in Content,
           ChangeAndWrite(o, content)
    PROVE  TypeOK'
<1>1. view' \in [Keys -> Content \cup {None}] /\ events' \in Seq(Event)
  BY ObjectIsPlace, CacheTypes DEF ChangeAndWrite
<1>2. Larger(objects') /\ DOMAIN objects' = Objects
  BY ChangedObject DEF ChangeAndWrite
<1> QED
  BY <1>1, <1>2 DEF ChangeAndWrite, TypeOK, screens, Objects, Larger

\* What Places.visit and Places.rate write.
LEMMA VisitWrites ==
    ASSUME TypeOK, NEW i \in DOMAIN list, Visit(i)
    PROVE  \E o \in Objects, content \in Content : ChangeAndWrite(o, content)
<1> DEFINE content == objects[list[i]].content
           new == [content EXCEPT !.visitors = @ \cup ({user} \ {None})]
<1>1. content \in Content /\ list[i] \in Objects
  BY ListedIsObject
<1>2. {user} \ {None} \subseteq Users
  BY DEF TypeOK, People
<1>3. ChangeAndWrite(list[i], new)
  BY DEF Visit
<1> HIDE DEF content
<1>4. new \in Content
  BY <1>1, <1>2 DEF Content
<1> HIDE DEF new
<1> QED
  BY <1>1, <1>3, <1>4

LEMMA RateWrites ==
    ASSUME TypeOK, NEW s \in Lists, NEW note \in Notes, Rate(s, note)
    PROVE  \E o \in Objects, content \in Content : ChangeAndWrite(o, content)
<1> DEFINE o == detail[s]
           new == [objects[o].content EXCEPT !.note = note]
<1>1. o \in Objects
  BY DEF Rate, TypeOK
<1>2. ChangeAndWrite(o, new)
  BY DEF Rate
<1> HIDE DEF o
<1>3. new \in Content
  BY <1>1, ObjectIsPlace DEF Content
<1> HIDE DEF new
<1> QED
  BY <1>1, <1>2, <1>3

LEMMA OpenTypes ==
    ASSUME TypeOK, OpenMyPlaces
    PROVE  TypeOK'
<1> DEFINE visited == VisitedPlaces(list, objects)
<1>1. /\ objects \in Seq(Place) /\ list \in Seq(DOMAIN objects)
      /\ events \in Seq(Event) /\ view \in [Keys -> Content \cup {None}]
  BY DEF TypeOK, Objects
<1>2. visited \in Seq(DOMAIN objects) /\ Cells(visited, objects) \in Seq(Row)
  BY <1>1, VisitedPlacesAre, CellsAreRows
<1> HIDE DEF visited
<1>3. /\ copy' = [copy EXCEPT !["my"] = visited]
      /\ rows' = [rows EXCEPT !["my"] = Cells(visited, objects)]
      /\ shown' = [shown EXCEPT !["my"] = FALSE]
      /\ delegate' = "my" /\ myOpen' = TRUE
      /\ observers' = observers + 1
      /\ UNCHANGED <<view, objects, list, detail, user, trap, writes, updates,
                     removed>>
  BY DEF OpenMyPlaces, Load, visited
<1>4. "my" \in Lists
  BY DEF Lists
<1>5. /\ copy' \in [Lists -> Seq(Objects)] /\ rows' \in [Lists -> Seq(Row)]
      /\ shown' \in [Lists -> BOOLEAN]
  BY <1>2, <1>3, <1>4 DEF TypeOK, Objects
<1>6. events' \in Seq(Event)
  <2>1. PICK order \in InOrder(Existing) :
           events' = events \o [i \in DOMAIN order |->
                                  [type |-> "added", key |-> order[i],
                                   content |-> view[order[i]]]]
    BY DEF OpenMyPlaces
  <2> DEFINE call(i) == [type |-> "added", key |-> order[i],
                         content |-> view[order[i]]]
             n == Cardinality(Existing)
  <2>2. Existing \in SUBSET Int /\ IsFiniteSet(Existing)
    BY ScreensKeysAssumption, FS_Subset DEF Existing
  <2>3. n \in Nat /\ order \in [1 .. n -> Existing]
    BY <2>2, OrderOnto
  <2> HIDE DEF n
  <2>4. \A i \in 1 .. n : call(i) \in Event
    BY <1>1, <2>3 DEF Existing, Event
  <2>5. events' = events \o [i \in 1 .. n |-> call(i)]
    BY <2>1, <2>3
  <2> HIDE DEF call
  <2>6. [i \in 1 .. n |-> call(i)] \in Seq(Event)
    BY <2>3, <2>4, IsASeq
  <2> QED
    BY <1>1, <2>5, <2>6, ConcatProperties
<1> QED
  BY <1>3, <1>5, <1>6 DEF TypeOK, Objects, Lists

LEMMA ScrollTypes ==
    ASSUME TypeOK, NEW s \in Lists, NEW i \in DOMAIN copy[s], Scroll(s, i)
    PROVE  TypeOK'
<1>1. CellFor(objects[copy[s][i]]) \in Row
  BY CopiedIsObject, ObjectIsPlace, CellIsRow
<1>2. rows' = [rows EXCEPT ![s] = [rows[s] EXCEPT ![i] = CellFor(objects[copy[s][i]])]]
  BY DEF Scroll, TypeOK
<1>3. [rows[s] EXCEPT ![i] = CellFor(objects[copy[s][i]])] \in Seq(Row)
  <2>1. rows[s] \in Seq(Row)
    BY DEF TypeOK
  <2>2. Len(rows[s]) \in Nat /\ DOMAIN rows[s] = 1 .. Len(rows[s])
        /\ rows[s] \in [1 .. Len(rows[s]) -> Row]
    BY <2>1, LenProperties
  <2>3. CASE i \in 1 .. Len(rows[s])
    BY <1>1, <2>1, <2>3, ExceptSeq
  <2>4. CASE i \notin 1 .. Len(rows[s])
    <3>1. [rows[s] EXCEPT ![i] = CellFor(objects[copy[s][i]])] = rows[s]
      BY <2>2, <2>4
    <3> QED
      BY <2>1, <3>1
  <2> QED
    BY <2>3, <2>4
<1>4. rows' \in [Lists -> Seq(Row)]
  BY <1>2, <1>3 DEF TypeOK
<1> QED
  BY <1>4 DEF Scroll, TypeOK, Objects

LEMMA ScreenTypes ==
    ASSUME TypeOK, NEW s \in Lists,
           \/ \E i \in DOMAIN copy[s] : TapRow(s, i)
           \/ CloseDetail(s)
    PROVE  TypeOK'
<1>1. \A i \in DOMAIN copy[s] : copy[s][i] \in Objects
  BY CopiedIsObject
<1>2. CASE \E i \in DOMAIN copy[s] : TapRow(s, i)
  BY <1>1, <1>2 DEF TapRow, TypeOK, Objects
<1>3. CASE CloseDetail(s)
  BY <1>3 DEF CloseDetail, TypeOK, Objects
<1> QED
  BY <1>2, <1>3

LEMMA CloseTypes == ASSUME TypeOK, CloseMyPlaces PROVE TypeOK'
<1>1. << >> \in Seq(Objects) /\ << >> \in Seq(Row) /\ "my" \in Lists
  BY EmptySeq DEF Lists
<1>2. copy' \in [Lists -> Seq(Objects)] /\ rows' \in [Lists -> Seq(Row)]
  BY <1>1 DEF CloseMyPlaces, TypeOK
<1>3. /\ shown' \in [Lists -> BOOLEAN] /\ detail' \in [Lists -> Objects \cup {None}]
      /\ delegate' \in Lists \cup {"none"}
  BY <1>1 DEF CloseMyPlaces, TypeOK
<1> QED
  BY <1>2, <1>3 DEF CloseMyPlaces, TypeOK, Objects

LEMMA UserTypes ==
    ASSUME TypeOK,
           TapMyPlacesSignedOut \/ (\E u \in Users : SignIn(u)) \/ SignOut
    PROVE  TypeOK'
BY DEF TapMyPlacesSignedOut, SignIn, SignOut, screens, TypeOK, People, Objects

LEMMA StepTypes == TypeOK /\ [Next]_vars => TypeOK'
<1> SUFFICES ASSUME TypeOK, [Next]_vars PROVE TypeOK'
  OBVIOUS
<1>1. ASSUME NEW k \in Keys, Remove(k) PROVE TypeOK'
  BY <1>1, RemoveTypes
<1>2. ASSUME NEW k \in Keys, NEW content \in Content, Receive(k, content)
      PROVE  TypeOK'
  BY <1>2, ReceiveTypes
<1>3. CASE HandleEvent
  BY <1>3, EventTypes
<1>4. ASSUME NEW i \in DOMAIN list, Visit(i) PROVE TypeOK'
  BY <1>4, VisitWrites, WriteTypes
<1>5. ASSUME NEW s \in Lists, NEW i \in DOMAIN copy[s], Scroll(s, i)
      PROVE  TypeOK'
  BY <1>5, ScrollTypes
<1>6. ASSUME NEW s \in Lists, NEW i \in DOMAIN copy[s], TapRow(s, i)
      PROVE  TypeOK'
  BY <1>6, ScreenTypes
<1>7. ASSUME NEW s \in Lists, NEW note \in Notes, Rate(s, note) PROVE TypeOK'
  BY <1>7, RateWrites, WriteTypes
<1>8. ASSUME NEW s \in Lists, CloseDetail(s) PROVE TypeOK'
  BY <1>8, ScreenTypes
<1>9. CASE OpenMyPlaces
  BY <1>9, OpenTypes
<1>10. CASE CloseMyPlaces
  BY <1>10, CloseTypes
<1>11. CASE TapMyPlacesSignedOut \/ (\E u \in Users : SignIn(u)) \/ SignOut
  BY <1>11, UserTypes
<1>12. CASE UNCHANGED vars
  BY <1>12 DEF vars, screens, TypeOK, Objects
<1> QED
  BY <1>1, <1>2, <1>3, <1>4, <1>5, <1>6, <1>7, <1>8, <1>9, <1>10, <1>11, <1>12
     DEF Next

LEMMA InitTypes == Init => TypeOK
<1> SUFFICES ASSUME Init PROVE TypeOK
  OBVIOUS
<1>1. << >> \in Seq(Objects) /\ << >> \in Seq(Row) /\ << >> \in Seq(Event)
      /\ << >> \in Seq(Place)
  BY EmptySeq
<1> QED
  BY <1>1 DEF Init, TypeOK, Lists, People

\* Every reference of a list, a screen or a detail screen is to an object that
\* exists, and every row drawn is the cell of a place (Places.swift:136-172,
\* PlacesViewController.swift:20-155).
THEOREM ScreensTypeCorrect == Spec => []TypeOK
BY InitTypes, StepTypes, PTL DEF Spec

-----------------------------------------------------------------------------
(* The list follows the cache.                                             *)

RowsBecome(seen, new, k, content) ==
    /\ \A key \in Keys \ {k} : SameRows(seen, new, key)
    /\ For(new, k) = For(seen, k)
    /\ SameRows(seen, new, k) \/ \A i \in For(new, k) : new[i].content = content

LEMMA SameRowsFollow ==
    ASSUME NEW q, NEW seen, NEW new, NEW k, SameRows(seen, new, k)
    PROVE  /\ Heard(q, seen, k) => Heard(q, new, k)
           /\ Unheard(q, seen, k) => Unheard(q, new, k)
           /\ \A content : Follows(q, seen, k, content)
                              => Follows(q, new, k, content)
BY DEF SameRows, Heard, Unheard, Follows, StaysAt

LEMMA CallsFor ==
    ASSUME TypeOK, observers # 0, NEW type \in {"added", "changed"},
           NEW k \in Keys, NEW content \in Content
    PROVE  LET calls == Calls(type, k, content)
           IN /\ calls \in Seq(Event) /\ calls # << >>
              /\ \A i \in DOMAIN calls : /\ calls[i].key = k
                                         /\ calls[i].type = type
                                         /\ calls[i].content = content
<1> DEFINE call(i) == [type |-> type, key |-> k, content |-> content]
           calls == Calls(type, k, content)
<1>1. observers \in Nat \ {0}
  BY DEF TypeOK
<1>2. \A i \in 1 .. observers : call(i) \in Event
  BY DEF Event
<1> HIDE DEF call
<1>3. [i \in 1 .. observers |-> call(i)] \in Seq(Event)
  BY <1>1, <1>2, IsASeq
<1>4. calls = [i \in 1 .. observers |-> call(i)]
  BY DEF Calls, call
<1>5. DOMAIN calls = 1 .. observers /\ \A i \in 1 .. observers : calls[i] = call(i)
  BY <1>4
<1> HIDE DEF calls
<1>6. calls # << >>
  BY <1>1, <1>5
<1> QED
  BY <1>3, <1>4, <1>5, <1>6 DEF call, calls

\* A content comes into the cache, and perhaps into the rows of its place.
LEMMA BecomesFollows ==
    ASSUME TypeOK, ListFollows, NEW k \in Keys, NEW content \in Content,
           CacheBecomes(k, content), NEW new, RowsBecome(Seen, new, k, content)
    PROVE  FollowsCache(events', new, view', removed)
<1> DEFINE type == IF view[k] = None THEN "added" ELSE "changed"
           calls == Calls(type, k, content)
<1>1. /\ view' = [view EXCEPT ![k] = content]
      /\ view \in [Keys -> Content \cup {None}] /\ content # None
      /\ events \in Seq(Event)
      /\ \/ events' = events \o calls
         \/ view[k] = content /\ events' = events
  <2>1. view \in [Keys -> Content \cup {None}] /\ events \in Seq(Event)
    BY DEF TypeOK
  <2>2. content # None
    BY NoneIsNone
  <2>3. view' = [view EXCEPT ![k] = content]
    BY DEF CacheBecomes
  <2>4. \/ events' = events \o calls
        \/ view[k] = content /\ events' = events
    BY DEF CacheBecomes
  <2> QED
    BY <2>1, <2>2, <2>3, <2>4
<1>2. FollowsCache(events, Seen, view, removed) /\ observers # 0
  BY DEF ListFollows
<1>3. /\ calls \in Seq(Event) /\ calls # << >>
      /\ \A i \in DOMAIN calls : /\ calls[i].key = k
                                 /\ calls[i].type = type
                                 /\ calls[i].content = content
  BY <1>2, CallsFor
<1> HIDE DEF calls, type
<1>4. \A key : key # k => For(calls, key) = {}
  BY <1>3 DEF For
<1>5. ASSUME NEW key \in Keys \ {k}
      PROVE  IF view'[key] # None \/ key \in removed
             THEN /\ Heard(events', new, key)
                  /\ key \notin removed => Follows(events', new, key, view'[key])
             ELSE Unheard(events', new, key)
  <2>1. view'[key] = view[key] /\ For(calls, key) = {}
    BY <1>1, <1>4
  <2>2. SameRows(Seen, new, key)
    BY DEF RowsBecome
  <2>3. Heard(events, Seen, key) => Heard(events', new, key)
    <3>1. Heard(events, Seen, key) => Heard(events \o calls, Seen, key)
      BY <1>1, <1>3, HeardMore
    <3>2. Heard(events, Seen, key) => Heard(events', Seen, key)
      BY <1>1, <3>1
    <3> QED
      BY <2>2, <3>2, SameRowsFollow
  <2>4. Unheard(events, Seen, key) => Unheard(events', new, key)
    <3>1. Unheard(events, Seen, key) => Unheard(events \o calls, Seen, key)
      BY <1>1, <1>3, <2>1, UnheardMore
    <3>2. Unheard(events, Seen, key) => Unheard(events', Seen, key)
      BY <1>1, <3>1
    <3> QED
      BY <2>2, <3>2, SameRowsFollow
  <2>5. ASSUME Follows(events, Seen, key, view[key])
        PROVE  Follows(events', new, key, view[key])
    <3>1. Follows(events \o calls, Seen, key, view[key])
      BY <1>1, <1>3, <2>1, <2>5, FollowsMore
    <3>2. Follows(events', Seen, key, view[key])
      BY <1>1, <2>5, <3>1
    <3> QED
      BY <2>2, <3>2, SameRowsFollow
  <2> QED
    BY <1>2, <2>1, <2>3, <2>4, <2>5 DEF FollowsCache
<1>6. Heard(events', new, k) /\ (k \notin removed => Follows(events', new, k, content))
  <2>1. For(new, k) = For(Seen, k)
    BY DEF RowsBecome
  <2>2. Heard(events, Seen, k) => Heard(events', new, k)
    <3>1. Heard(events, Seen, k) => Heard(events', Seen, k)
      BY <1>1, <1>3, HeardMore
    <3> QED
      BY <2>1, <3>1 DEF Heard
  <2>3. CASE view[k] = None /\ k \notin removed
    <3>1. Unheard(events, new, k)
      BY <1>2, <2>1, <2>3 DEF FollowsCache, Unheard
    <3>2. events' = events \o calls
      BY <1>1, <2>3
    <3>3. \A i \in DOMAIN calls : /\ calls[i].key = k
                                  /\ calls[i].type = "added"
                                  /\ calls[i].content = content
      BY <1>3, <2>3 DEF type
    <3> QED
      BY <1>1, <1>3, <3>1, <3>2, <3>3, FollowsAddition
  <2>4. CASE view[k] # None /\ k \notin removed
    <3>1. Heard(events, Seen, k) /\ Follows(events, Seen, k, view[k])
      BY <1>2, <2>4 DEF FollowsCache
    <3>2. CASE events' = events \o calls
      <4>1. \A i \in DOMAIN calls : /\ calls[i].key = k
                                    /\ calls[i].type = "changed"
                                    /\ calls[i].content = content
        BY <1>3, <2>4 DEF type
      <4>2. Follows(events', new, k, content)
        BY <1>1, <1>3, <3>2, <4>1, FollowsChange
      <4> QED
        BY <2>2, <3>1, <4>2
    <3>3. CASE view[k] = content /\ events' = events
      <4>1. CASE SameRows(Seen, new, k)
        BY <3>1, <3>3, <4>1, <2>2, SameRowsFollow
      <4>2. CASE \A i \in For(new, k) : new[i].content = content
        BY <2>1, <2>2, <3>1, <3>3, <4>2 DEF Follows, StaysAt
      <4> QED
        BY <4>1, <4>2 DEF RowsBecome
    <3> QED
      BY <1>1, <3>2, <3>3
  <2>5. CASE k \in removed
    BY <1>2, <2>2, <2>5 DEF FollowsCache
  <2> QED
    BY <2>3, <2>4, <2>5
<1>7. view'[k] = content
  BY <1>1
<1> QED
  BY <1>1, <1>5, <1>6, <1>7 DEF FollowsCache

LEMMA SeenAre ==
    ASSUME TypeOK
    PROVE  /\ DOMAIN Seen = DOMAIN list
           /\ \A i \in DOMAIN list : Seen[i] = objects[list[i]]
           /\ \A k : For(Seen, k) = {i \in DOMAIN list : objects[list[i]].key = k}
           /\ \A k : Listed(k) <=> For(Seen, k) # {}
BY DEF Seen, For, Listed

LEMMA ReceiveFollows ==
    ASSUME TypeOK, ListFollows, NEW k \in Keys, NEW content \in Content,
           Receive(k, content)
    PROVE  ListFollows'
<1>1. CacheBecomes(k, content)
      /\ UNCHANGED <<observers, objects, list, removed>>
  BY DEF Receive
<1>2. Seen' = Seen /\ (ListedOnce => ListedOnce')
  BY <1>1 DEF Seen, ListedOnce
<1>3. RowsBecome(Seen, Seen, k, content)
  BY DEF RowsBecome, SameRows
<1>4. FollowsCache(events', Seen, view', removed)
  BY <1>1, <1>3, BecomesFollows
<1> QED
  BY <1>1, <1>2, <1>4 DEF ListFollows

LEMMA RemoveFollows ==
    ASSUME TypeOK, ListFollows, NEW k \in Keys, Remove(k)
    PROVE  ListFollows'
<1>1. /\ view[k] # None /\ view' = [view EXCEPT ![k] = None]
      /\ removed' = removed \cup {k}
      /\ UNCHANGED <<events, observers, objects, list>>
      /\ view \in [Keys -> Content \cup {None}]
  BY DEF Remove, TypeOK
<1>2. Seen' = Seen /\ (ListedOnce => ListedOnce')
  BY <1>1 DEF Seen, ListedOnce
<1>3. FollowsCache(events, Seen, view', removed')
  <2> SUFFICES ASSUME NEW key \in Keys
               PROVE  IF view'[key] # None \/ key \in removed'
                      THEN /\ Heard(events, Seen, key)
                           /\ key \notin removed' =>
                                 Follows(events, Seen, key, view'[key])
                      ELSE Unheard(events, Seen, key)
    BY DEF FollowsCache
  <2>1. IF view[key] # None \/ key \in removed
        THEN /\ Heard(events, Seen, key)
             /\ key \notin removed => Follows(events, Seen, key, view[key])
        ELSE Unheard(events, Seen, key)
    BY DEF ListFollows, FollowsCache
  <2>2. CASE key = k
    BY <1>1, <2>1, <2>2
  <2>3. CASE key # k
    <3>1. view'[key] = view[key] /\ (key \in removed' <=> key \in removed)
      BY <1>1, <2>3
    <3> QED
      BY <2>1, <3>1
  <2> QED
    BY <2>2, <2>3
<1> QED
  BY <1>1, <1>2, <1>3 DEF ListFollows

\* An object is changed, and what lists it.
LEMMA WriteFollows ==
    ASSUME TypeOK, ListFollows, NEW o \in Objects, NEW content \in Content,
           ChangeAndWrite(o, content)
    PROVE  ListFollows'
<1> DEFINE k == objects[o].key
<1>1. /\ CacheBecomes(k, content)
      /\ objects' = [objects EXCEPT ![o].content = content]
      /\ UNCHANGED <<observers, list, removed>>
  BY DEF ChangeAndWrite, screens
<1>2. /\ \A i \in Objects : /\ objects'[i].key = objects[i].key
                            /\ i # o => objects'[i] = objects[i]
      /\ objects'[o].content = content
  BY <1>1, ChangedObject
<1>3. k \in Keys
  BY ObjectIsPlace
<1>4. \A i \in DOMAIN list : list[i] \in Objects
  BY ListedIsObject
<1>5. /\ DOMAIN Seen' = DOMAIN Seen /\ DOMAIN Seen = DOMAIN list
      /\ \A i \in DOMAIN list : /\ Seen[i] = objects[list[i]]
                                /\ Seen'[i] = objects'[list[i]]
                                /\ Seen'[i].key = Seen[i].key
  BY <1>1, <1>2, <1>4 DEF Seen
<1>6. ListedOnce'
  BY <1>1, <1>2, <1>4 DEF ListFollows, ListedOnce
<1>7. RowsBecome(Seen, Seen', k, content)
  <2>1. \A key : For(Seen', key) = For(Seen, key)
    BY <1>5 DEF For
  <2>2. \A i \in DOMAIN list : list[i] = o \/ Seen'[i] = Seen[i]
    BY <1>2, <1>4, <1>5
  <2>3. \A key \in Keys \ {k} : SameRows(Seen, Seen', key)
    BY <1>5, <2>1, <2>2 DEF SameRows, For
  <2>4. SameRows(Seen, Seen', k) \/ \E i \in DOMAIN list : list[i] = o
    BY <1>5, <2>1, <2>2 DEF SameRows, For
  <2>5. ASSUME NEW i \in DOMAIN list, list[i] = o
        PROVE  \A j \in For(Seen', k) : Seen'[j].content = content
    <3>1. \A j \in For(Seen', k) : j = i
      BY <1>5, <2>1, <2>5 DEF For, ListFollows, ListedOnce
    <3> QED
      BY <1>2, <1>5, <2>5, <3>1
  <2> QED
    BY <2>1, <2>3, <2>4, <2>5 DEF RowsBecome
<1> HIDE DEF k
<1>8. FollowsCache(events', Seen', view', removed)
  BY <1>1, <1>3, <1>7, BecomesFollows
<1> QED
  BY <1>1, <1>6, <1>8 DEF ListFollows

LEMMA OpenFollows ==
    ASSUME TypeOK, ListFollows, OpenMyPlaces
    PROVE  ListFollows'
<1>1. /\ UNCHANGED <<view, objects, list, removed>>
      /\ observers' = observers + 1 /\ observers \in Nat
      /\ events \in Seq(Event) /\ view \in [Keys -> Content \cup {None}]
  BY DEF OpenMyPlaces, TypeOK
<1>2. Seen' = Seen /\ (ListedOnce => ListedOnce')
  BY <1>1 DEF Seen, ListedOnce
<1>3. PICK order \in InOrder(Existing) :
         events' = events \o [i \in DOMAIN order |->
                                [type |-> "added", key |-> order[i],
                                 content |-> view[order[i]]]]
  BY DEF OpenMyPlaces
<1> DEFINE call(i) == [type |-> "added", key |-> order[i],
                       content |-> view[order[i]]]
           n == Cardinality(Existing)
           more == [i \in 1 .. n |-> call(i)]
<1>4. Existing \in SUBSET Int /\ IsFiniteSet(Existing)
  BY ScreensKeysAssumption, FS_Subset DEF Existing
<1>5. n \in Nat /\ order \in [1 .. n -> Existing]
  BY <1>4, OrderOnto
<1> HIDE DEF n
<1>6. \A i \in 1 .. n : /\ call(i) \in Event
                        /\ call(i).type = "added" /\ call(i).key \in Existing
                        /\ call(i).content = view[call(i).key]
  BY <1>1, <1>5 DEF Existing, Event
<1>7. events' = events \o more
  BY <1>3, <1>5
<1> HIDE DEF call
<1>8. more \in Seq(Event)
  BY <1>5, <1>6, IsASeq
<1>9. DOMAIN more = 1 .. n /\ \A i \in 1 .. n : more[i] = call(i)
  OBVIOUS
<1> HIDE DEF more
<1>10. \A k : \A i \in For(more, k) : /\ more[i].type = "added"
                                      /\ more[i].content = view[k]
                                      /\ view[k] # None
  BY <1>6, <1>9 DEF For, Existing
<1>11. FollowsCache(events \o more, Seen, view, removed)
  <2> SUFFICES ASSUME NEW k \in Keys
               PROVE  IF view[k] # None \/ k \in removed
                      THEN /\ Heard(events \o more, Seen, k)
                           /\ k \notin removed =>
                                 Follows(events \o more, Seen, k, view[k])
                      ELSE Unheard(events \o more, Seen, k)
    BY DEF FollowsCache
  <2>1. Heard(events, Seen, k) => Heard(events \o more, Seen, k)
    BY <1>1, <1>8, HeardMore
  <2>2. Follows(events, Seen, k, view[k])
           => Follows(events \o more, Seen, k, view[k])
    BY <1>1, <1>8, <1>10, FollowsMore
  <2>3. Unheard(events, Seen, k) /\ view[k] = None
           => Unheard(events \o more, Seen, k)
    BY <1>1, <1>8, <1>10, UnheardMore
  <2> QED
    BY <2>1, <2>2, <2>3 DEF ListFollows, FollowsCache
<1> QED
  BY <1>1, <1>2, <1>7, <1>11 DEF ListFollows

\* childAdded: the list is extended unless the place is listed.
LEMMA AddedSeen ==
    ASSUME TypeOK, ListedOnce, HandleChildAdded
    PROVE  LET k == Head(events).key
           IN /\ ListedOnce'
              /\ \A key : key # k => SameRows(Seen, Seen', key)
              /\ For(Seen', k) # {}
              /\ \/ SameRows(Seen, Seen', k)
                 \/ /\ For(Seen, k) = {}
                    /\ \A i \in For(Seen', k) :
                          Seen'[i].content = Head(events).content
<1> DEFINE e == Head(events)
           k == e.key
<1>1. CASE Listed(k) /\ UNCHANGED <<objects, list>>
  <2>1. Seen' = Seen /\ ListedOnce' /\ For(Seen, k) # {}
    BY <1>1, SeenAre DEF Seen, ListedOnce
  <2> QED
    BY <2>1 DEF SameRows
<1>2. CASE ~ (Listed(k) /\ UNCHANGED <<objects, list>>)
  <2> DEFINE place == [key |-> k, content |-> e.content]
             o == Len(objects) + 1
             n == Len(list) + 1
  <2>1. /\ ~ Listed(k) /\ events # << >>
        /\ objects' = Append(objects, place) /\ list' = Append(list, o)
    BY <1>2 DEF HandleChildAdded
  <2>2. place \in Place /\ place.key = k /\ place.content = e.content
    BY <2>1, HeadIsEvent DEF Place
  <2> HIDE DEF place, e
  <2>3. /\ o \in Nat /\ objects'[o] = place
        /\ \A i \in Objects : objects'[i] = objects[i]
    <3>1. /\ objects'[o] = place
          /\ \A i \in Objects : objects'[i] = objects[i]
      BY <2>1, <2>2, MadeObject
    <3>2. Len(objects) \in Nat
      BY LenProperties DEF TypeOK
    <3> QED
      BY <3>1, <3>2
  <2>4. /\ DOMAIN list = 1 .. Len(list) /\ Len(list) \in Nat
        /\ DOMAIN list' = 1 .. n /\ list'[n] = o
        /\ \A i \in DOMAIN list : list'[i] = list[i]
    <3>1. list \in Seq(Nat)
      <4>1. Objects \subseteq Nat
        BY LenProperties DEF TypeOK, Objects
      <4> QED
        BY <4>1, SeqMonotonic DEF TypeOK
    <3>2. /\ list' \in Seq(Nat) /\ Len(list') = n /\ list'[n] = o
          /\ \A i \in 1 .. Len(list) : list'[i] = list[i]
      BY <2>1, <2>3, <3>1, AppendProperties
    <3> QED
      BY <3>1, <3>2, LenProperties
  <2>5. \A i \in DOMAIN list : list[i] \in Objects /\ objects[list[i]].key # k
    BY <2>1, ListedIsObject DEF Listed
  <2>6. /\ DOMAIN Seen = DOMAIN list /\ DOMAIN Seen' = DOMAIN list \cup {n}
        /\ n \notin DOMAIN list
        /\ Seen'[n] = place
        /\ \A i \in DOMAIN list : /\ Seen[i] = objects[list[i]]
                                  /\ Seen'[i] = Seen[i]
    BY <2>3, <2>4, <2>5 DEF Seen
  <2>7. ListedOnce'
    <3>1. \A i \in DOMAIN list' : i \in DOMAIN list \/ i = n
      BY <2>4
    <3>2. \A i \in DOMAIN list : objects'[list'[i]] = objects[list[i]]
      BY <2>3, <2>4, <2>5
    <3>3. objects'[list'[n]].key = k
      BY <2>2, <2>3, <2>4
    <3> QED
      BY <2>5, <3>1, <3>2, <3>3 DEF ListedOnce
  <2>8. \A key : key # k => SameRows(Seen, Seen', key)
    BY <2>2, <2>6 DEF SameRows, For
  <2>9. For(Seen', k) = {n} /\ For(Seen, k) = {}
    BY <2>2, <2>5, <2>6 DEF For
  <2> QED
    BY <2>2, <2>6, <2>7, <2>8, <2>9 DEF e
<1> QED
  BY <1>1, <1>2

\* childChanged: the row of the place, if there is one, gets a new object.
LEMMA ChangedSeen ==
    ASSUME TypeOK, ListedOnce, HandleChildChanged
    PROVE  LET k == Head(events).key
           IN /\ ListedOnce'
              /\ \A key : key # k => SameRows(Seen, Seen', key)
              /\ For(Seen', k) = For(Seen, k)
              /\ \A i \in For(Seen', k) : Seen'[i].content = Head(events).content
<1> DEFINE e == Head(events)
           k == e.key
           place == [key |-> k, content |-> e.content]
           o == Len(objects) + 1
<1>1. /\ objects' = Append(objects, place) /\ list' = Replaced(k)
      /\ events # << >>
  BY DEF HandleChildChanged
<1>2. place \in Place /\ place.key = k /\ place.content = e.content
  BY <1>1, HeadIsEvent DEF Place
<1> HIDE DEF place, e
<1>3. /\ objects'[o] = place
      /\ \A i \in Objects : objects'[i] = objects[i]
  BY <1>1, <1>2, MadeObject
<1>4. \A i \in DOMAIN list : list[i] \in Objects /\ i \in Nat
  BY ListedIsObject
<1>5. DOMAIN list' = DOMAIN list
      /\ \A i \in DOMAIN list :
            list'[i] = IF objects[list[i]].key = k THEN o ELSE list[i]
  <2>1. DOMAIN list = 1 .. Len(list) /\ Len(list) \in Nat
    BY LenProperties DEF TypeOK
  <2>2. \A i \in DOMAIN list : \A j \in 1 .. i - 1 :
           objects[list[i]].key = k => objects[list[j]].key # k
    <3> SUFFICES ASSUME NEW i \in DOMAIN list, NEW j \in 1 .. i - 1,
                        objects[list[i]].key = k, objects[list[j]].key = k
                 PROVE  FALSE
      OBVIOUS
    <3>1. j \in DOMAIN list /\ j # i
      BY <2>1
    <3> QED
      BY <3>1 DEF ListedOnce
  <2> QED
    BY <1>1, <2>2 DEF Replaced
<1>6. /\ DOMAIN Seen = DOMAIN list /\ DOMAIN Seen' = DOMAIN list
      /\ \A i \in DOMAIN list :
            /\ Seen[i] = objects[list[i]]
            /\ Seen'[i] = IF Seen[i].key = k THEN place ELSE Seen[i]
  BY <1>3, <1>4, <1>5 DEF Seen
<1>7. ListedOnce'
  <2>1. \A i \in DOMAIN list : objects'[list'[i]].key = objects[list[i]].key
    BY <1>2, <1>3, <1>4, <1>5
  <2> QED
    BY <1>5, <2>1 DEF ListedOnce
<1>8. \A key : key # k => SameRows(Seen, Seen', key)
  BY <1>2, <1>6 DEF SameRows, For
<1>9. For(Seen', k) = For(Seen, k)
      /\ \A i \in For(Seen', k) : Seen'[i].content = e.content
  BY <1>2, <1>6 DEF For
<1> QED
  BY <1>7, <1>8, <1>9 DEF e

LEMMA EventFollows ==
    ASSUME TypeOK, ListFollows, HandleEvent
    PROVE  ListFollows'
<1> DEFINE e == Head(events)
<1>1. /\ events # << >> /\ events' = Tail(events) /\ events \in Seq(Event)
      /\ UNCHANGED <<view, observers, removed>>
      /\ observers # 0 /\ ListedOnce /\ FollowsCache(events, Seen, view, removed)
  BY DEF HandleEvent, HandleChildAdded, HandleChildChanged, TypeOK, ListFollows
<1>2. ListedOnce' /\ \A key : key # e.key => SameRows(Seen, Seen', key)
  BY <1>1, AddedSeen, ChangedSeen DEF HandleEvent
<1>3. \A k \in Keys : /\ Heard(events, Seen, k) \/ Unheard(events, Seen, k)
                      /\ e.key = k => ~ Unheard(events, Seen, k)
  <2> TAKE k \in Keys
  <2>1. e.key = k => 1 \in For(events, k)
    BY <1>1, ForTail DEF IsRest
  <2> QED
    BY <1>1, <2>1 DEF FollowsCache, Unheard
<1> HIDE DEF e
<1>4. ASSUME NEW k \in Keys, e.key # k
      PROVE  /\ Heard(events, Seen, k) => Heard(events', Seen', k)
             /\ Unheard(events, Seen, k) => Unheard(events', Seen', k)
             /\ \A content : Follows(events, Seen, k, content)
                                => Follows(events', Seen', k, content)
  BY <1>1, <1>2, <1>4, TailOther DEF e
<1>5. ASSUME NEW k \in Keys, e.key = k
      PROVE  /\ Heard(events', Seen', k)
             /\ \A content : Follows(events, Seen, k, content)
                                => Follows(events', Seen', k, content)
  <2>1. CASE HandleChildAdded
    <3>1. e.type = "added"
      BY <2>1 DEF HandleChildAdded, e
    <3>2. /\ For(Seen', k) # {}
          /\ \/ SameRows(Seen, Seen', k)
             \/ /\ For(Seen, k) = {}
                /\ \A i \in For(Seen', k) : Seen'[i].content = e.content
      BY <1>1, <1>5, <2>1, AddedSeen DEF e
    <3>3. \A content : Follows(events, Seen, k, content)
                          => Follows(events', Seen', k, content)
      BY <1>1, <1>5, <3>1, <3>2, TailAdded DEF e
    <3> QED
      BY <3>2, <3>3 DEF Heard
  <2>2. CASE HandleChildChanged
    <3>1. e.type = "changed"
      BY <2>2 DEF HandleChildChanged, e
    <3>2. /\ For(Seen', k) = For(Seen, k)
          /\ \A i \in For(Seen', k) : Seen'[i].content = e.content
      BY <1>1, <1>5, <2>2, ChangedSeen DEF e
    <3>3. For(Seen, k) # {}
      BY <1>1, <1>3, <1>5, <3>1, ChangedIsListed DEF e
    <3>4. \A content : Follows(events, Seen, k, content)
                          => Follows(events', Seen', k, content)
      BY <1>1, <1>5, <3>1, <3>2, <3>3, TailChanged DEF e
    <3> QED
      BY <3>2, <3>3, <3>4 DEF Heard
  <2> QED
    BY <2>1, <2>2 DEF HandleEvent
<1>6. FollowsCache(events', Seen', view, removed)
  <2> SUFFICES ASSUME NEW k \in Keys
               PROVE  IF view[k] # None \/ k \in removed
                      THEN /\ Heard(events', Seen', k)
                           /\ k \notin removed =>
                                 Follows(events', Seen', k, view[k])
                      ELSE Unheard(events', Seen', k)
    BY DEF FollowsCache
  <2>1. IF view[k] # None \/ k \in removed
        THEN /\ Heard(events, Seen, k)
             /\ k \notin removed => Follows(events, Seen, k, view[k])
        ELSE Unheard(events, Seen, k)
    BY <1>1 DEF FollowsCache
  <2>2. CASE e.key # k
    BY <1>4, <2>1, <2>2
  <2>3. CASE e.key = k
    BY <1>3, <1>5, <2>1, <2>3
  <2> QED
    BY <2>2, <2>3
<1> QED
  BY <1>1, <1>2, <1>6 DEF ListFollows

LEMMA StepFollows ==
    ASSUME TypeOK, ListFollows, [Next]_vars
    PROVE  ListFollows'
<1>1. ASSUME UNCHANGED <<view, events, observers, objects, list, removed>>
      PROVE  ListFollows'
  BY <1>1 DEF ListFollows, ListedOnce, Seen
<1>2. ASSUME NEW k \in Keys, Remove(k) PROVE ListFollows'
  BY <1>2, RemoveFollows
<1>3. ASSUME NEW k \in Keys, NEW content \in Content, Receive(k, content)
      PROVE  ListFollows'
  BY <1>3, ReceiveFollows
<1>4. CASE HandleEvent
  BY <1>4, EventFollows
<1>5. ASSUME NEW i \in DOMAIN list, Visit(i) PROVE ListFollows'
  BY <1>5, VisitWrites, WriteFollows
<1>6. ASSUME NEW s \in Lists, NEW i \in DOMAIN copy[s],
             Scroll(s, i) \/ TapRow(s, i)
      PROVE  ListFollows'
  BY <1>1, <1>6 DEF Scroll, TapRow
<1>7. ASSUME NEW s \in Lists, NEW note \in Notes, Rate(s, note)
      PROVE  ListFollows'
  BY <1>7, RateWrites, WriteFollows
<1>8. ASSUME NEW s \in Lists, CloseDetail(s) PROVE ListFollows'
  BY <1>1, <1>8 DEF CloseDetail
<1>9. CASE OpenMyPlaces
  BY <1>9, OpenFollows
<1>10. CASE CloseMyPlaces
  BY <1>1, <1>10 DEF CloseMyPlaces
<1>11. CASE TapMyPlacesSignedOut \/ (\E u \in Users : SignIn(u)) \/ SignOut
  BY <1>1, <1>11 DEF TapMyPlacesSignedOut, SignIn, SignOut
<1>12. CASE UNCHANGED vars
  BY <1>1, <1>12 DEF vars
<1> QED
  BY <1>2, <1>3, <1>4, <1>5, <1>6, <1>7, <1>8, <1>9, <1>10, <1>11, <1>12 DEF Next

-----------------------------------------------------------------------------
(* What the screens have drawn.                                            *)

\* With an empty queue the list is what the cache has.
LEMMA QuietShows ==
    ASSUME TypeOK, ListFollows, events = << >>
    PROVE  /\ \A i \in DOMAIN list :
                 LET place == objects[list[i]]
                 IN /\ view[place.key] # None \/ place.key \in removed
                    /\ place.key \notin removed => place.content = view[place.key]
           /\ \A k \in Keys : view[k] # None \/ k \in removed =>
                 \E i \in DOMAIN list : objects[list[i]].key = k
<1>1. \A k : For(events, k) = {}
  BY DEF For
<1>2. \A k : ~ AddedFirst(events, k) /\ \A content : ~ ChangesTo(events, k, content)
  BY <1>1 DEF AddedFirst, ChangesTo
<1>3. FollowsCache(events, Seen, view, removed)
  BY DEF ListFollows
<1>4. \A k \in Keys : view[k] # None \/ k \in removed => For(Seen, k) # {}
  BY <1>2, <1>3 DEF FollowsCache, Heard
<1>5. \A k \in Keys : For(Seen, k) # {} => view[k] # None \/ k \in removed
  BY <1>3 DEF FollowsCache, Unheard
<1>6. \A k \in Keys : For(Seen, k) # {} /\ k \notin removed =>
         \A i \in For(Seen, k) : Seen[i].content = view[k]
  BY <1>2, <1>3, <1>5 DEF FollowsCache, Follows, StaysAt
<1>7. \A k \in Keys : view[k] # None \/ k \in removed =>
         \E i \in DOMAIN list : objects[list[i]].key = k
  BY <1>4, SeenAre
<1>8. ASSUME NEW i \in DOMAIN list
      PROVE  LET place == objects[list[i]]
             IN /\ view[place.key] # None \/ place.key \in removed
                /\ place.key \notin removed => place.content = view[place.key]
  <2> DEFINE k == objects[list[i]].key
  <2>1. k \in Keys
    BY ListedIsObject
  <2>2. i \in For(Seen, k) /\ Seen[i] = objects[list[i]]
    BY SeenAre
  <2> QED
    BY <1>5, <1>6, <2>1, <2>2
<1> QED
  BY <1>7, <1>8

\* What empties no queue and fills none has told the SDK nothing new.
LEMMA QuietCache ==
    ASSUME TypeOK, ListFollows, NEW k \in Keys, NEW content \in Content,
           CacheBecomes(k, content), events' = << >>
    PROVE  events = << >> /\ view[k] = content
<1>1. PICK type \in {"added", "changed"} :
         \/ events' = events \o Calls(type, k, content)
         \/ view[k] = content /\ UNCHANGED events
  BY DEF CacheBecomes
<1>2. /\ Calls(type, k, content) \in Seq(Event)
      /\ Calls(type, k, content) # << >>
  BY CallsFor DEF ListFollows
<1>3. events \in Seq(Event)
  BY DEF TypeOK
<1>4. events \o Calls(type, k, content) # << >>
  BY <1>2, <1>3, ConcatSimplifications
<1> QED
  BY <1>1, <1>4

LEMMA QuietWrite ==
    ASSUME TypeOK, ListFollows, NEW o \in Objects, NEW content \in Content,
           ChangeAndWrite(o, content), events' = << >>
    PROVE  /\ events = << >>
           /\ \A i \in DOMAIN list :
                 LET old == objects[list[i]]
                     new == objects'[list[i]]
                 IN /\ new.key = old.key
                    /\ old.key \notin removed => new.content = old.content
<1>1. /\ CacheBecomes(objects[o].key, content)
      /\ objects' = [objects EXCEPT ![o].content = content]
  BY DEF ChangeAndWrite
<1>2. events = << >> /\ view[objects[o].key] = content
  BY <1>1, ObjectIsPlace, QuietCache
<1>3. /\ \A i \in Objects : /\ objects'[i].key = objects[i].key
                            /\ i # o => objects'[i] = objects[i]
      /\ objects'[o].content = content
  BY <1>1, ChangedObject
<1>4. ASSUME NEW i \in DOMAIN list
      PROVE  LET old == objects[list[i]]
                 new == objects'[list[i]]
             IN /\ new.key = old.key
                /\ old.key \notin removed => new.content = old.content
  <2>1. list[i] \in Objects
    BY ListedIsObject
  <2>2. CASE list[i] # o
    BY <1>3, <2>1, <2>2
  <2>3. CASE list[i] = o
    BY <1>2, <1>3, <2>1, <2>3, QuietShows
  <2> QED
    BY <2>2, <2>3
<1> QED
  BY <1>2, <1>4

\* After a write that nobody is told of the rows are still as drawn.
LEMMA WriteKeepsDrawn ==
    ASSUME TypeOK, ListFollows, NEW o \in Objects, NEW content \in Content,
           ChangeAndWrite(o, content), events' = << >>, NEW s \in Lists,
           Held(s) \subseteq {list[i] : i \in DOMAIN list}, DrawnNow(s)
    PROVE  DrawnNow(s)'
<1>1. UNCHANGED <<copy, rows, removed>>
  BY DEF ChangeAndWrite, screens
<1>2. SUFFICES ASSUME NEW i \in DOMAIN copy[s],
                      objects'[copy[s][i]].key \notin removed
               PROVE  rows[s][i] = CellFor(objects'[copy[s][i]])
  BY <1>1 DEF DrawnNow
<1>3. PICK j \in DOMAIN list : list[j] = copy[s][i]
  BY DEF Held
<1>4. /\ objects'[list[j]].key = objects[list[j]].key
      /\ objects[list[j]].key \notin removed =>
            objects'[list[j]].content = objects[list[j]].content
  BY QuietWrite
<1>5. rows[s][i] = CellFor(objects[copy[s][i]])
  BY <1>2, <1>3, <1>4 DEF DrawnNow
<1> QED
  BY <1>2, <1>3, <1>4, <1>5 DEF CellFor

LEMMA SDKDraws ==
    ASSUME TypeOK, ListFollows, DrawnInv, NEW k \in Keys,
           Remove(k) \/ \E content \in Content : Receive(k, content)
    PROVE  DrawnInv'
<1>1. UNCHANGED <<objects, list, delegate, copy, rows, myOpen, user>>
  BY DEF Remove, Receive, screens
<1>2. events' = << >> => events = << >>
  BY QuietCache DEF Remove, Receive
<1>3. removed \subseteq removed'
  BY DEF Remove, Receive
<1>4. \A s \in Lists : DrawnNow(s) => DrawnNow(s)'
  BY <1>1, <1>3 DEF DrawnNow
<1>5. SameLength'
  BY <1>1 DEF DrawnInv, SameLength
<1>6. RootInv'
  BY <1>1, <1>2, <1>4 DEF DrawnInv, RootInv, Lists
<1>7. MyInv'
  <2>1. Held("my")' = Held("my")
    BY <1>1 DEF Held
  <2>2. myOpen /\ events' = << >> => DrawnNow("my")'
    BY <1>2, <1>4 DEF DrawnInv, MyInv, Lists
  <2> QED
    BY <1>1, <1>2, <1>3, <2>1, <2>2 DEF DrawnInv, MyInv
<1> QED
  BY <1>5, <1>6, <1>7 DEF DrawnInv

LEMMA WriteDraws ==
    ASSUME TypeOK, ListFollows, DrawnInv, NEW o \in Objects,
           NEW content \in Content, ChangeAndWrite(o, content)
    PROVE  DrawnInv'
<1>1. UNCHANGED <<list, delegate, copy, rows, myOpen, user, removed>>
  BY DEF ChangeAndWrite, screens
<1>2. events' = << >> =>
         /\ events = << >>
         /\ \A i \in DOMAIN list :
               LET old == objects[list[i]]
                   new == objects'[list[i]]
               IN /\ new.key = old.key
                  /\ old.key \notin removed => new.content = old.content
  BY QuietWrite
<1>3. \A s \in Lists : /\ events' = << >> /\ DrawnNow(s)
                       /\ Held(s) \subseteq {list[i] : i \in DOMAIN list}
                       => DrawnNow(s)'
  BY WriteKeepsDrawn
<1>4. SameLength'
  BY <1>1 DEF DrawnInv, SameLength
<1>5. RootInv'
  <2>1. delegate = "root" => Held("root") \subseteq {list[i] : i \in DOMAIN list}
    BY DEF DrawnInv, RootInv, Held
  <2> QED
    BY <1>1, <1>2, <1>3, <2>1 DEF DrawnInv, RootInv, Lists
<1>6. MyInv'
  <2>1. Held("my")' = Held("my")
    BY <1>1 DEF Held
  <2>2. myOpen /\ events' = << >> => DrawnNow("my")'
    BY <1>2, <1>3 DEF DrawnInv, MyInv, Lists
  <2> QED
    BY <1>1, <1>2, <2>1, <2>2 DEF DrawnInv, MyInv
<1> QED
  BY <1>4, <1>5, <1>6 DEF DrawnInv

LEMMA ScrollDraws ==
    ASSUME TypeOK, DrawnInv, NEW s \in Lists, NEW i \in DOMAIN copy[s],
           Scroll(s, i)
    PROVE  DrawnInv'
<1> DEFINE cell == CellFor(objects[copy[s][i]])
<1>1. /\ UNCHANGED <<events, objects, list, delegate, copy, myOpen, user, removed>>
      /\ rows' = [rows EXCEPT ![s] = [rows[s] EXCEPT ![i] = cell]]
      /\ rows \in [Lists -> Seq(Row)]
  BY DEF Scroll, TypeOK
<1> HIDE DEF cell
<1>2. DOMAIN rows[s] = DOMAIN copy[s]
  BY DEF DrawnInv, SameLength
<1>3. rows[s] = [j \in DOMAIN rows[s] |-> rows[s][j]]
  BY <1>1, LenProperties
<1>4. \A t \in Lists : DOMAIN rows'[t] = DOMAIN rows[t]
  BY <1>1, <1>3
<1>5. /\ rows'[s][i] = cell
      /\ \A j \in DOMAIN copy[s] \ {i} : rows'[s][j] = rows[s][j]
      /\ \A t \in Lists \ {s} : rows'[t] = rows[t]
  BY <1>1, <1>2, <1>3
<1>6. \A t \in Lists : DrawnNow(t) => DrawnNow(t)'
  <2> TAKE t \in Lists
  <2>1. CASE t = s
    BY <1>1, <1>5, <2>1 DEF DrawnNow, cell
  <2>2. CASE t # s
    BY <1>1, <1>5, <2>2 DEF DrawnNow
  <2> QED
    BY <2>1, <2>2
<1>7. SameLength'
  BY <1>1, <1>4 DEF DrawnInv, SameLength
<1>8. RootInv'
  BY <1>1, <1>6 DEF DrawnInv, RootInv, Lists
<1>9. MyInv'
  <2>1. Held("my")' = Held("my")
    BY <1>1 DEF Held
  <2> QED
    BY <1>1, <1>6, <2>1 DEF DrawnInv, MyInv, Lists
<1> QED
  BY <1>7, <1>8, <1>9 DEF DrawnInv

\* placesUpdated shows everything as it is.
LEMMA ShowDraws ==
    ASSUME TypeOK, Larger(objects'), NEW places \in Seq(DOMAIN objects'),
           NEW screen \in Lists, Show(screen, places, objects')
    PROVE  /\ copy'[screen] = places
           /\ \A s \in Lists \ {screen} : copy'[s] = copy[s] /\ rows'[s] = rows[s]
           /\ DOMAIN rows'[screen] = DOMAIN copy'[screen]
           /\ DrawnNow(screen)'
<1>1. /\ copy' = [copy EXCEPT ![screen] = places]
      /\ rows' = [rows EXCEPT ![screen] = Cells(places, objects')]
      /\ DOMAIN copy = Lists /\ DOMAIN rows = Lists
  BY DEF Show, TypeOK
<1>2. /\ DOMAIN Cells(places, objects') = DOMAIN places
      /\ \A i \in DOMAIN places :
            Cells(places, objects')[i] = CellFor(objects'[places[i]])
  BY CellsAreRows DEF Larger
<1>3. copy'[screen] = places /\ rows'[screen] = Cells(places, objects')
  BY <1>1
<1>4. DrawnNow(screen)'
  BY <1>2, <1>3 DEF DrawnNow
<1> QED
  BY <1>1, <1>2, <1>3, <1>4

\* The objects that My Places shows of a list that has every object once.
LEMMA VisitedAre ==
    ASSUME NEW S, NEW places \in Seq(S), NEW heap,
           \A i, j \in DOMAIN places : places[i] = places[j] => i = j
    PROVE  LET visited == VisitedPlaces(places, heap)
               held == {visited[i] : i \in DOMAIN visited}
           IN /\ \A i, j \in DOMAIN visited : visited[i] = visited[j] => i = j
              /\ held \subseteq {places[i] : i \in DOMAIN places}
              /\ \A i \in DOMAIN places :
                    places[i] \in held <=> user \in heap[places[i]].content.visitors
<1> DEFINE visited == VisitedPlaces(places, heap)
           held == {visited[i] : i \in DOMAIN visited}
<1>1. \A i \in DOMAIN visited : \E j \in DOMAIN places :
         /\ visited[i] = places[j]
         /\ user \in heap[places[j]].content.visitors
  BY VisitedPlacesAre
<1>2. \A j \in DOMAIN places :
         user \in heap[places[j]].content.visitors =>
            \E i \in DOMAIN visited : visited[i] = places[j]
  BY VisitedPlacesAre
<1>3. \A i, j \in DOMAIN visited : visited[i] = visited[j] => i = j
  BY VisitedPlacesAre
<1> HIDE DEF visited
<1>4. held \subseteq {places[i] : i \in DOMAIN places}
  BY <1>1
<1>5. \A i \in DOMAIN places :
         places[i] \in held <=> user \in heap[places[i]].content.visitors
  BY <1>1, <1>2
<1> QED
  BY <1>3, <1>4, <1>5 DEF visited

LEMMA ListedOnceEach ==
    ASSUME ListedOnce
    PROVE  \A i, j \in DOMAIN list : list[i] = list[j] => i = j
BY DEF ListedOnce

LEMMA EventDraws ==
    ASSUME TypeOK, KnowsInv, ListedOnce', DrawnInv, HandleEvent
    PROVE  DrawnInv'
<1>1. /\ Larger(objects') /\ list' \in Seq(DOMAIN objects')
      /\ PlacesUpdated(list', objects')
      /\ UNCHANGED <<delegate, myOpen, user, removed>>
  BY AddedTypes, ChangedTypes
     DEF HandleEvent, HandleChildAdded, HandleChildChanged
<1>2. "root" \in Lists /\ "my" \in Lists /\ Lists = {"root", "my"}
  BY DEF Lists
<1>3. CASE delegate = "none"
  <2>1. UNCHANGED <<copy, rows>>
    BY <1>1, <1>3 DEF PlacesUpdated
  <2> QED
    BY <1>1, <1>3, <2>1 DEF DrawnInv, SameLength, RootInv, MyInv
<1>4. CASE delegate = "root"
  <2>1. Show("root", list', objects')
    BY <1>1, <1>4 DEF PlacesUpdated
  <2>2. /\ copy'["root"] = list' /\ rows'["my"] = rows["my"]
        /\ copy'["my"] = copy["my"]
        /\ DOMAIN rows'["root"] = DOMAIN copy'["root"] /\ DrawnNow("root")'
    BY <1>1, <1>2, <2>1, ShowDraws
  <2> QED
    BY <1>1, <1>2, <1>4, <2>2 DEF DrawnInv, SameLength, RootInv, MyInv
<1>5. CASE delegate = "my"
  <2> DEFINE visited == VisitedPlaces(list', objects')
  <2>1. user # None
    BY <1>5 DEF KnowsInv, DelegateIsOpen, OpenKnowsUser
  <2>2. Show("my", visited, objects')
    BY <1>1, <1>5, <2>1 DEF PlacesUpdated
  <2>3. visited \in Seq(DOMAIN objects')
    BY <1>1, VisitedPlacesAre
  <2>4. \A i, j \in DOMAIN list' : list'[i] = list'[j] => i = j
    BY ListedOnceEach DEF ListedOnce
  <2>5. LET held == {visited[i] : i \in DOMAIN visited}
        IN /\ \A i, j \in DOMAIN visited : visited[i] = visited[j] => i = j
           /\ held \subseteq {list'[i] : i \in DOMAIN list'}
           /\ \A i \in DOMAIN list' :
                 list'[i] \in held <=> user \in objects'[list'[i]].content.visitors
    BY <1>1, <2>4, VisitedAre
  <2> HIDE DEF visited
  <2>6. /\ copy'["my"] = visited /\ rows'["root"] = rows["root"]
        /\ copy'["root"] = copy["root"]
        /\ DOMAIN rows'["my"] = DOMAIN copy'["my"] /\ DrawnNow("my")'
    BY <1>1, <1>2, <2>2, <2>3, ShowDraws
  <2>7. Held("my")' = {visited[i] : i \in DOMAIN visited}
    BY <2>6 DEF Held
  <2>8. SameLength'
    BY <1>2, <2>6 DEF DrawnInv, SameLength
  <2>9. RootInv'
    BY <1>1, <1>5 DEF RootInv
  <2>10. MyInv'
    BY <1>1, <1>5, <2>5, <2>6, <2>7 DEF DrawnInv, MyInv
  <2> QED
    BY <2>8, <2>9, <2>10 DEF DrawnInv
<1> QED
  BY <1>3, <1>4, <1>5 DEF TypeOK, Lists

LEMMA OpenDraws ==
    ASSUME TypeOK, ListedOnce, DrawnInv, OpenMyPlaces
    PROVE  DrawnInv'
<1> DEFINE visited == VisitedPlaces(list, objects)
<1>1. /\ copy' = [copy EXCEPT !["my"] = visited]
      /\ rows' = [rows EXCEPT !["my"] = Cells(visited, objects)]
      /\ delegate' = "my" /\ myOpen' = TRUE
      /\ UNCHANGED <<objects, list, user, removed>>
  BY DEF OpenMyPlaces, Load
<1>2. objects \in Seq(Place) /\ list \in Seq(DOMAIN objects)
      /\ DOMAIN copy = Lists /\ DOMAIN rows = Lists
  BY DEF TypeOK, Objects
<1>3. visited \in Seq(DOMAIN objects)
  BY <1>2, VisitedPlacesAre
<1>4. LET held == {visited[i] : i \in DOMAIN visited}
      IN /\ \A i, j \in DOMAIN visited : visited[i] = visited[j] => i = j
         /\ held \subseteq {list[i] : i \in DOMAIN list}
         /\ \A i \in DOMAIN list :
               list[i] \in held <=> user \in objects[list[i]].content.visitors
  BY <1>2, ListedOnceEach, VisitedAre
<1> HIDE DEF visited
<1>5. /\ DOMAIN Cells(visited, objects) = DOMAIN visited
      /\ \A i \in DOMAIN visited :
            Cells(visited, objects)[i] = CellFor(objects[visited[i]])
  BY <1>2, <1>3, CellsAreRows
<1>6. /\ copy'["my"] = visited /\ rows'["my"] = Cells(visited, objects)
      /\ copy'["root"] = copy["root"] /\ rows'["root"] = rows["root"]
  BY <1>1, <1>2 DEF Lists
<1>7. DrawnNow("my")'
  BY <1>1, <1>5, <1>6 DEF DrawnNow
<1>8. Held("my")' = {visited[i] : i \in DOMAIN visited}
  BY <1>6 DEF Held
<1>9. SameLength'
  BY <1>5, <1>6 DEF DrawnInv, SameLength, Lists
<1>10. RootInv'
  BY <1>1 DEF RootInv
<1>11. MyInv'
  BY <1>1, <1>4, <1>6, <1>7, <1>8 DEF MyInv
<1> QED
  BY <1>9, <1>10, <1>11 DEF DrawnInv

LEMMA CloseDraws ==
    ASSUME TypeOK, DrawnInv, CloseMyPlaces
    PROVE  DrawnInv'
<1>1. /\ copy' = [copy EXCEPT !["my"] = << >>]
      /\ rows' = [rows EXCEPT !["my"] = << >>]
      /\ delegate' = IF delegate = "my" THEN "none" ELSE delegate
      /\ myOpen' = FALSE
      /\ UNCHANGED <<events, objects, list, removed>>
      /\ DOMAIN copy = Lists /\ DOMAIN rows = Lists
  BY DEF CloseMyPlaces, TypeOK
<1>2. /\ copy'["my"] = << >> /\ rows'["my"] = << >>
      /\ copy'["root"] = copy["root"] /\ rows'["root"] = rows["root"]
  BY <1>1 DEF Lists
<1>3. SameLength'
  BY <1>2 DEF DrawnInv, SameLength, Lists
<1>4. RootInv'
  BY <1>1, <1>2 DEF DrawnInv, RootInv, DrawnNow
<1>5. MyInv'
  BY <1>1 DEF MyInv
<1> QED
  BY <1>3, <1>4, <1>5 DEF DrawnInv

LEMMA StepDraws ==
    ASSUME TypeOK, KnowsInv, ListFollows, ListFollows', DrawnInv, [Next]_vars
    PROVE  DrawnInv'
<1>1. ASSUME UNCHANGED <<events, objects, list, delegate, copy, rows, myOpen,
                         removed>>,
             UNCHANGED user \/ ~ myOpen
      PROVE  DrawnInv'
  <2>1. Held("my")' = Held("my")
    BY <1>1 DEF Held
  <2>2. \A s \in Lists : DrawnNow(s)' <=> DrawnNow(s)
    BY <1>1 DEF DrawnNow
  <2>3. SameLength'
    BY <1>1 DEF DrawnInv, SameLength
  <2>4. RootInv'
    BY <1>1, <2>2 DEF DrawnInv, RootInv, Lists
  <2>5. MyInv'
    BY <1>1, <2>1, <2>2 DEF DrawnInv, MyInv, Lists
  <2> QED
    BY <2>3, <2>4, <2>5 DEF DrawnInv
<1>2. ASSUME NEW k \in Keys, Remove(k) PROVE DrawnInv'
  BY <1>2, SDKDraws
<1>3. ASSUME NEW k \in Keys, NEW content \in Content, Receive(k, content)
      PROVE  DrawnInv'
  BY <1>3, SDKDraws
<1>4. CASE HandleEvent
  BY <1>4, EventDraws DEF ListFollows
<1>5. ASSUME NEW i \in DOMAIN list, Visit(i) PROVE DrawnInv'
  BY <1>5, VisitWrites, WriteDraws
<1>6. ASSUME NEW s \in Lists, NEW i \in DOMAIN copy[s], Scroll(s, i)
      PROVE  DrawnInv'
  BY <1>6, ScrollDraws
<1>7. ASSUME NEW s \in Lists, NEW i \in DOMAIN copy[s], TapRow(s, i)
      PROVE  DrawnInv'
  BY <1>1, <1>7 DEF TapRow
<1>8. ASSUME NEW s \in Lists, NEW note \in Notes, Rate(s, note) PROVE DrawnInv'
  BY <1>8, RateWrites, WriteDraws
<1>9. ASSUME NEW s \in Lists, CloseDetail(s) PROVE DrawnInv'
  BY <1>1, <1>9 DEF CloseDetail
<1>10. CASE OpenMyPlaces
  BY <1>10, OpenDraws DEF ListFollows
<1>11. CASE CloseMyPlaces
  BY <1>11, CloseDraws
<1>12. CASE TapMyPlacesSignedOut \/ (\E u \in Users : SignIn(u)) \/ SignOut
  BY <1>1, <1>12 DEF TapMyPlacesSignedOut, SignIn, SignOut, screens
<1>13. CASE UNCHANGED vars
  BY <1>1, <1>13 DEF vars, screens
<1> QED
  BY <1>2, <1>3, <1>4, <1>5, <1>6, <1>7, <1>8, <1>9, <1>10, <1>11, <1>12, <1>13
     DEF Next

LEMMA InitInv == Init => ScreensInv
<1> SUFFICES ASSUME Init PROVE ScreensInv
  OBVIOUS
<1>1. TypeOK
  BY InitTypes
<1>2. KnowsInv
  BY DEF Init, KnowsInv, DelegateIsOpen, OpenKnowsUser, UpdateKnowsUser
<1>3. ListFollows
  <2>1. /\ view = [k \in Keys |-> None] /\ events = << >> /\ list = << >>
        /\ observers = 1 /\ removed = {} /\ Seen = << >>
    BY DEF Init, Seen
  <2> QED
    BY <2>1 DEF ListFollows, ListedOnce, FollowsCache, Unheard, For
<1>4. DrawnInv
  <2>1. /\ delegate = "root" /\ ~ myOpen /\ list = << >>
        /\ \A s \in Lists : copy[s] = << >> /\ rows[s] = << >>
    BY DEF Init
  <2> QED
    BY <2>1 DEF DrawnInv, SameLength, RootInv, MyInv, DrawnNow, Lists
<1> QED
  BY <1>1, <1>2, <1>3, <1>4 DEF ScreensInv

LEMMA ScreensInvariant == Spec => []ScreensInv
<1>1. ScreensInv /\ [Next]_vars => ScreensInv'
  BY StepTypes, StepKnowsUser, StepFollows, StepDraws DEF ScreensInv
<1> QED
  BY <1>1, InitInv, PTL DEF Spec

-----------------------------------------------------------------------------
(* The screens when the queue has been served.                             *)

LEMMA RowsOnce ==
    ASSUME TypeOK, NEW s \in Lists,
           \A i, j \in DOMAIN copy[s] :
              objects[copy[s][i]].key = objects[copy[s][j]].key => i = j
    PROVE  Len(copy[s]) = Cardinality(RowKeys(s))
<1> DEFINE n == Len(copy[s])
           key == [i \in 1 .. n |-> objects[copy[s][i]].key]
<1>1. n \in Nat /\ DOMAIN copy[s] = 1 .. n
  BY LenProperties DEF TypeOK
<1>2. IsFiniteSet(1 .. n) /\ Cardinality(1 .. n) = n
  BY <1>1, FS_Interval
<1> HIDE DEF n
<1>3. key \in [1 .. n -> RowKeys(s)]
  BY <1>1 DEF RowKeys
<1>4. \A k \in RowKeys(s) : \E i \in 1 .. n : key[i] = k
  BY <1>1 DEF RowKeys
<1>5. \A i, j \in 1 .. n : key[i] = key[j] => i = j
  BY <1>1
<1> HIDE DEF key
<1>6. key \in Surjection(1 .. n, RowKeys(s)) /\ key \in Injection(1 .. n, RowKeys(s))
  BY <1>3, <1>4, <1>5 DEF Surjection, Injection, IsInjective
<1>7. Cardinality(RowKeys(s)) = Cardinality(1 .. n)
  BY <1>2, <1>6, FS_Surjection
<1> QED
  BY <1>2, <1>7 DEF n

\* A screen that holds objects of the list, each once, and has drawn them.
LEMMA ScreenUpToDate ==
    ASSUME TypeOK, ListFollows, events = << >>, NEW s \in Lists,
           Held(s) \subseteq {list[i] : i \in DOMAIN list},
           \A i, j \in DOMAIN copy[s] : copy[s][i] = copy[s][j] => i = j,
           DrawnNow(s)
    PROVE  UpToDate(s)
<1>1. \A i \in DOMAIN copy[s] : \E j \in DOMAIN list : copy[s][i] = list[j]
  BY DEF Held
<1>2. \A i, j \in DOMAIN copy[s] :
         objects[copy[s][i]].key = objects[copy[s][j]].key => i = j
  BY <1>1 DEF ListFollows, ListedOnce
<1>3. Len(copy[s]) = Cardinality(RowKeys(s))
  BY <1>2, RowsOnce
<1>4. ASSUME NEW i \in DOMAIN copy[s], objects[copy[s][i]].key \notin removed
      PROVE  /\ objects[copy[s][i]].content = view[objects[copy[s][i]].key]
             /\ rows[s][i] = CellFor(objects[copy[s][i]])
  BY <1>1, <1>4, QuietShows DEF DrawnNow
<1> QED
  BY <1>3, <1>4 DEF UpToDate

LEMMA RootIsExact == ScreensInv => RootFollows
<1> SUFFICES ASSUME ScreensInv, delegate = "root", events = << >>
             PROVE  UpToDate("root") /\ RowKeys("root") = Existing \cup removed
  BY DEF RootFollows
<1>1. /\ TypeOK /\ ListFollows /\ copy["root"] = list /\ DrawnNow("root")
      /\ "root" \in Lists
  BY DEF ScreensInv, DrawnInv, RootInv, Lists
<1>2. Held("root") = {list[i] : i \in DOMAIN list}
  BY <1>1 DEF Held
<1>3. UpToDate("root")
  BY <1>1, <1>2, ListedOnceEach, ScreenUpToDate DEF ListFollows
<1>4. RowKeys("root") = {objects[list[i]].key : i \in DOMAIN list}
  BY <1>1 DEF RowKeys
<1>5. \A i \in DOMAIN list : objects[list[i]].key \in Existing \cup removed
  BY <1>1, QuietShows, ListedIsObject DEF Existing
<1>6. \A k \in Existing \cup removed : \E i \in DOMAIN list : objects[list[i]].key = k
  BY <1>1, QuietShows DEF Existing, TypeOK
<1> QED
  BY <1>3, <1>4, <1>5, <1>6

LEMMA MyPlacesAreExact == ScreensInv => MyPlacesExact
<1> SUFFICES ASSUME ScreensInv, myOpen, events = << >>
             PROVE  /\ UpToDate("my")
                    /\ RowKeys("my") \ removed =
                         {k \in Existing \ removed : user \in view[k].visitors}
  BY DEF MyPlacesExact
<1>1. /\ TypeOK /\ ListFollows /\ DrawnNow("my") /\ "my" \in Lists
      /\ \A i, j \in DOMAIN copy["my"] : copy["my"][i] = copy["my"][j] => i = j
      /\ Held("my") \subseteq {list[i] : i \in DOMAIN list}
      /\ \A i \in DOMAIN list : objects[list[i]].key \notin removed =>
            (list[i] \in Held("my") <=> user \in objects[list[i]].content.visitors)
  BY DEF ScreensInv, DrawnInv, MyInv, Lists
<1>2. UpToDate("my")
  BY <1>1, ScreenUpToDate
<1>3. RowKeys("my") = {objects[o].key : o \in Held("my")}
  BY DEF RowKeys, Held
<1>4. ASSUME NEW k \in RowKeys("my") \ removed
      PROVE  k \in Existing \ removed /\ user \in view[k].visitors
  <2>1. PICK i \in DOMAIN list : list[i] \in Held("my") /\ objects[list[i]].key = k
    BY <1>1, <1>3
  <2>2. user \in objects[list[i]].content.visitors
    BY <1>1, <2>1
  <2>3. k \in Keys /\ view[k] # None /\ objects[list[i]].content = view[k]
    BY <1>1, <1>4, <2>1, QuietShows, ListedIsObject
  <2> QED
    BY <1>4, <2>2, <2>3 DEF Existing
<1>5. ASSUME NEW k \in Existing \ removed, user \in view[k].visitors
      PROVE  k \in RowKeys("my")
  <2>1. PICK i \in DOMAIN list : objects[list[i]].key = k
    BY <1>1, QuietShows DEF Existing
  <2>2. objects[list[i]].content = view[k]
    BY <1>1, <2>1, QuietShows
  <2>3. list[i] \in Held("my")
    BY <1>1, <1>5, <2>1, <2>2
  <2> QED
    BY <1>3, <2>1, <2>3
<1> QED
  BY <1>2, <1>4, <1>5

\* As long as the root list is the delegate, it shows what the SDK's cache has,
\* each place once, drawn from the objects it would open, whenever the main
\* queue has been served (Places.swift:136-172, PlacesViewController.swift:20-37).
THEOREM RootShowsThePlaces == Spec => []RootFollows
BY ScreensInvariant, RootIsExact, PTL

\* As long as My Places is open, it shows just the places the user has visited
\* (Places.swift:202-213), although every object of its rows may be replaced
\* and changed by other screens, whenever the main queue has been served.
THEOREM MyPlacesShowsTheVisits == Spec => []MyPlacesExact
BY ScreensInvariant, MyPlacesAreExact, PTL

=============================================================================

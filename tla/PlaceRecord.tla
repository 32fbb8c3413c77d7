---------------------------- MODULE PlaceRecord ----------------------------
(***************************************************************************)
(* One place, as the app keeps it in a Place object (Place.swift) and as   *)
(* the database keeps it under Places/<key>: placeFromDictionary and       *)
(* dictionaryFromPlace carry every field over unchanged, so one record     *)
(* stands for both.  The fields that only an administrator changes (name,  *)
(* info, position, image names, and `visits', which no code increments)    *)
(* are one value `info'.                                                   *)
(***************************************************************************)
EXTENDS Integers, Sequences, FiniteSets

CONSTANTS
    Users,   \* the uids that Firebase Auth hands out
    Infos    \* the values of the fields that only an administrator changes

Stars == 0 .. 5   \* Int(rating) of a five-star CosmosView

(***************************************************************************)
(* A name in `visitors' or a key of `ratings': the uid of the signed-in    *)
(* user, or the number that Places.visit and Places.rate make up for an    *)
(* anonymous one ("Anonymous3" and "3").                                   *)
(***************************************************************************)
Uid(u) == <<"uid", u>>
Anonymous(n) == <<"anon", n>>
Name == {Uid(u) : u \in Users} \cup ({"anon"} \X (Nat \ {0}))

(***************************************************************************)
(* `ratings' is the dictionary as a finite set of name-stars pairs, and    *)
(* `rating' the fraction <<sum, count>> that calculateRating divides.      *)
(***************************************************************************)
Record == {r \in [info     : Infos,
                  rating   : Nat \X (Nat \ {0}),
                  visitors : Seq(Name),
                  ratings  : SUBSET (Name \X Stars)] : IsFiniteSet(r.ratings)}

NoRating == <<0, 1>>

NewRecord(info) ==
    [info |-> info, rating |-> NoRating, visitors |-> << >>, ratings |-> {}]

HasVisited(rec, name) == \E i \in DOMAIN rec.visitors : rec.visitors[i] = name
HasRated(rec, name) == \E pair \in rec.ratings : pair[1] = name

-----------------------------------------------------------------------------
(* The operations of Place and the names that Places makes up.             *)

\* How many of the ratings are of so many stars, and the loop's sum.
Given(ratings, stars) == Cardinality({pair \in ratings : pair[2] = stars})
RatingsSum(ratings) ==
    Given(ratings, 1) + 2 * Given(ratings, 2) + 3 * Given(ratings, 3)
      + 4 * Given(ratings, 4) + 5 * Given(ratings, 5)

\* Variant: divided by the number of the other ratings.
AverageOverOthers(ratings) ==
    IF ratings = {}
    THEN NoRating
    ELSE <<RatingsSum(ratings), Cardinality(ratings) - 1>>

CalculateRating(ratings) ==
    IF ratings = {}
    THEN NoRating
    ELSE <<RatingsSum(ratings), Cardinality(ratings)>>

\* Variant: the visitor takes the place of the others.
VisitedAlone(rec, name) == [rec EXCEPT !.visitors = <<name>>]

\* Place.visit: the caller (Places.visit) has checked that the name is new.
Visited(rec, name) == [rec EXCEPT !.visitors = Append(@, name)]

\* Variant: the average is taken before the rating is stored.
RatedLate(rec, name, stars) ==
    [rec EXCEPT !.ratings = {pair \in @ : pair[1] # name}
                              \cup {<<name, stars>>},
                !.rating = CalculateRating(rec.ratings)]

\* Place.rate: the dictionary assignment replaces the name's old rating.
Rated(rec, name, stars) ==
    LET ratings == {pair \in rec.ratings : pair[1] # name}
                     \cup {<<name, stars>>}
    IN [rec EXCEPT !.ratings = ratings, !.rating = CalculateRating(ratings)]

\* The names that Places.visit and Places.rate give the user (`none' when
\* nobody is signed in).
VisitorName(rec, user, none) ==
    IF user = none THEN Anonymous(Len(rec.visitors) + 1) ELSE Uid(user)

\* Variant: the number of Places.visit.
RaterNameByVisitors(rec, user, none) == VisitorName(rec, user, none)

RaterName(rec, user, none) ==
    IF user = none THEN Anonymous(Cardinality(rec.ratings) + 1) ELSE Uid(user)

\* Variant: the test of Places.visit left out.
IsAnyVisitor(rec, name) == TRUE

\* Places.visit writes only for a name that is not listed.
IsNewVisitor(rec, name) == ~ HasVisited(rec, name)

-----------------------------------------------------------------------------
(* What Firebase hands back.  A node whose keys are all integers and       *)
(* dense (the largest below twice their number) arrives as an array, not   *)
(* as a dictionary; placeFromDictionary casts `ratings' to a dictionary.   *)

ArrivesAsArray(ratings) ==
    /\ ratings # {}
    /\ \A pair \in ratings : /\ pair[1][1] = "anon"
                             /\ pair[1][2] < 2 * Cardinality(ratings)

PlaceFromDictionarySucceeds(rec) == ~ ArrivesAsArray(rec.ratings)

-----------------------------------------------------------------------------
(* What the code relies on in every record, wherever a copy of it lies.    *)

\* The average that the list shows is the average of the stored ratings.
RatingMatches(rec) == rec.rating = CalculateRating(rec.ratings)

\* A visitor is listed once, and an anonymous one under its own position,
\* which is why the next anonymous name is always new.
VisitorsWellFormed(rec) ==
    /\ \A i, j \in DOMAIN rec.visitors :
          rec.visitors[i] = rec.visitors[j] => i = j
    /\ \A i \in DOMAIN rec.visitors :
          rec.visitors[i][1] = "anon" => rec.visitors[i] = Anonymous(i)

\* One rating per name, and no anonymous number above their count, which is
\* why the next anonymous rating never replaces another one.
RatersWellFormed(rec) ==
    /\ \A p, q \in rec.ratings : p[1] = q[1] => p = q
    /\ \A p \in rec.ratings :
          p[1][1] = "anon" => p[1][2] <= Cardinality(rec.ratings)

GoodRecord(rec) ==
    /\ RatingMatches(rec)
    /\ VisitorsWellFormed(rec)
    /\ RatersWellFormed(rec)

=============================================================================

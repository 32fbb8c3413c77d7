-------------------------- MODULE StarRatingProofs --------------------------
(***************************************************************************)
(* What the star rating shows and records, for any number and size of      *)
(* stars and any fill mode, and what the rows of the list show.  The       *)
(* arithmetic is in the lemmas: a number x of Unit-ths is                  *)
(* x = whole * Unit + rest, and only the star the rest falls into can be   *)
(* filled in part.                                                         *)
(***************************************************************************)
EXTENDS StarScreens, TLAPS

USE DEF StarLeft, Update

\* FloorTo rounds down to a multiple of the step.
LEMMA FloorToBounds ==
    ASSUME NEW step \in Nat \ {0}, NEW x \in Int
    PROVE  /\ FloorTo(step, x) \in Int
           /\ FloorTo(step, x) <= x
           /\ x < FloorTo(step, x) + step
           /\ \E n \in Int : FloorTo(step, x) = n * step
<1> DEFINE n == x \div step
<1>1. n \in Int /\ n * step <= x /\ x < n * step + step
  OBVIOUS
<1>2. FloorTo(step, x) = n * step
  BY DEF FloorTo
<1> HIDE DEF n
<1>3. n * step \in Int
  BY <1>1
<1> QED
  BY <1>1, <1>2, <1>3

\* Products keep the order.
LEMMA TimesOrder ==
    ASSUME NEW k \in Nat \ {0}, NEW m \in Int, NEW n \in Int, m < n
    PROVE  m * k + k <= n * k
<1>1. n - m - 1 \in Nat
  OBVIOUS
<1>2. (n - m - 1) * k >= 0
  BY <1>1
<1>3. (n - m - 1) * k = n * k - m * k - k
  OBVIOUS
<1> QED
  BY <1>2, <1>3

\* FloorTo is the only multiple of the step that close below.
LEMMA FloorToIs ==
    ASSUME NEW step \in Nat \ {0}, NEW x \in Int, NEW n \in Int,
           n * step <= x, x < n * step + step
    PROVE  FloorTo(step, x) = n * step
<1>1. PICK m \in Int : FloorTo(step, x) = m * step
  BY FloorToBounds
<1>2. m * step <= x /\ x < m * step + step
  BY <1>1, FloorToBounds
<1>3. ~ (m < n)
  <2> SUFFICES ASSUME m < n PROVE FALSE
    OBVIOUS
  <2>1. m * step + step <= n * step
    BY TimesOrder
  <2>2. m * step \in Int /\ n * step \in Int
    OBVIOUS
  <2> QED
    BY <1>2, <2>1, <2>2
<1>4. ~ (n < m)
  <2> SUFFICES ASSUME n < m PROVE FALSE
    OBVIOUS
  <2>1. n * step + step <= m * step
    BY TimesOrder
  <2>2. m * step \in Int /\ n * step \in Int
    OBVIOUS
  <2> QED
    BY <1>2, <2>1, <2>2
<1>5. m = n
  BY <1>3, <1>4
<1> QED
  BY <1>1, <1>5

\* The unit has whole halves, tenths and twentieths, and a whole number for
\* every point of a star.
LEMMA UnitParts ==
    /\ Unit \in Nat \ {0}
    /\ Unit \div 2 \in Nat \ {0} /\ Unit = 2 * (Unit \div 2)
    /\ Unit \div 10 \in Nat \ {0} /\ Unit = 10 * (Unit \div 10)
    /\ Unit \div 20 \in Nat \ {0} /\ Unit = 20 * (Unit \div 20)
    /\ Unit \div StarSize \in Nat \ {0} /\ Unit = (Unit \div StarSize) * StarSize
<1>1. Unit \in Nat \ {0} /\ Unit % 20 = 0
  BY StarRatingAssumption
<1>2. /\ Unit \div 2 \in Nat \ {0} /\ Unit = 2 * (Unit \div 2)
      /\ Unit \div 10 \in Nat \ {0} /\ Unit = 10 * (Unit \div 10)
      /\ Unit \div 20 \in Nat \ {0} /\ Unit = 20 * (Unit \div 20)
  BY <1>1
<1>3. StarSize \in Nat \ {0} /\ Unit % StarSize = 0
  BY StarRatingAssumption
<1> DEFINE k == Unit \div StarSize
<1>4. k \in Int /\ Unit = k * StarSize + (Unit % StarSize)
  BY <1>1, <1>3
<1>5. Unit = k * StarSize
  BY <1>3, <1>4
<1>6. k \in Nat \ {0}
  <2>1. CASE k <= 0
    <3>1. (0 - k) * StarSize >= 0
      BY <1>3, <1>4, <2>1
    <3> QED
      BY <1>1, <1>3, <1>4, <1>5, <3>1
  <2> QED
    BY <1>4, <2>1
<1> QED
  BY <1>1, <1>2, <1>5, <1>6

\* Rounding leaves multiples of the step alone and does not pass them.
LEMMA RoundToWithin ==
    ASSUME NEW step \in Nat \ {0}, NEW m \in Nat, NEW x \in 0 .. m * step
    PROVE  /\ RoundTo(step, x) \in 0 .. m * step
           /\ RoundTo(step, m * step) = m * step
<1> DEFINE h == step \div 2
<1>1. h \in Nat /\ h < step
  OBVIOUS
<1>2. m * step \in Int /\ x \in Int /\ 0 <= x /\ x <= m * step
  OBVIOUS
<1> HIDE DEF h
<1>3. PICK n \in Int : /\ FloorTo(step, x + h) = n * step
                       /\ n * step <= x + h
                       /\ x + h < n * step + step
  <2>1. x + h \in Int
    BY <1>1, <1>2
  <2>2. PICK n \in Int : FloorTo(step, x + h) = n * step
    BY <2>1, FloorToBounds
  <2>3. n * step <= x + h /\ x + h < n * step + step
    BY <2>1, <2>2, FloorToBounds
  <2> QED
    BY <2>2, <2>3
<1>4. ~ (m < n)
  BY <1>1, <1>2, <1>3, TimesOrder
<1>5. ~ (n < 0)
  <2> SUFFICES ASSUME n < 0 PROVE FALSE
    OBVIOUS
  <2>1. n * step + step <= 0 * step
    BY TimesOrder
  <2> QED
    BY <1>1, <1>2, <1>3, <2>1
<1>6. n * step \in 0 .. m * step
  <2>1. CASE n = m
    BY <1>2, <2>1
  <2>2. CASE n < m
    BY <1>1, <1>2, <1>3, <1>5, <2>2, TimesOrder
  <2>3. n * step >= 0
    BY <1>5
  <2> QED
    BY <1>4, <2>1, <2>2, <2>3
<1>7. FloorTo(step, m * step + h) = m * step
  <2>1. /\ m * step + h \in Int /\ m \in Int
        /\ m * step <= m * step + h /\ m * step + h < m * step + step
    BY <1>1, <1>2
  <2> QED
    BY <2>1, FloorToIs
<1> QED
  BY <1>3, <1>6, <1>7 DEF RoundTo, h

\* A fill level is rounded to a fill level; an empty and a full star stay.
LEMMA RoundFillLevelWithin ==
    ASSUME NEW level \in 0 .. Unit
    PROVE  /\ RoundFillLevel(level) \in 0 .. Unit
           /\ RoundFillLevel(0) = 0
           /\ RoundFillLevel(Unit) = Unit
<1> DEFINE H == Unit \div 2
<1>1. Unit \in Nat \ {0} /\ H \in Nat \ {0} /\ Unit = 2 * H
  BY UnitParts
<1> HIDE DEF H
<1>2. CASE FillMode = "full"
  <2>1. /\ RoundTo(Unit, level) \in 0 .. Unit
        /\ RoundTo(Unit, Unit) = Unit
        /\ RoundTo(Unit, 0) = 0
    <3>1. 1 * Unit = Unit /\ 0 * Unit = 0
      BY <1>1
    <3>2. 0 \in 0 .. 0 * Unit /\ level \in 0 .. 1 * Unit
      BY <3>1
    <3> QED
      BY <1>1, <3>1, <3>2, RoundToWithin
  <2> QED
    BY <1>2, <2>1 DEF RoundFillLevel
<1>3. CASE FillMode = "half"
  <2>1. /\ RoundTo(H, level) \in 0 .. Unit
        /\ RoundTo(H, Unit) = Unit
        /\ RoundTo(H, 0) = 0
    <3>1. 2 * H = Unit /\ 0 * H = 0
      BY <1>1
    <3>2. 0 \in 0 .. 0 * H /\ level \in 0 .. 2 * H
      BY <3>1
    <3> QED
      BY <1>1, <3>1, <3>2, RoundToWithin
  <2> QED
    BY <1>3, <2>1 DEF RoundFillLevel, H
<1>4. CASE FillMode = "precise"
  BY <1>1, <1>4 DEF RoundFillLevel
<1> QED
  BY <1>2, <1>3, <1>4, StarRatingAssumption

\* In the full mode a star is filled from its middle on.
LEMMA RoundFillLevelFull ==
    ASSUME FillMode = "full", NEW level \in 0 .. Unit
    PROVE  RoundFillLevel(level) = IF 2 * level >= Unit THEN Unit ELSE 0
<1> DEFINE H == Unit \div 2
<1>1. Unit \in Nat \ {0} /\ H \in Nat \ {0} /\ Unit = 2 * H
  BY UnitParts
<1> HIDE DEF H
<1>2. 1 * Unit = Unit /\ 0 * Unit = 0
  BY <1>1
<1>3. CASE 2 * level >= Unit
  <2>1. /\ level + H \in Int
        /\ 1 * Unit <= level + H /\ level + H < 1 * Unit + Unit
    BY <1>1, <1>2, <1>3
  <2>2. FloorTo(Unit, level + H) = 1 * Unit
    BY <1>1, <2>1, FloorToIs
  <2> QED
    BY <1>2, <1>3, <2>2 DEF RoundFillLevel, RoundTo, H
<1>4. CASE 2 * level < Unit
  <2>1. /\ level + H \in Int
        /\ 0 * Unit <= level + H /\ level + H < 0 * Unit + Unit
    BY <1>1, <1>2, <1>4
  <2>2. \A n \in Int : n * Unit <= level + H /\ level + H < n * Unit + Unit
                         => FloorTo(Unit, level + H) = n * Unit
    BY <1>1, <2>1, FloorToIs
  <2>3. FloorTo(Unit, level + H) = 0 * Unit
    BY <2>1, <2>2
  <2> QED
    BY <1>1, <1>2, <1>4, <2>3 DEF RoundFillLevel, RoundTo, H
<1> QED
  BY <1>1, <1>3, <1>4

\* A rating as whole stars and a rest.
LEMMA WholeAndRest ==
    ASSUME NEW r \in Nat
    PROVE  \E n \in Nat : /\ FloorTo(Unit, r) = n * Unit
                          /\ r - n * Unit \in 0 .. Unit - 1
<1>1. Unit \in Nat \ {0} /\ r \in Int
  BY UnitParts
<1>2. PICK n \in Int : FloorTo(Unit, r) = n * Unit
  BY <1>1, FloorToBounds
<1>3. n * Unit <= r /\ r < n * Unit + Unit
  BY <1>1, <1>2, FloorToBounds
<1>4. ~ (n < 0)
  <2> SUFFICES ASSUME n < 0 PROVE FALSE
    OBVIOUS
  <2>1. n * Unit + Unit <= 0 * Unit
    BY <1>1, TimesOrder
  <2> QED
    BY <1>1, <1>3, <2>1
<1>5. n * Unit \in Int
  BY <1>1
<1> QED
  BY <1>1, <1>2, <1>3, <1>4, <1>5

\* What is displayed lies between no star and all stars, and differs from
\* the rating only by the rounding of the rest.
LEMMA DisplayedWithin ==
    ASSUME NEW r \in Nat, NEW n \in Nat,
           FloorTo(Unit, r) = n * Unit, r - n * Unit \in 0 .. Unit - 1
    PROVE  /\ DisplayedRating(r) \in 0 .. TotalStars * Unit
           /\ StarFillLevel(r - n * Unit) = RoundFillLevel(r - n * Unit)
           /\ n < TotalStars =>
                 DisplayedRating(r) = n * Unit + RoundFillLevel(r - n * Unit)
           /\ n >= TotalStars => DisplayedRating(r) = TotalStars * Unit
<1> DEFINE rest == r - n * Unit
<1>1. /\ Unit \in Nat \ {0} /\ TotalStars \in Nat \ {0}
      /\ n * Unit \in Nat /\ TotalStars * Unit \in Nat
  BY UnitParts, StarRatingAssumption
<1>2. rest \in 0 .. Unit - 1
  OBVIOUS
<1>3. RoundFillLevel(rest) \in 0 .. Unit
  BY <1>1, <1>2, RoundFillLevelWithin
<1>4. StarFillLevel(rest) = RoundFillLevel(rest)
  BY <1>1, <1>2 DEF StarFillLevel, Atleast, Atmost
<1>5. n < TotalStars => n * Unit + Unit <= TotalStars * Unit
  BY <1>1, TimesOrder
<1>6. n >= TotalStars => n * Unit >= TotalStars * Unit
  <2>1. n > TotalStars => TotalStars * Unit + Unit <= n * Unit
    BY <1>1, TimesOrder
  <2> QED
    BY <1>1, <2>1
<1>7. DisplayedRating(r) =
         Atleast(0, Atmost(TotalStars * Unit, n * Unit + RoundFillLevel(rest)))
  BY <1>4 DEF DisplayedRating
<1> HIDE DEF rest
<1>8. DisplayedRating(r) \in 0 .. TotalStars * Unit
  BY <1>1, <1>3, <1>7 DEF Atleast, Atmost
<1>9. n < TotalStars => DisplayedRating(r) = n * Unit + RoundFillLevel(rest)
  BY <1>1, <1>3, <1>5, <1>7 DEF Atleast, Atmost
<1>10. n >= TotalStars => DisplayedRating(r) = TotalStars * Unit
  BY <1>1, <1>3, <1>6, <1>7 DEF Atleast, Atmost
<1> QED
  BY <1>4, <1>8, <1>9, <1>10 DEF rest

\* Star i as createStarLayers draws it shows its share of the rating that
\* VoiceOver reads.
LEMMA DrawnShare ==
    ASSUME NEW r \in Nat, NEW i \in 1 .. TotalStars
    PROVE  /\ StarLayers(r)[i] \in 0 .. Unit
           /\ StarLayers(r)[i] =
                 Atleast(0, Atmost(Unit, DisplayedRating(r) - (i - 1) * Unit))
<1>1. /\ Unit \in Nat \ {0} /\ TotalStars \in Nat \ {0}
      /\ TotalStars * Unit \in Nat /\ (i - 1) * Unit \in Nat /\ i \in Int
  BY UnitParts, StarRatingAssumption
<1>2. PICK n \in Nat : /\ FloorTo(Unit, r) = n * Unit
                       /\ r - n * Unit \in 0 .. Unit - 1
  BY WholeAndRest
<1> DEFINE rest == r - n * Unit
<1>3. /\ RoundFillLevel(rest) \in 0 .. Unit
      /\ RoundFillLevel(0) = 0 /\ RoundFillLevel(Unit) = Unit
  BY <1>1, <1>2, RoundFillLevelWithin
<1>4. /\ DisplayedRating(r) \in 0 .. TotalStars * Unit
      /\ n < TotalStars => DisplayedRating(r) = n * Unit + RoundFillLevel(rest)
      /\ n >= TotalStars => DisplayedRating(r) = TotalStars * Unit
  BY <1>2, DisplayedWithin
<1>5. StarLayers(r)[i] = StarFillLevel(NumberOfFilledStars(r) - (i - 1) * Unit)
  BY DEF StarLayers
<1>6. i - 1 < TotalStars => (i - 1) * Unit + Unit <= TotalStars * Unit
  BY <1>1, TimesOrder
<1>7. i - 1 < n => (i - 1) * Unit + Unit <= n * Unit
  BY <1>1, TimesOrder
<1>8. n < i - 1 => n * Unit + Unit <= (i - 1) * Unit
  BY <1>1, TimesOrder
<1>9. n * Unit \in Nat /\ rest \in 0 .. Unit - 1 /\ r = n * Unit + rest
  BY <1>1, <1>2
<1>10. n < TotalStars => n * Unit + Unit <= TotalStars * Unit
  BY <1>1, TimesOrder
<1>11. n >= TotalStars => n * Unit >= TotalStars * Unit
  <2>1. n > TotalStars => TotalStars * Unit + Unit <= n * Unit
    BY <1>1, TimesOrder
  <2> QED
    BY <1>1, <2>1
<1> HIDE DEF rest
<1>12. CASE i - 1 < n
  <2>1. NumberOfFilledStars(r) - (i - 1) * Unit >= Unit
    BY <1>1, <1>6, <1>7, <1>9, <1>12 DEF NumberOfFilledStars, Atleast, Atmost
  <2>2. NumberOfFilledStars(r) \in Int
    BY <1>1 DEF NumberOfFilledStars, Atleast, Atmost
  <2>3. StarLayers(r)[i] = Unit
    BY <1>1, <1>3, <1>5, <2>1, <2>2 DEF StarFillLevel, Atleast, Atmost
  <2>4. DisplayedRating(r) - (i - 1) * Unit >= Unit
    BY <1>1, <1>3, <1>4, <1>6, <1>7, <1>9, <1>12
  <2> QED
    BY <1>1, <1>4, <2>3, <2>4 DEF Atleast, Atmost
<1>13. CASE i - 1 = n
  <2>1. NumberOfFilledStars(r) - (i - 1) * Unit = rest
    BY <1>1, <1>9, <1>10, <1>13 DEF NumberOfFilledStars, Atleast, Atmost
  <2>2. StarLayers(r)[i] = RoundFillLevel(rest)
    BY <1>1, <1>5, <1>9, <2>1 DEF StarFillLevel, Atleast, Atmost
  <2>3. DisplayedRating(r) - (i - 1) * Unit = RoundFillLevel(rest)
    BY <1>1, <1>3, <1>4, <1>9, <1>13
  <2> QED
    BY <1>1, <1>3, <2>2, <2>3 DEF Atleast, Atmost
<1>14. CASE n < i - 1
  <2>1. NumberOfFilledStars(r) - (i - 1) * Unit <= 0
    BY <1>1, <1>8, <1>9, <1>14 DEF NumberOfFilledStars, Atleast, Atmost
  <2>2. NumberOfFilledStars(r) \in Int
    BY <1>1 DEF NumberOfFilledStars, Atleast, Atmost
  <2>3. StarLayers(r)[i] = 0
    BY <1>1, <1>3, <1>5, <2>1, <2>2 DEF StarFillLevel, Atleast, Atmost
  <2>4. DisplayedRating(r) - (i - 1) * Unit <= 0
    BY <1>1, <1>3, <1>4, <1>8, <1>9, <1>14
  <2> QED
    BY <1>1, <1>4, <2>3, <2>4 DEF Atleast, Atmost
<1> QED
  BY <1>1, <1>12, <1>13, <1>14

LEMMA SpokenWithin ==
    ASSUME NEW r \in Nat
    PROVE  AccessibilityValue(r) \in 0 .. TotalStars * Unit
<1> DEFINE tenth == Unit \div 10
<1>1. /\ tenth \in Nat \ {0} /\ Unit = 10 * tenth /\ TotalStars \in Nat
  BY UnitParts, StarRatingAssumption
<1> HIDE DEF tenth
<1>2. TotalStars * Unit = (10 * TotalStars) * tenth /\ 10 * TotalStars \in Nat
  BY <1>1
<1>3. DisplayedRating(r) \in 0 .. TotalStars * Unit
  BY WholeAndRest, DisplayedWithin
<1>4. RoundTo(tenth, DisplayedRating(r)) \in 0 .. (10 * TotalStars) * tenth
  BY <1>1, <1>2, <1>3, RoundToWithin
<1> QED
  BY <1>2, <1>4 DEF AccessibilityValue, tenth

\* In the full mode the stars displayed are whole ones, and star i is one of
\* them from the middle of the rating on.
LEMMA DisplayedFull ==
    ASSUME FillMode = "full", NEW r \in Nat
    PROVE  /\ \E m \in 0 .. TotalStars : DisplayedRating(r) = m * Unit
           /\ \A i \in 1 .. TotalStars :
                 DisplayedRating(r) >= i * Unit <=> 2 * r >= 2 * (i * Unit) - Unit
<1>1. Unit \in Nat \ {0} /\ TotalStars \in Nat \ {0}
  BY UnitParts, StarRatingAssumption
<1>2. PICK n \in Nat : /\ FloorTo(Unit, r) = n * Unit
                       /\ r - n * Unit \in 0 .. Unit - 1
  BY WholeAndRest
<1> DEFINE rest == r - n * Unit
<1>3. RoundFillLevel(rest) = IF 2 * rest >= Unit THEN Unit ELSE 0
  BY <1>1, <1>2, RoundFillLevelFull
<1>4. /\ n < TotalStars => DisplayedRating(r) = n * Unit + RoundFillLevel(rest)
      /\ n >= TotalStars => DisplayedRating(r) = TotalStars * Unit
  BY <1>2, DisplayedWithin
<1>5. n * Unit \in Nat /\ rest \in 0 .. Unit - 1 /\ r = n * Unit + rest
  BY <1>1, <1>2
<1> HIDE DEF rest
<1>6. \E m \in 0 .. TotalStars : DisplayedRating(r) = m * Unit
  <2>1. CASE n >= TotalStars
    <3>1. TotalStars \in 0 .. TotalStars
      BY <1>1
    <3> QED
      BY <1>4, <2>1, <3>1
  <2>2. CASE n < TotalStars /\ 2 * rest >= Unit
    <3>1. n + 1 \in 0 .. TotalStars /\ (n + 1) * Unit = n * Unit + Unit
      BY <1>1, <2>2
    <3> QED
      BY <1>3, <1>4, <2>2, <3>1
  <2>3. CASE n < TotalStars /\ ~ (2 * rest >= Unit)
    <3>1. n \in 0 .. TotalStars /\ n * Unit = n * Unit + 0
      BY <1>1, <1>5, <2>3
    <3> QED
      BY <1>3, <1>4, <2>3, <3>1
  <2> QED
    BY <1>1, <2>1, <2>2, <2>3
<1>7. ASSUME NEW i \in 1 .. TotalStars
      PROVE  DisplayedRating(r) >= i * Unit <=> 2 * r >= 2 * (i * Unit) - Unit
  <2>1. i \in Int /\ i * Unit \in Nat /\ TotalStars * Unit \in Nat
    BY <1>1
  <2>2. i <= n => i * Unit <= n * Unit
    <3>1. i < n => i * Unit + Unit <= n * Unit
      BY <1>1, TimesOrder
    <3> QED
      BY <1>1, <1>5, <2>1, <3>1
  <2>3. i <= TotalStars => i * Unit <= TotalStars * Unit
    <3>1. i < TotalStars => i * Unit + Unit <= TotalStars * Unit
      BY <1>1, TimesOrder
    <3> QED
      BY <1>1, <2>1, <3>1
  <2>4. n + 1 < i => n * Unit + Unit + Unit <= i * Unit
    <3>1. n + 1 < i => (n + 1) * Unit + Unit <= i * Unit
      BY <1>1, TimesOrder
    <3>2. (n + 1) * Unit = n * Unit + Unit
      BY <1>1
    <3> QED
      BY <3>1, <3>2
  <2>5. i = n + 1 => i * Unit = n * Unit + Unit
    BY <1>1
  <2>6. CASE n >= TotalStars
    BY <1>1, <1>4, <1>5, <2>1, <2>2, <2>3, <2>6
  <2>7. CASE n < TotalStars /\ i <= n
    BY <1>1, <1>3, <1>4, <1>5, <2>1, <2>2, <2>7
  <2>8. CASE n < TotalStars /\ i = n + 1
    BY <1>1, <1>3, <1>4, <1>5, <2>1, <2>5, <2>8
  <2>9. CASE n < TotalStars /\ n + 1 < i
    BY <1>1, <1>3, <1>4, <1>5, <2>1, <2>4, <2>9
  <2> QED
    BY <1>1, <2>1, <2>6, <2>7, <2>8, <2>9
<1> QED
  BY <1>6, <1>7

\* A touch as whole pitches (a star and its margin) and a rest.
LEMMA PitchAndRest ==
    ASSUME NEW position \in Nat
    PROVE  LET pitch == StarSize + StarMargin
               whole == position \div pitch
           IN  /\ pitch \in Nat \ {0} /\ pitch >= StarSize
               /\ whole \in Nat /\ whole * pitch \in Nat
               /\ position - whole * pitch \in 0 .. pitch - 1
<1> DEFINE pitch == StarSize + StarMargin
           whole == position \div pitch
<1>1. pitch \in Nat \ {0} /\ pitch >= StarSize
  BY StarRatingAssumption
<1> HIDE DEF pitch
<1>2. whole \in Int /\ whole * pitch <= position /\ position < whole * pitch + pitch
  BY <1>1
<1> HIDE DEF whole
<1>3. ~ (whole < 0)
  <2> SUFFICES ASSUME whole < 0 PROVE FALSE
    OBVIOUS
  <2>1. whole * pitch + pitch <= 0 * pitch
    BY <1>1, <1>2, TimesOrder
  <2> QED
    BY <1>1, <1>2, <2>1
<1>4. whole \in Nat /\ whole * pitch \in Nat
  BY <1>1, <1>2, <1>3
<1>5. position - whole * pitch \in 0 .. pitch - 1
  BY <1>1, <1>2, <1>4
<1> QED
  BY <1>1, <1>4, <1>5 DEF pitch, whole

\* A touch comes to the rating (i - 1) and a twentieth where it has passed
\* the first 5 percent of star i.
LEMMA PreciseReaches ==
    ASSUME NEW position \in Int
    PROVE  /\ PreciseRating(position) \in Nat
           /\ \A i \in 1 .. TotalStars :
                 PreciseRating(position) >= (i - 1) * Unit + Unit \div 20
                    <=> InStar(i, position)
<1> DEFINE k == Unit \div StarSize
           t == Unit \div 20
           pitch == StarSize + StarMargin
           whole == position \div pitch
           rest == position - whole * pitch
<1>1. /\ Unit \in Nat \ {0} /\ k \in Nat \ {0} /\ Unit = k * StarSize
      /\ t \in Nat \ {0} /\ Unit = 20 * t
      /\ TotalStars \in Nat \ {0} /\ StarSize \in Nat \ {0} /\ StarMargin \in Nat
      /\ TotalStars * Unit \in Nat
  BY UnitParts, StarRatingAssumption
<1>2. pitch \in Nat \ {0} /\ pitch >= StarSize
  BY <1>1
<1>3. PreciseRating(position) =
         CASE position < 0 -> 0
           [] position >= 0 /\ whole > TotalStars -> TotalStars * Unit
           [] position >= 0 /\ whole <= TotalStars ->
                 whole * Unit + Atmost(Unit, rest * k)
  BY DEF PreciseRating
<1>4. position >= 0 => /\ whole \in Nat /\ whole * pitch \in Nat
                      /\ rest \in 0 .. pitch - 1
  BY PitchAndRest
<1>5. position >= 0 => position = whole * pitch + rest
  BY <1>2, <1>4
<1> HIDE DEF k, t, pitch, whole, rest
<1>6. CASE position < 0
  <2>1. PreciseRating(position) = 0
    BY <1>3, <1>6
  <2>2. ASSUME NEW i \in 1 .. TotalStars
        PROVE  (i - 1) * Unit >= 0 /\ (i - 1) * pitch >= 0
    BY <1>1, <1>2
  <2>3. ASSUME NEW i \in 1 .. TotalStars
        PROVE  ~ InStar(i, position) /\ ~ (0 >= (i - 1) * Unit + t)
    <3>1. (i - 1) * Unit \in Int /\ (i - 1) * pitch \in Int
      BY <1>1, <1>2
    <3>2. 20 * (position - (i - 1) * pitch) < StarSize
      BY <1>1, <1>6, <2>2, <3>1
    <3> QED
      BY <1>1, <2>2, <3>1, <3>2 DEF InStar, pitch
  <2> QED
    BY <2>1, <2>3 DEF t
<1>7. CASE position >= 0 /\ whole > TotalStars
  <2>1. PreciseRating(position) = TotalStars * Unit
    BY <1>1, <1>3, <1>4, <1>7
  <2>2. ASSUME NEW i \in 1 .. TotalStars
        PROVE  InStar(i, position) /\ TotalStars * Unit >= (i - 1) * Unit + t
    <3>1. i - 1 < TotalStars /\ i - 1 < whole /\ i \in Int /\ whole \in Int
      BY <1>1, <1>4, <1>7
    <3>2. (i - 1) * Unit + Unit <= TotalStars * Unit
      BY <1>1, <3>1, TimesOrder
    <3>3. (i - 1) * pitch + pitch <= whole * pitch
      BY <1>2, <3>1, TimesOrder
    <3>4. (i - 1) * Unit \in Int /\ (i - 1) * pitch \in Int
      BY <1>1, <1>2, <3>1
    <3>5. 20 * (position - (i - 1) * pitch) >= StarSize
      BY <1>1, <1>2, <1>4, <1>5, <1>7, <3>3, <3>4
    <3> QED
      BY <1>1, <3>2, <3>4, <3>5 DEF InStar, pitch
  <2> QED
    BY <1>1, <2>1, <2>2 DEF t
<1>8. CASE position >= 0 /\ whole <= TotalStars
  <2> DEFINE part == Atmost(Unit, rest * k)
  <2>1. PreciseRating(position) = whole * Unit + part
    BY <1>3, <1>8
  <2>2. whole * Unit \in Nat /\ rest * k \in Nat /\ part \in 0 .. Unit
    BY <1>1, <1>2, <1>4, <1>8 DEF Atmost
  <2>3. part >= t <=> 20 * rest >= StarSize
    <3>1. rest \in Nat
      BY <1>2, <1>4, <1>8
    <3>2. part >= t <=> rest * k >= t
      BY <1>1, <2>2 DEF Atmost
    <3>3. rest * k >= t <=> (20 * rest) * k >= StarSize * k
      <4>1. (20 * rest) * k = 20 * (rest * k) /\ StarSize * k = 20 * t
        BY <1>1, <3>1
      <4> QED
        BY <1>1, <2>2, <4>1
    <3>4. 20 * rest < StarSize => (20 * rest) * k + k <= StarSize * k
      <4>1. 20 * rest \in Int /\ StarSize \in Int
        BY <1>1, <3>1
      <4> QED
        BY <1>1, <4>1, TimesOrder
    <3>5. StarSize < 20 * rest => StarSize * k + k <= (20 * rest) * k
      <4>1. 20 * rest \in Int /\ StarSize \in Int
        BY <1>1, <3>1
      <4> QED
        BY <1>1, <4>1, TimesOrder
    <3>6. (20 * rest) * k \in Int /\ StarSize * k \in Int
      BY <1>1, <3>1
    <3> QED
      BY <1>1, <3>1, <3>2, <3>3, <3>4, <3>5, <3>6
  <2> HIDE DEF part
  <2>4. ASSUME NEW i \in 1 .. TotalStars
        PROVE  whole * Unit + part >= (i - 1) * Unit + t <=> InStar(i, position)
    <3>1. /\ i - 1 \in Int /\ whole \in Int
          /\ (i - 1) * Unit \in Int /\ (i - 1) * pitch \in Int
      BY <1>1, <1>2, <1>4, <1>8
    <3>2. InStar(i, position) <=> 20 * (position - (i - 1) * pitch) >= StarSize
      BY DEF InStar, pitch
    <3>3. CASE i - 1 < whole
      <4>1. (i - 1) * Unit + Unit <= whole * Unit
        BY <1>1, <3>1, <3>3, TimesOrder
      <4>2. (i - 1) * pitch + pitch <= whole * pitch
        BY <1>2, <3>1, <3>3, TimesOrder
      <4>3. whole * Unit + part >= (i - 1) * Unit + t
        BY <1>1, <2>2, <3>1, <4>1
      <4>4. position - (i - 1) * pitch >= StarSize
        BY <1>1, <1>2, <1>4, <1>5, <1>8, <3>1, <4>2
      <4>5. position - (i - 1) * pitch \in Int
        BY <3>1
      <4> HIDE DEF pitch
      <4>6. 20 * (position - (i - 1) * pitch) >= StarSize
        BY <1>1, <4>4, <4>5
      <4> QED
        BY <3>2, <4>3, <4>6
    <3>4. CASE i - 1 = whole
      BY <1>1, <1>2, <1>4, <1>5, <1>8, <2>2, <2>3, <3>1, <3>2, <3>4
    <3>5. CASE whole < i - 1
      <4>1. whole * Unit + Unit <= (i - 1) * Unit
        BY <1>1, <3>1, <3>5, TimesOrder
      <4>2. whole * pitch + pitch <= (i - 1) * pitch
        BY <1>2, <3>1, <3>5, TimesOrder
      <4>3. ~ (whole * Unit + part >= (i - 1) * Unit + t)
        BY <1>1, <2>2, <3>1, <4>1
      <4>4. position - (i - 1) * pitch < 0
        BY <1>2, <1>4, <1>5, <1>8, <3>1, <4>2
      <4>5. position - (i - 1) * pitch \in Int
        BY <3>1
      <4> HIDE DEF pitch
      <4>6. ~ (20 * (position - (i - 1) * pitch) >= StarSize)
        BY <1>1, <4>4, <4>5
      <4> QED
        BY <3>2, <4>3, <4>6
    <3> QED
      BY <3>1, <3>3, <3>4, <3>5
  <2> QED
    BY <2>1, <2>2, <2>4 DEF t
<1> QED
  BY <1>2, <1>4, <1>6, <1>7, <1>8, StarRatingAssumption

\* The favour of the fill mode is not negative; a touch never gives more than
\* all stars.
LEMMA TouchWithin ==
    ASSUME NEW position \in Int
    PROVE  TouchRating(position) \in 0 .. TotalStars * Unit
<1> DEFINE favour == CASE FillMode = "full"    -> 9 * (Unit \div 20)
                       [] FillMode = "half"    -> Unit \div 5
                       [] FillMode = "precise" -> 0
           r == PreciseRating(position) + favour
<1>1. /\ Unit \in Nat \ {0} /\ TotalStars \in Nat \ {0}
      /\ MinTouchRating \in 0 .. TotalStars
      /\ FillMode \in {"full", "half", "precise"}
  BY UnitParts, StarRatingAssumption
<1>2. favour \in Nat
  BY <1>1
<1> HIDE DEF favour
<1>3. r \in Nat
  <2>1. PreciseRating(position) \in Nat
    BY PreciseReaches
  <2> QED
    BY <1>2, <2>1
<1> HIDE DEF r
<1>4. DisplayedRating(r) \in 0 .. TotalStars * Unit
  BY <1>3, WholeAndRest, DisplayedWithin
<1>5. MinTouchRating * Unit \in 0 .. TotalStars * Unit
  <2>1. MinTouchRating < TotalStars => MinTouchRating * Unit + Unit <= TotalStars * Unit
    BY <1>1, TimesOrder
  <2>2. MinTouchRating * Unit \in Nat /\ TotalStars * Unit \in Nat
    BY <1>1
  <2> QED
    BY <1>1, <2>1, <2>2
<1>6. TouchRating(position) = Atleast(MinTouchRating * Unit, DisplayedRating(r))
  BY DEF TouchRating, r, favour
<1> QED
  BY <1>4, <1>5, <1>6 DEF Atleast

\* In the full mode a touch gives whole stars: the lowest rating, and every
\* star whose first 5 percent the finger has passed.
LEMMA TouchFull ==
    ASSUME FillMode = "full", NEW position \in Int
    PROVE  /\ \E m \in 0 .. TotalStars : TouchRating(position) = m * Unit
           /\ \A i \in 1 .. TotalStars :
                 TouchRating(position) >= i * Unit
                    <=> i <= MinTouchRating \/ InStar(i, position)
<1> DEFINE t == Unit \div 20
           precise == PreciseRating(position)
           r == precise + 9 * t
<1>1. /\ Unit \in Nat \ {0} /\ t \in Nat \ {0} /\ Unit = 20 * t
      /\ TotalStars \in Nat \ {0} /\ MinTouchRating \in 0 .. TotalStars
  BY UnitParts, StarRatingAssumption
<1>2. TouchRating(position) = Atleast(MinTouchRating * Unit, DisplayedRating(r))
  BY DEF TouchRating
<1>3. /\ precise \in Nat
      /\ \A i \in 1 .. TotalStars :
            precise >= (i - 1) * Unit + t <=> InStar(i, position)
  BY PreciseReaches
<1> HIDE DEF t, precise
<1>4. r \in Nat
  BY <1>1, <1>3
<1>5. /\ \E m \in 0 .. TotalStars : DisplayedRating(r) = m * Unit
      /\ \A i \in 1 .. TotalStars :
            DisplayedRating(r) >= i * Unit <=> 2 * r >= 2 * (i * Unit) - Unit
  BY <1>4, DisplayedFull
<1>6. \A i \in 1 .. TotalStars : DisplayedRating(r) >= i * Unit <=> InStar(i, position)
  <2> TAKE i \in 1 .. TotalStars
  <2>1. i * Unit \in Nat /\ (i - 1) * Unit = i * Unit - Unit
    BY <1>1
  <2>2. 2 * r >= 2 * (i * Unit) - Unit <=> precise >= (i - 1) * Unit + t
    BY <1>1, <1>3, <2>1
  <2> QED
    BY <1>3, <1>5, <2>2
<1> HIDE DEF r
<1>7. \E m \in 0 .. TotalStars : TouchRating(position) = m * Unit
  BY <1>1, <1>2, <1>5 DEF Atleast
<1>8. DisplayedRating(r) \in Int /\ MinTouchRating * Unit \in Int
  BY <1>1, <1>5
<1>9. \A i \in 1 .. TotalStars : MinTouchRating * Unit >= i * Unit <=> i <= MinTouchRating
  <2> TAKE i \in 1 .. TotalStars
  <2>1. i < MinTouchRating => i * Unit + Unit <= MinTouchRating * Unit
    BY <1>1, TimesOrder
  <2>2. MinTouchRating < i => MinTouchRating * Unit + Unit <= i * Unit
    BY <1>1, TimesOrder
  <2>3. i * Unit \in Int /\ i \in Int /\ MinTouchRating \in Int
    BY <1>1
  <2>4. i = MinTouchRating => i * Unit = MinTouchRating * Unit
    OBVIOUS
  <2> QED
    BY <1>1, <1>8, <2>1, <2>2, <2>3, <2>4
<1>10. \A i \in 1 .. TotalStars :
          TouchRating(position) >= i * Unit
             <=> i <= MinTouchRating \/ InStar(i, position)
  <2> TAKE i \in 1 .. TotalStars
  <2>1. i * Unit \in Int
    BY <1>1
  <2>2. TouchRating(position) >= i * Unit
           <=> MinTouchRating * Unit >= i * Unit \/ DisplayedRating(r) >= i * Unit
    BY <1>2, <1>8, <2>1 DEF Atleast
  <2> QED
    BY <1>6, <1>9, <2>2
<1> QED
  BY <1>7, <1>10

-----------------------------------------------------------------------------
(* Rounding keeps the order at every step from a finger to a rating.  The  *)
(* one that does not is PreciseRating itself: with no margin between the   *)
(* stars a finger just beyond the last star means the last star and a bit, *)
(* and one further on means the last star and no more.  What is displayed  *)
(* is the last star either way.                                            *)

\* Two multiples of a step are in the order of their numbers.
LEMMA MultiplesInOrder ==
    ASSUME NEW k \in Nat \ {0}, NEW m \in Int, NEW n \in Int, m <= n
    PROVE  m * k <= n * k
<1>1. m * k \in Int /\ n * k \in Int
  OBVIOUS
<1>2. CASE m < n
  BY <1>1, <1>2, TimesOrder
<1>3. CASE m = n
  BY <1>1, <1>3
<1> QED
  BY <1>2, <1>3

\* FloorTo keeps the order.
LEMMA FloorInOrder ==
    ASSUME NEW step \in Nat \ {0}, NEW x \in Int, NEW y \in Int, x <= y
    PROVE  FloorTo(step, x) <= FloorTo(step, y)
<1>1. PICK m \in Int : FloorTo(step, x) = m * step
  BY FloorToBounds
<1>2. PICK n \in Int : FloorTo(step, y) = n * step
  BY FloorToBounds
<1>3. m * step <= x /\ y < n * step + step
  BY <1>1, <1>2, FloorToBounds
<1>4. m * step \in Int /\ n * step \in Int
  OBVIOUS
<1>5. ~ (n < m)
  <2> SUFFICES ASSUME n < m PROVE FALSE
    OBVIOUS
  <2>1. n * step + step <= m * step
    BY TimesOrder
  <2> QED
    BY <1>3, <1>4, <2>1
<1> QED
  BY <1>1, <1>2, <1>5, MultiplesInOrder

\* A star filled further is drawn filled further, or the same.
LEMMA FillLevelInOrder ==
    ASSUME NEW a \in 0 .. Unit, NEW b \in 0 .. Unit, a <= b
    PROVE  RoundFillLevel(a) <= RoundFillLevel(b)
<1> DEFINE H == Unit \div 2
           h == H \div 2
<1>1. Unit \in Nat \ {0} /\ H \in Nat \ {0} /\ h \in Nat
  BY UnitParts
<1> HIDE DEF H, h
<1>2. a \in Int /\ b \in Int
  BY <1>1
<1>3. CASE FillMode = "full"
  <2>1. a + H \in Int /\ b + H \in Int /\ a + H <= b + H
    BY <1>1, <1>2
  <2>2. FloorTo(Unit, a + H) <= FloorTo(Unit, b + H)
    BY <1>1, <2>1, FloorInOrder
  <2> QED
    BY <1>3, <2>2 DEF RoundFillLevel, RoundTo, H
<1>4. CASE FillMode = "half"
  <2>1. a + h \in Int /\ b + h \in Int /\ a + h <= b + h
    BY <1>1, <1>2
  <2>2. FloorTo(H, a + h) <= FloorTo(H, b + h)
    BY <1>1, <2>1, FloorInOrder
  <2> QED
    BY <1>4, <2>2 DEF RoundFillLevel, RoundTo, H, h
<1>5. CASE FillMode = "precise"
  BY <1>5 DEF RoundFillLevel
<1> QED
  BY <1>3, <1>4, <1>5, StarRatingAssumption

\* A higher rating is displayed as a higher one, or as the same.
LEMMA DisplayedInOrder ==
    ASSUME NEW r \in Nat, NEW s \in Nat, r <= s
    PROVE  DisplayedRating(r) <= DisplayedRating(s)
<1>1. Unit \in Nat \ {0} /\ TotalStars \in Nat \ {0} /\ TotalStars * Unit \in Nat
  BY UnitParts, StarRatingAssumption
<1>2. PICK m \in Nat : /\ FloorTo(Unit, r) = m * Unit
                       /\ r - m * Unit \in 0 .. Unit - 1
  BY WholeAndRest
<1>3. PICK n \in Nat : /\ FloorTo(Unit, s) = n * Unit
                       /\ s - n * Unit \in 0 .. Unit - 1
  BY WholeAndRest
<1> DEFINE a == r - m * Unit
           b == s - n * Unit
<1>4. /\ DisplayedRating(r) \in 0 .. TotalStars * Unit
      /\ m < TotalStars => DisplayedRating(r) = m * Unit + RoundFillLevel(a)
      /\ m >= TotalStars => DisplayedRating(r) = TotalStars * Unit
  BY <1>2, DisplayedWithin
<1>5. /\ DisplayedRating(s) \in 0 .. TotalStars * Unit
      /\ n < TotalStars => DisplayedRating(s) = n * Unit + RoundFillLevel(b)
      /\ n >= TotalStars => DisplayedRating(s) = TotalStars * Unit
  BY <1>3, DisplayedWithin
<1>6. /\ m * Unit \in Nat /\ n * Unit \in Nat
      /\ a \in 0 .. Unit /\ b \in 0 .. Unit
      /\ r = m * Unit + a /\ s = n * Unit + b
  BY <1>1, <1>2, <1>3
<1>7. m * Unit <= n * Unit
  BY <1>1, <1>2, <1>3, FloorInOrder
<1> HIDE DEF a, b
<1>8. RoundFillLevel(a) \in 0 .. Unit /\ RoundFillLevel(b) \in 0 .. Unit
  BY <1>6, RoundFillLevelWithin
<1>9. CASE n >= TotalStars
  BY <1>1, <1>4, <1>5, <1>9
<1>10. CASE n < TotalStars /\ m < n
  <2>1. m * Unit + Unit <= n * Unit
    BY <1>1, <1>10, TimesOrder
  <2> QED
    BY <1>1, <1>4, <1>5, <1>6, <1>8, <1>10, <2>1
<1>11. CASE n < TotalStars /\ m = n
  <2>1. a <= b
    BY <1>6, <1>11
  <2>2. RoundFillLevel(a) <= RoundFillLevel(b)
    BY <1>6, <2>1, FillLevelInOrder
  <2> QED
    BY <1>1, <1>4, <1>5, <1>6, <1>8, <1>11, <2>2
<1>12. ~ (n < m)
  <2> SUFFICES ASSUME n < m PROVE FALSE
    OBVIOUS
  <2>1. n * Unit + Unit <= m * Unit
    BY <1>1, TimesOrder
  <2> QED
    BY <1>1, <1>6, <1>7, <2>1
<1> QED
  BY <1>1, <1>9, <1>10, <1>11, <1>12

\* The whole pitches before two fingers, and what each has of the next one.
LEMMA PitchesInOrder ==
    ASSUME NEW p \in Nat, NEW q \in Nat, p <= q
    PROVE  LET pitch == StarSize + StarMargin
           IN  \/ p \div pitch < q \div pitch
               \/ /\ p \div pitch = q \div pitch
                  /\ p - (p \div pitch) * pitch <= q - (q \div pitch) * pitch
<1> DEFINE pitch == StarSize + StarMargin
           m == p \div pitch
           n == q \div pitch
<1>1. /\ pitch \in Nat \ {0}
      /\ m \in Nat /\ m * pitch \in Nat /\ p - m * pitch \in 0 .. pitch - 1
      /\ n \in Nat /\ n * pitch \in Nat /\ q - n * pitch \in 0 .. pitch - 1
  BY PitchAndRest
<1> HIDE DEF pitch, m, n
<1>2. ~ (n < m)
  <2> SUFFICES ASSUME n < m PROVE FALSE
    OBVIOUS
  <2>1. n * pitch + pitch <= m * pitch
    BY <1>1, TimesOrder
  <2> QED
    BY <1>1, <2>1
<1>3. m = n => p - m * pitch <= q - n * pitch
  BY <1>1
<1>4. m < n \/ (m = n /\ p - m * pitch <= q - n * pitch)
  BY <1>1, <1>2, <1>3
<1> QED
  BY <1>4 DEF pitch, m, n

\* Up to the pitch after the last star a finger further right means a
\* rating that is higher or the same.
LEMMA PreciseInOrder ==
    ASSUME NEW p \in Int, NEW q \in Int, p <= q,
           q \div (StarSize + StarMargin) <= TotalStars
    PROVE  PreciseRating(p) <= PreciseRating(q)
<1> DEFINE k == Unit \div StarSize
           pitch == StarSize + StarMargin
           m == p \div pitch
           n == q \div pitch
           a == p - m * pitch
           b == q - n * pitch
<1>1. Unit \in Nat \ {0} /\ k \in Nat \ {0} /\ TotalStars \in Nat \ {0}
  BY UnitParts, StarRatingAssumption
<1>2. PreciseRating(p) =
         CASE p < 0 -> 0
           [] p >= 0 /\ m > TotalStars -> TotalStars * Unit
           [] p >= 0 /\ m <= TotalStars -> m * Unit + Atmost(Unit, a * k)
  BY DEF PreciseRating
<1>3. PreciseRating(q) =
         CASE q < 0 -> 0
           [] q >= 0 /\ n > TotalStars -> TotalStars * Unit
           [] q >= 0 /\ n <= TotalStars -> n * Unit + Atmost(Unit, b * k)
  BY DEF PreciseRating
<1>4. PreciseRating(p) \in Nat /\ PreciseRating(q) \in Nat
  BY PreciseReaches
<1>5. n <= TotalStars
  OBVIOUS
<1>6. CASE p < 0
  BY <1>2, <1>4, <1>6
<1>7. CASE p >= 0
  <2>1. p \in Nat /\ q \in Nat
    BY <1>7
  <2>2. pitch \in Nat \ {0} /\ m \in Nat /\ n \in Nat /\ a \in 0 .. pitch - 1 /\ b \in 0 .. pitch - 1
    BY <2>1, PitchAndRest
  <2>3. m < n \/ (m = n /\ a <= b)
    BY <2>1, PitchesInOrder
  <2> HIDE DEF k, pitch, m, n, a, b
  <2>4. /\ PreciseRating(p) = m * Unit + Atmost(Unit, a * k)
        /\ PreciseRating(q) = n * Unit + Atmost(Unit, b * k)
    BY <1>1, <1>2, <1>3, <1>5, <2>1, <2>2, <2>3
  <2>5. /\ m * Unit \in Nat /\ n * Unit \in Nat
        /\ a \in Nat /\ b \in Nat /\ a * k \in Nat /\ b * k \in Nat
    BY <1>1, <2>2
  <2>6. Atmost(Unit, a * k) \in 0 .. Unit /\ Atmost(Unit, b * k) \in 0 .. Unit
    BY <1>1, <2>5 DEF Atmost
  <2>7. CASE m < n
    <3>1. m * Unit + Unit <= n * Unit
      BY <1>1, <2>2, <2>7, TimesOrder
    <3> QED
      BY <1>1, <2>4, <2>5, <2>6, <3>1
  <2>8. CASE m = n /\ a <= b
    <3>1. a * k <= b * k
      BY <1>1, <2>5, <2>8, MultiplesInOrder
    <3>2. Atmost(Unit, a * k) <= Atmost(Unit, b * k)
      BY <1>1, <2>5, <3>1 DEF Atmost
    <3> QED
      BY <2>4, <2>5, <2>6, <2>8, <3>2
  <2> QED
    BY <2>3, <2>7, <2>8
<1> QED
  BY <1>6, <1>7

\* Beyond the last star all stars are displayed.
LEMMA BeyondTheLast ==
    ASSUME NEW q \in Int, NEW favour \in Nat,
           ~ (q \div (StarSize + StarMargin) <= TotalStars), q >= 0
    PROVE  DisplayedRating(PreciseRating(q) + favour) = TotalStars * Unit
<1>1. Unit \in Nat \ {0} /\ TotalStars \in Nat \ {0} /\ TotalStars * Unit \in Nat
  BY UnitParts, StarRatingAssumption
<1>2. q \div (StarSize + StarMargin) \in Nat
  <2>1. q \in Nat
    OBVIOUS
  <2> QED
    BY <2>1, PitchAndRest
<1>3. PreciseRating(q) = TotalStars * Unit
  BY <1>1, <1>2 DEF PreciseRating
<1> DEFINE r == TotalStars * Unit + favour
<1>4. r \in Nat
  BY <1>1
<1>5. PICK n \in Nat : /\ FloorTo(Unit, r) = n * Unit
                       /\ r - n * Unit \in 0 .. Unit - 1
  BY <1>4, WholeAndRest
<1>6. ~ (n < TotalStars)
  <2> SUFFICES ASSUME n < TotalStars PROVE FALSE
    OBVIOUS
  <2>1. n * Unit + Unit <= TotalStars * Unit
    BY <1>1, TimesOrder
  <2>2. n * Unit \in Nat
    BY <1>1
  <2> QED
    BY <1>1, <1>5, <2>1, <2>2
<1>7. DisplayedRating(r) = TotalStars * Unit
  BY <1>1, <1>4, <1>5, <1>6, DisplayedWithin
<1> QED
  BY <1>3, <1>7

\* In every fill mode a finger further right never gives fewer stars, from
\* left of the first star to right of the last (CosmosTouch.touchRating).
THEOREM TouchIsMonotone ==
    ASSUME NEW p \in Int, NEW q \in Int, p <= q
    PROVE  TouchRating(p) <= TouchRating(q)
<1> DEFINE favour == CASE FillMode = "full"    -> 9 * (Unit \div 20)
                       [] FillMode = "half"    -> Unit \div 5
                       [] FillMode = "precise" -> 0
           shown(x) == DisplayedRating(PreciseRating(x) + favour)
<1>1. /\ Unit \in Nat \ {0} /\ TotalStars \in Nat \ {0}
      /\ MinTouchRating * Unit \in Nat
      /\ FillMode \in {"full", "half", "precise"}
  BY UnitParts, StarRatingAssumption
<1>2. favour \in Nat
  BY <1>1
<1>3. \A x \in Int : TouchRating(x) = Atleast(MinTouchRating * Unit, shown(x))
  BY DEF TouchRating
<1> HIDE DEF favour
<1>4. \A x \in Int : PreciseRating(x) + favour \in Nat
  BY <1>2, PreciseReaches
<1>5. \A x \in Int : shown(x) \in 0 .. TotalStars * Unit
  <2> TAKE x \in Int
  <2> DEFINE r == PreciseRating(x) + favour
  <2>1. r \in Nat
    BY <1>4
  <2> HIDE DEF r
  <2>2. DisplayedRating(r) \in 0 .. TotalStars * Unit
    BY <2>1, WholeAndRest, DisplayedWithin
  <2> QED
    BY <2>2 DEF r
<1>6. shown(p) <= shown(q)
  <2>1. CASE q \div (StarSize + StarMargin) <= TotalStars
    <3>1. PreciseRating(p) <= PreciseRating(q)
      BY <2>1, PreciseInOrder
    <3>2. PreciseRating(p) \in Nat /\ PreciseRating(q) \in Nat
      BY PreciseReaches
    <3>3. PreciseRating(p) + favour <= PreciseRating(q) + favour
      BY <1>2, <3>1, <3>2
    <3> QED
      BY <1>4, <3>3, DisplayedInOrder
  <2>2. CASE ~ (q \div (StarSize + StarMargin) <= TotalStars) /\ q >= 0
    <3>1. shown(q) = TotalStars * Unit
      BY <1>2, <2>2, BeyondTheLast
    <3>2. TotalStars * Unit \in Nat
      BY <1>1
    <3> HIDE DEF shown
    <3> QED
      BY <1>5, <3>1, <3>2
  <2>3. CASE q < 0
    <3>1. PreciseRating(p) = 0 /\ PreciseRating(q) = 0
      BY <2>3 DEF PreciseRating
    <3>2. shown(p) = shown(q)
      BY <3>1
    <3> HIDE DEF shown
    <3> QED
      BY <1>5, <3>2
  <2> QED
    BY <2>1, <2>2, <2>3
<1> HIDE DEF shown
<1>7. shown(p) \in Int /\ shown(q) \in Int
  BY <1>5
<1> QED
  BY <1>1, <1>3, <1>6, <1>7 DEF Atleast

-----------------------------------------------------------------------------
(* The view.  The properties hold because the stars drawn are always those *)
(* of the rating, and because a rating that has been touched or stepped to *)
(* is a whole number of stars.                                             *)

Consistent ==
    /\ layers = StarLayers(rating)
    /\ spoken = AccessibilityValue(rating)
    /\ ~ UpdateOnTouch => finger = None /\ recorded = None
    /\ finger # None => rating = TouchRating(finger)

\* What is recorded is the rating without its rest; a rating that is not below
\* the lowest has none.
CutToStars ==
    FillMode = "full" /\ finger = None /\ recorded # None =>
       /\ recorded * Unit <= rating
       /\ rating < recorded * Unit + Unit
       /\ rating >= MinTouchRating * Unit => rating = recorded * Unit

Inv == TypeOK /\ Consistent /\ CutToStars

\* What is drawn and read of any rating is within the type.
LEMMA ShownWithin ==
    ASSUME NEW r \in Nat
    PROVE  /\ StarLayers(r) \in [1 .. TotalStars -> 0 .. Unit]
           /\ AccessibilityValue(r) \in 0 .. TotalStars * Unit
<1>1. \A i \in 1 .. TotalStars : StarLayers(r)[i] \in 0 .. Unit
  BY DrawnShare
<1>2. StarLayers(r) = [i \in 1 .. TotalStars |-> StarLayers(r)[i]]
  BY DEF StarLayers
<1>3. StarLayers(r) \in [1 .. TotalStars -> 0 .. Unit]
  BY <1>1, <1>2
<1> QED
  BY <1>3, SpokenWithin

\* rating's didSet leaves the stars of the new rating on the screen, whether
\* it draws them again or not.
LEMMA SetRatingShows ==
    ASSUME Inv, NEW new \in Nat, SetRating(new)
    PROVE  /\ rating' = new
           /\ layers' = StarLayers(rating') /\ spoken' = AccessibilityValue(rating')
           /\ layers' \in [1 .. TotalStars -> 0 .. Unit]
           /\ spoken' \in 0 .. TotalStars * Unit
<1>1. rating' = new /\ layers' = StarLayers(new) /\ spoken' = AccessibilityValue(new)
  BY DEF SetRating, Inv, Consistent
<1> QED
  BY <1>1, ShownWithin

\* Whole stars are what they are counted as.
LEMMA StarsOf ==
    ASSUME NEW m \in Int
    PROVE  (m * Unit) \div Unit = m
<1>1. Unit \in Nat \ {0} /\ m * Unit \in Int
  BY UnitParts
<1>2. m * Unit <= m * Unit /\ m * Unit < m * Unit + Unit
  BY <1>1
<1> DEFINE x == m * Unit
           n == x \div Unit
<1>3. x \in Int
  BY <1>1
<1>4. n \in Int /\ n * Unit = FloorTo(Unit, x)
  BY <1>1, <1>3 DEF FloorTo
<1>5. n * Unit = m * Unit
  BY <1>1, <1>2, <1>3, <1>4, FloorToIs
<1> HIDE DEF n, x
<1>6. ~ (m < n) /\ ~ (n < m)
  <2>1. m < n => m * Unit + Unit <= n * Unit
    BY <1>1, <1>4, TimesOrder
  <2>2. n < m => n * Unit + Unit <= m * Unit
    BY <1>1, <1>4, TimesOrder
  <2> QED
    BY <1>1, <1>5, <2>1, <2>2
<1> QED
  BY <1>4, <1>6 DEF n, x

\* A rating within the stars is recorded as a number of stars within them.
LEMMA StarsWithin ==
    ASSUME NEW r \in 0 .. TotalStars * Unit
    PROVE  /\ r \div Unit \in 0 .. TotalStars
           /\ (r \div Unit) * Unit <= r
           /\ r < (r \div Unit) * Unit + Unit
<1> DEFINE n == r \div Unit
<1>1. Unit \in Nat \ {0} /\ TotalStars \in Nat /\ TotalStars * Unit \in Nat
  BY UnitParts, StarRatingAssumption
<1>2. n \in Int /\ n * Unit <= r /\ r < n * Unit + Unit
  BY <1>1
<1> HIDE DEF n
<1>3. ~ (n < 0)
  <2> SUFFICES ASSUME n < 0 PROVE FALSE
    OBVIOUS
  <2>1. n * Unit + Unit <= 0 * Unit
    BY <1>1, <1>2, TimesOrder
  <2> QED
    BY <1>1, <1>2, <2>1
<1>4. ~ (TotalStars < n)
  <2> SUFFICES ASSUME TotalStars < n PROVE FALSE
    OBVIOUS
  <2>1. TotalStars * Unit + Unit <= n * Unit
    BY <1>1, <1>2, TimesOrder
  <2> QED
    BY <1>1, <1>2, <2>1
<1> QED
  BY <1>1, <1>2, <1>3, <1>4 DEF n

LEMMA StepDividesAll ==
    /\ Step \in Nat \ {0}
    /\ \E m \in Nat : TotalStars * Unit = m * Step
    /\ FillMode = "full" => Step = Unit
<1>1. /\ Unit \in Nat \ {0} /\ Unit \div 2 \in Nat \ {0}
      /\ Unit = 2 * (Unit \div 2) /\ TotalStars \in Nat
  BY UnitParts, StarRatingAssumption
<1>2. CASE FillMode = "full"
  BY <1>1, <1>2 DEF Step
<1>3. CASE FillMode # "full"
  <2> DEFINE H == Unit \div 2
  <2>1. Step = H /\ H \in Nat \ {0} /\ Unit = 2 * H
    BY <1>1, <1>3 DEF Step
  <2> HIDE DEF H
  <2>2. TotalStars * Unit = (2 * TotalStars) * H /\ 2 * TotalStars \in Nat
    BY <1>1, <2>1
  <2> QED
    BY <1>3, <2>1, <2>2
<1> QED
  BY <1>2, <1>3

\* VoiceOver's increment stays within the stars and, in the full mode, gives
\* whole ones.
LEMMA Incremented ==
    ASSUME NEW r \in 0 .. TotalStars * Unit
    PROVE  /\ r + AccessibilityIncrement(r) \in 0 .. TotalStars * Unit
           /\ FillMode = "full" =>
                 \E m \in Int : r + AccessibilityIncrement(r) = m * Unit
<1>1. Unit \in Nat \ {0} /\ TotalStars \in Nat /\ TotalStars * Unit \in Nat /\ r \in Int
  BY UnitParts, StarRatingAssumption
<1>2. Step \in Nat \ {0} /\ (FillMode = "full" => Step = Unit)
  BY StepDividesAll
<1>3. PICK all \in Nat : TotalStars * Unit = all * Step
  BY StepDividesAll
<1>4. CASE r >= TotalStars * Unit
  <2>1. AccessibilityIncrement(r) = 0 /\ r = TotalStars * Unit
    BY <1>1, <1>4 DEF AccessibilityIncrement
  <2> QED
    BY <1>1, <2>1
<1>5. CASE r < TotalStars * Unit
  <2> HIDE DEF Step
  <2>1. r + Step \in Int
    BY <1>1, <1>2
  <2>2. PICK n \in Int : FloorTo(Step, r + Step) = n * Step
    BY <1>2, <2>1, FloorToBounds
  <2>3. n * Step <= r + Step /\ r + Step < n * Step + Step /\ n * Step \in Int
    BY <1>2, <2>1, <2>2, FloorToBounds
  <2>4. r + AccessibilityIncrement(r) = n * Step
    <3>1. r + 1 + Step - 1 = r + Step
      BY <1>1, <1>2
    <3>2. CeilTo(Step, r + 1) = n * Step
      BY <2>2, <3>1 DEF CeilTo
    <3> QED
      BY <1>1, <1>5, <2>3, <3>2 DEF AccessibilityIncrement
  <2>5. ~ (all < n)
    <3> SUFFICES ASSUME all < n PROVE FALSE
      OBVIOUS
    <3>1. all * Step + Step <= n * Step
      BY <1>2, TimesOrder
    <3> QED
      BY <1>1, <1>2, <1>3, <1>5, <2>3, <3>1
  <2>6. n * Step <= all * Step
    <3>1. n < all => n * Step + Step <= all * Step
      BY <1>2, TimesOrder
    <3>2. n = all => n * Step = all * Step
      OBVIOUS
    <3>3. all * Step \in Int
      BY <1>2
    <3> QED
      BY <1>2, <2>3, <2>5, <3>1, <3>2, <3>3
  <2>7. n * Step \in 0 .. TotalStars * Unit
    BY <1>1, <1>2, <1>3, <2>3, <2>6
  <2> QED
    BY <1>2, <2>4, <2>7
<1> QED
  BY <1>1, <1>4, <1>5

\* VoiceOver's decrement stays within the stars; above the lowest rating it
\* gives whole ones in the full mode.
LEMMA Decremented ==
    ASSUME NEW r \in 0 .. TotalStars * Unit
    PROVE  /\ r - AccessibilityDecrement(r) \in 0 .. TotalStars * Unit
           /\ FillMode = "full" /\ r - AccessibilityDecrement(r) >= MinTouchRating * Unit
                 => \E m \in Int : r - AccessibilityDecrement(r) = m * Unit
<1>1. /\ Unit \in Nat \ {0} /\ TotalStars \in Nat /\ TotalStars * Unit \in Nat
      /\ r \in Int /\ MinTouchRating \in Nat /\ MinTouchRating * Unit \in Nat
  <2>1. MinTouchRating \in Nat /\ Unit \in Nat \ {0} /\ TotalStars \in Nat
    BY UnitParts, StarRatingAssumption
  <2> QED
    BY <2>1
<1>2. Step \in Nat \ {0} /\ (FillMode = "full" => Step = Unit)
  BY StepDividesAll
<1>3. CASE r <= MinTouchRating * Unit
  <2>1. AccessibilityDecrement(r) = 0
    BY <1>3 DEF AccessibilityDecrement
  <2>2. r - 0 = r
    BY <1>1
  <2>3. r >= MinTouchRating * Unit => r = MinTouchRating * Unit
    BY <1>1, <1>3
  <2> QED
    BY <1>1, <2>1, <2>2, <2>3
<1>4. CASE r > MinTouchRating * Unit
  <2> HIDE DEF Step
  <2>1. r - 1 \in Int /\ 0 <= r - 1
    BY <1>1, <1>4
  <2>2. PICK n \in Int : FloorTo(Step, r - 1) = n * Step
    BY <1>2, <2>1, FloorToBounds
  <2>3. n * Step <= r - 1 /\ r - 1 < n * Step + Step /\ n * Step \in Int
    BY <1>2, <2>1, <2>2, FloorToBounds
  <2>4. r - AccessibilityDecrement(r) = n * Step
    BY <1>1, <1>4, <2>2, <2>3 DEF AccessibilityDecrement
  <2>5. ~ (n < 0)
    <3> SUFFICES ASSUME n < 0 PROVE FALSE
      OBVIOUS
    <3>1. n * Step + Step <= 0 * Step
      BY <1>2, TimesOrder
    <3> QED
      BY <1>2, <2>1, <2>3, <3>1
  <2>6. n * Step >= 0
    BY <1>2, <2>5
  <2>7. n * Step \in 0 .. TotalStars * Unit
    BY <1>1, <2>3, <2>6
  <2> QED
    BY <1>2, <2>4, <2>7
<1> QED
  BY <1>1, <1>3, <1>4

LEMMA NoneIsNoNumber == \A x \in Int : x # None
  BY StarRatingAssumption

LEMMA InitInv == Init => Inv
<1> SUFFICES ASSUME Init PROVE Inv
  OBVIOUS
<1>1. Unit \in Nat \ {0} /\ TotalStars \in Nat \ {0} /\ TotalStars * Unit \in Nat
  BY UnitParts, StarRatingAssumption
<1>2. rating \in Nat /\ (UpdateOnTouch => rating <= TotalStars * Unit)
  <2>1. CASE UpdateOnTouch
    BY <1>1, <2>1, StarRatingAssumption DEF Init
  <2>2. CASE ~ UpdateOnTouch
    <3>1. (27 * Unit) \div 10 \in Nat
      BY <1>1
    <3> QED
      BY <2>2, <3>1 DEF Init
  <2> QED
    BY <2>1, <2>2
<1>3. TypeOK
  BY <1>2, ShownWithin DEF Init, TypeOK
<1>4. Consistent /\ CutToStars
  BY <1>2 DEF Init, Consistent, CutToStars
<1> QED
  BY <1>3, <1>4 DEF Inv

LEMMA ReuseInv == ASSUME Inv, NEW r \in Ratings, Reuse(r) PROVE Inv'
<1>1. r \in Nat
  BY StarRatingAssumption
<1>2. /\ rating' = r
      /\ layers' = StarLayers(rating') /\ spoken' = AccessibilityValue(rating')
      /\ layers' \in [1 .. TotalStars -> 0 .. Unit]
      /\ spoken' \in 0 .. TotalStars * Unit
  BY <1>1, SetRatingShows DEF Reuse
<1>3. ~ UpdateOnTouch /\ UNCHANGED <<finger, previous, told, recorded>>
  BY DEF Reuse
<1>4. TypeOK'
  BY <1>1, <1>2, <1>3 DEF Inv, TypeOK
<1>5. Consistent' /\ CutToStars'
  BY <1>2, <1>3 DEF Inv, Consistent, CutToStars
<1> QED
  BY <1>4, <1>5 DEF Inv

\* A touch, the first or a move.
LEMMA OnDidTouchInv ==
    ASSUME Inv, NEW position \in Touches, OnDidTouch(position),
           UpdateOnTouch, finger' = position, UNCHANGED recorded
    PROVE  Inv'
<1> DEFINE new == TouchRating(position)
<1>1. position \in Int /\ position # None /\ TotalStars * Unit \in Nat
  <2>1. TotalStars \in Nat /\ Unit \in Nat
    BY StarRatingAssumption
  <2> QED
    BY <2>1, StarRatingAssumption
<1>2. new \in 0 .. TotalStars * Unit
  BY <1>1, TouchWithin
<1> HIDE DEF new
<1>3. new \in Nat /\ SetRating(new)
  BY <1>2 DEF OnDidTouch, new
<1>4. /\ rating' = new
      /\ layers' = StarLayers(rating') /\ spoken' = AccessibilityValue(rating')
      /\ layers' \in [1 .. TotalStars -> 0 .. Unit]
      /\ spoken' \in 0 .. TotalStars * Unit
  BY <1>3, SetRatingShows
<1>5. /\ previous' \in (0 .. TotalStars * Unit) \cup {None}
      /\ told' \in (0 .. TotalStars * Unit) \cup {None}
  BY <1>2 DEF OnDidTouch, new, Inv, TypeOK
<1>6. TypeOK'
  BY <1>1, <1>2, <1>3, <1>4, <1>5 DEF Inv, TypeOK
<1>7. Consistent'
  BY <1>1, <1>2, <1>4 DEF Consistent, new
<1>8. CutToStars'
  BY <1>1 DEF CutToStars
<1> QED
  BY <1>6, <1>7, <1>8 DEF Inv

LEMMA TouchesEndedInv == ASSUME Inv, TouchesEnded PROVE Inv'
<1>1. /\ finger # None /\ finger' = None /\ recorded' = rating \div Unit
      /\ UNCHANGED <<rating, layers, spoken, previous, told>>
  BY DEF TouchesEnded, DidFinishTouchingCosmos
<1>2. finger \in Int /\ UpdateOnTouch /\ rating = TouchRating(finger)
  BY <1>1, StarRatingAssumption DEF Inv, TypeOK, Consistent
<1>3. rating \in 0 .. TotalStars * Unit
  BY <1>2, TouchWithin
<1>4. recorded' \in 0 .. TotalStars
  BY <1>1, <1>3, StarsWithin
<1>5. FillMode = "full" => rating = recorded' * Unit
  <2> SUFFICES ASSUME FillMode = "full" PROVE rating = recorded' * Unit
    OBVIOUS
  <2>1. PICK m \in 0 .. TotalStars : TouchRating(finger) = m * Unit
    BY <1>2, TouchFull
  <2>2. m \in Int
    BY <2>1
  <2>3. (m * Unit) \div Unit = m
    BY <2>2, StarsOf
  <2> QED
    BY <1>1, <1>2, <2>1, <2>3
<1>6. TypeOK'
  BY <1>1, <1>4 DEF Inv, TypeOK
<1>7. Consistent'
  BY <1>1, <1>2 DEF Inv, Consistent
<1>8. CutToStars'
  BY <1>1, <1>3, <1>5, StarsWithin DEF CutToStars
<1> QED
  BY <1>6, <1>7, <1>8 DEF Inv

\* A step of VoiceOver's to a rating that is whole unless it is too low.
LEMMA AdjustInv ==
    ASSUME Inv, NEW new \in 0 .. TotalStars * Unit, Adjust(new),
           FillMode = "full" /\ new >= MinTouchRating * Unit
              => \E m \in Int : new = m * Unit
    PROVE  Inv'
<1>1. /\ UpdateOnTouch /\ finger' = None /\ SetRating(new)
      /\ told' = new /\ previous' = previous /\ recorded' = new \div Unit
  BY DEF Adjust, DidFinishTouchingCosmos
<1>2. /\ rating' = new
      /\ layers' = StarLayers(rating') /\ spoken' = AccessibilityValue(rating')
      /\ layers' \in [1 .. TotalStars -> 0 .. Unit]
      /\ spoken' \in 0 .. TotalStars * Unit
  BY <1>1, SetRatingShows
<1>3. recorded' \in 0 .. TotalStars
  BY <1>1, StarsWithin
<1>4. TypeOK'
  BY <1>1, <1>2, <1>3 DEF Inv, TypeOK
<1>5. Consistent'
  BY <1>1, <1>2 DEF Consistent
<1>6. CutToStars'
  <2> SUFFICES ASSUME FillMode = "full", rating' >= MinTouchRating * Unit
               PROVE  rating' = recorded' * Unit
    BY <1>1, <1>2, StarsWithin DEF CutToStars
  <2>1. PICK m \in Int : new = m * Unit
    BY <1>2
  <2>2. (m * Unit) \div Unit = m
    BY StarsOf
  <2> QED
    BY <1>1, <1>2, <2>1, <2>2
<1> QED
  BY <1>4, <1>5, <1>6 DEF Inv

LEMMA StepInv == Inv /\ [Next]_vars => Inv'
<1> SUFFICES ASSUME Inv, [Next]_vars PROVE Inv'
  OBVIOUS
<1>1. ASSUME NEW r \in Ratings, Reuse(r) PROVE Inv'
  BY <1>1, ReuseInv
<1>2. ASSUME NEW position \in Touches, TouchesBegan(position) PROVE Inv'
  BY <1>2, OnDidTouchInv DEF TouchesBegan
<1>3. ASSUME NEW position \in Touches, TouchesMoved(position) PROVE Inv'
  <2>1. UpdateOnTouch
    BY <1>3 DEF TouchesMoved, Inv, Consistent
  <2> QED
    BY <1>3, <2>1, OnDidTouchInv DEF TouchesMoved
<1>4. CASE TouchesEnded
  BY <1>4, TouchesEndedInv
<1>5. CASE Increment
  <2>1. rating \in 0 .. TotalStars * Unit
    BY <1>5 DEF Increment, Adjust, Inv, TypeOK, Consistent
  <2> QED
    BY <1>5, <2>1, Incremented, AdjustInv DEF Increment
<1>6. CASE Decrement
  <2>1. rating \in 0 .. TotalStars * Unit
    BY <1>6 DEF Decrement, Adjust, Inv, TypeOK, Consistent
  <2> QED
    BY <1>6, <2>1, Decremented, AdjustInv DEF Decrement
<1>7. CASE UNCHANGED vars
  BY <1>7 DEF vars, Inv, TypeOK, Consistent, CutToStars
<1> QED
  BY <1>1, <1>2, <1>3, <1>4, <1>5, <1>6, <1>7 DEF Next

LEMMA Invariance == Spec => []Inv
BY InitInv, StepInv, PTL DEF Spec

-----------------------------------------------------------------------------
\* The type of every variable; no more stars are recorded than there are.
THEOREM StarTypeCorrect == Spec => []TypeOK
<1>1. Inv => TypeOK
  BY DEF Inv
<1> QED
  BY <1>1, Invariance, PTL

\* The stars drawn and the value VoiceOver reads are always the same number
\* (CosmosLayers.createStarLayers against CosmosRating.displayedRating).
THEOREM DrawnAndSpokenAgree == Spec => []DrawnIsSpoken
<1>1. Inv => DrawnIsSpoken
  BY DrawnShare DEF Inv, TypeOK, Consistent, DrawnIsSpoken
<1> QED
  BY <1>1, Invariance, PTL

\* The stars chosen are those up to the one under the finger, for any size
\* and margin of the stars (CosmosTouch.touchRating).
THEOREM FingerChooses == Spec => []StarUnderFinger
<1>1. Inv => StarUnderFinger
  <2> SUFFICES ASSUME Inv, finger # None, FillMode = "full"
               PROVE  \A i \in 1 .. TotalStars :
                         rating >= i * Unit <=> i <= MinTouchRating \/ InStar(i, finger)
    BY DEF StarUnderFinger
  <2>1. finger \in Int /\ rating = TouchRating(finger)
    BY StarRatingAssumption DEF Inv, TypeOK, Consistent
  <2> QED
    BY <2>1, TouchFull
<1> QED
  BY <1>1, Invariance, PTL

\* Places.rate gets the number of stars that are drawn (PlaceDetailView-
\* Controller.swift:131), but where VoiceOver's decrement leaves an average
\* below the lowest as it is: then one star more is drawn if it is the nearer.
THEOREM RecordedTruly == Spec => []RecordedIsDrawn
<1>1. Inv => RecordedIsDrawn
  <2> SUFFICES ASSUME Inv, FillMode = "full", finger = None, recorded # None,
                      NEW i \in 1 .. TotalStars
               PROVE  layers[i] = IF i <= recorded \/ (i = recorded + 1 /\ LeftBetweenStars)
                                  THEN Unit ELSE 0
    BY DEF RecordedIsDrawn
  <2> DEFINE rest == rating - recorded * Unit
  <2>1. /\ recorded \in 0 .. TotalStars /\ rating \in Nat
        /\ recorded * Unit <= rating /\ rating < recorded * Unit + Unit
        /\ rating >= MinTouchRating * Unit => rating = recorded * Unit
    BY DEF Inv, TypeOK, CutToStars
  <2>2. /\ Unit \in Nat \ {0} /\ (i - 1) * Unit \in Int /\ TotalStars \in Nat
        /\ TotalStars * Unit \in Nat /\ recorded * Unit \in Nat
        /\ MinTouchRating * Unit \in Nat
    BY <2>1, UnitParts, StarRatingAssumption
  <2>3. layers[i] = Atleast(0, Atmost(Unit, DisplayedRating(rating) - (i - 1) * Unit))
    BY <2>1, DrawnShare DEF Inv, Consistent
  <2>4. FloorTo(Unit, rating) = recorded * Unit
    <3>1. rating \in Int /\ recorded \in Int
      BY <2>1
    <3> QED
      BY <2>1, <2>2, <3>1, FloorToIs
  <2>5. rest \in 0 .. Unit - 1 /\ rest \in 0 .. Unit
    BY <2>1, <2>2
  <2>6. LeftBetweenStars <=> 2 * rest >= Unit
    <3>1. rating >= MinTouchRating * Unit => rest = 0
      BY <2>1, <2>2
    <3> QED
      BY <2>1, <2>2, <3>1 DEF LeftBetweenStars
  <2>7. /\ recorded < TotalStars => DisplayedRating(rating) = recorded * Unit + RoundFillLevel(rest)
        /\ recorded >= TotalStars => DisplayedRating(rating) = TotalStars * Unit
    BY <2>1, <2>4, <2>5, DisplayedWithin
  <2>8. RoundFillLevel(rest) = IF LeftBetweenStars THEN Unit ELSE 0
    BY <2>5, <2>6, RoundFillLevelFull
  <2> HIDE DEF rest
  <2>9. DisplayedRating(rating) = IF LeftBetweenStars /\ recorded < TotalStars
                                  THEN recorded * Unit + Unit ELSE recorded * Unit
    BY <2>1, <2>2, <2>7, <2>8
  <2>10. i <= recorded => (i - 1) * Unit + Unit <= recorded * Unit
    BY <2>1, <2>2, TimesOrder
  <2>11. i = recorded + 1 => (i - 1) * Unit = recorded * Unit
    BY <2>1
  <2>12. recorded + 1 < i => recorded * Unit + Unit <= (i - 1) * Unit
    BY <2>1, <2>2, TimesOrder
  <2>13. CASE i <= recorded
    BY <2>1, <2>2, <2>3, <2>9, <2>10, <2>13 DEF Atleast, Atmost
  <2>14. CASE i = recorded + 1
    BY <2>1, <2>2, <2>3, <2>9, <2>11, <2>14 DEF Atleast, Atmost
  <2>15. CASE recorded + 1 < i
    BY <2>1, <2>2, <2>3, <2>9, <2>12, <2>15 DEF Atleast, Atmost
  <2> QED
    BY <2>1, <2>13, <2>14, <2>15
<1> QED
  BY <1>1, Invariance, PTL

-----------------------------------------------------------------------------
(* The two views at once.  Neither touches the other's variables, so what  *)
(* is proved of the detail screen's view holds beside the rows as well.    *)

LEMMA DetailView == ScreensSpec => Spec
<1>1. ScreensInit => Init
  BY DEF ScreensInit
<1>2. [ScreensNext]_<<vars, rowVars>> => [Next]_vars
  BY DEF ScreensNext
<1> QED
  BY <1>1, <1>2, PTL DEF ScreensSpec, Spec

\* Touches on the detail screen and rows used again at the same time leave
\* the detail screen's view (PlaceDetailViewController.swift) as it should be.
THEOREM DetailBesideRows ==
    ScreensSpec => [](TypeOK /\ DrawnIsSpoken /\ StarUnderFinger /\ RecordedIsDrawn)
BY DetailView, StarTypeCorrect, DrawnAndSpokenAgree, FingerChooses,
   RecordedTruly, PTL

\* A row fills its stars precisely: nothing is rounded away.
LEMMA RowDisplays ==
    ASSUME NEW r \in Nat
    PROVE  /\ Row!DisplayedRating(r) = Atmost(TotalStars * RowUnit, r)
           /\ Row!NumberOfFilledStars(r) = Atmost(TotalStars * RowUnit, r)
<1> DEFINE whole == FloorTo(RowUnit, r)
           rest == r - whole
<1>1. /\ RowUnit \in Nat \ {0} /\ TotalStars \in Nat
      /\ TotalStars * RowUnit \in Nat
  BY StarRatingAssumption, StarScreensAssumption
<1>2. whole \in Int /\ whole <= r /\ r < whole + RowUnit
  BY <1>1, FloorToBounds
<1> HIDE DEF whole
<1>3. rest \in 0 .. RowUnit
  BY <1>1, <1>2
<1>4. Row!StarFillLevel(rest) = rest
  BY <1>1, <1>3
  DEF Row!StarFillLevel, Row!RoundFillLevel, Row!Atleast, Row!Atmost
<1>5. Row!FloorTo(RowUnit, r) = whole
  BY DEF Row!FloorTo, FloorTo, whole
<1>6. whole + rest = r
  BY <1>2
<1>7. Row!DisplayedRating(r) = Row!Atleast(0, Row!Atmost(TotalStars * RowUnit, r))
  BY <1>4, <1>5, <1>6 DEF Row!DisplayedRating
<1>8. Row!Atleast(0, Row!Atmost(TotalStars * RowUnit, r)) = Atmost(TotalStars * RowUnit, r)
  BY <1>1 DEF Row!Atleast, Row!Atmost, Atmost
<1> QED
  BY <1>7, <1>8 DEF Row!NumberOfFilledStars

\* The stars of a row are those of the rating it was last used for, and there
\* is no finger whose touch could change them.
RowInv ==
    /\ rowRating \in Nat
    /\ rowLayers = Row!StarLayers(rowRating)
    /\ rowSpoken = Row!AccessibilityValue(rowRating)
    /\ untouched = None

LEMMA RowInitInv == ScreensInit => RowInv
<1> SUFFICES ASSUME ScreensInit PROVE RowInv
  OBVIOUS
<1>1. (27 * RowUnit) \div 10 \in Nat
  BY StarScreensAssumption
<1> QED
  BY <1>1 DEF ScreensInit, Row!Init, RowInv

\* Of the operations of the view a row only has that of being used again.
LEMMA RowStepInv == RowInv /\ [ScreensNext]_<<vars, rowVars>> => RowInv'
<1> SUFFICES ASSUME RowInv, [ScreensNext]_<<vars, rowVars>> PROVE RowInv'
  OBVIOUS
<1>1. CASE UNCHANGED rowVars
  BY <1>1 DEF RowInv, rowVars
<1>2. CASE Row!Next
  <2>1. PICK r \in RowRatings : Row!Reuse(r)
    BY <1>2 DEF Row!Next, Row!TouchesEnded, Row!Increment, Row!Decrement,
                Row!Adjust, RowInv
  <2>2. r \in Nat
    BY StarScreensAssumption
  <2>3. /\ rowRating' = r /\ untouched' = untouched
        /\ IF r # rowRating
           THEN rowLayers' = Row!StarLayers(r) /\ rowSpoken' = Row!AccessibilityValue(r)
           ELSE UNCHANGED <<rowLayers, rowSpoken>>
    BY <2>1 DEF Row!Reuse, Row!SetRating, Row!Update
  <2> QED
    BY <2>2, <2>3 DEF RowInv
<1> QED
  BY <1>1, <1>2 DEF ScreensNext

\* A row shows and reads the place it is used for now, whatever place it
\* showed before: rating's didSet draws it anew unless nothing changed.
THEOREM RowShowsItsPlace == ScreensSpec => []RowDrawnIsSpoken
<1>1. RowInv => RowDrawnIsSpoken
  <2> SUFFICES ASSUME RowInv, NEW i \in 1 .. TotalStars
               PROVE  rowLayers[i] = Row!Atleast(0, Row!Atmost(RowUnit,
                                        Row!DisplayedRating(rowRating) - (i - 1) * RowUnit))
    BY DEF RowInv, RowDrawnIsSpoken, Row!DrawnIsSpoken
  <2>1. rowLayers[i] = Row!StarFillLevel(
                          Row!NumberOfFilledStars(rowRating) - (i - 1) * RowUnit)
    BY DEF RowInv, Row!StarLayers
  <2>2. Row!NumberOfFilledStars(rowRating) = Row!DisplayedRating(rowRating)
    BY RowDisplays DEF RowInv
  <2> QED
    BY <2>1, <2>2 DEF Row!StarFillLevel, Row!RoundFillLevel
<1>2. ScreensSpec => []RowInv
  BY RowInitInv, RowStepInv, PTL DEF ScreensSpec
<1> QED
  BY <1>1, <1>2, PTL

=============================================================================

-------------------------- MODULE ProfileAuthProofs ---------------------------
(***************************************************************************)
(* Theorems about ProfileAuth, for any accounts and any number of          *)
(* downloads under way.                                                    *)
(*                                                                         *)
(* NobodyElseIsShown is not inductive: a picture may be under way, and     *)
(* the next user may sign in before it comes.  Two facts exclude this      *)
(* until somebody signs out: downloads are for the current user            *)
(* (AskedIsUsers), and the sign-in screen is presented only for a user     *)
(* without a name (SheetIsForNobody), who has neither name nor picture.    *)
(***************************************************************************)
EXTENDS ProfileAuth, SequenceTheorems, TLAPS

AskedIsUsers == ~ signedOut => \A i \in DOMAIN asked : asked[i] = user
SheetIsForNobody == sheet => user \notin Named

ShownInv == TypeOK /\ NobodyElseIsShown /\ AskedIsUsers /\ SheetIsForNobody

\* The downloads without one of them.
LEMMA RemovedAt ==
    ASSUME NEW S, NEW q \in Seq(S), NEW i \in DOMAIN q
    PROVE  /\ RemoveAt(q, i) \in Seq(S)
           /\ Len(RemoveAt(q, i)) = Len(q) - 1
           /\ \A j \in DOMAIN RemoveAt(q, i) :
                 \E k \in DOMAIN q : RemoveAt(q, i)[j] = q[k]
<1>1. /\ Len(q) \in Nat /\ DOMAIN q = 1 .. Len(q)
      /\ i \in 1 .. Len(q)
  BY LenProperties
<1> DEFINE a == SubSeq(q, 1, i - 1)
           b == SubSeq(q, i + 1, Len(q))
<1>2. /\ a \in Seq(S) /\ Len(a) = i - 1
      /\ \A j \in 1 .. i - 1 : a[j] = q[j]
  <2>1. \A j \in 1 .. i - 1 : q[j] \in S
    BY <1>1, ElementOfSeq
  <2>2. /\ a \in Seq(S)
        /\ Len(a) = IF 1 <= i - 1 THEN (i - 1) - 1 + 1 ELSE 0
        /\ \A j \in 1 .. (i - 1) - 1 + 1 : a[j] = q[1 + j - 1]
    <3>1. 1 \in Int /\ i - 1 \in Int
      BY <1>1
    <3> QED
      BY <2>1, <3>1, SubSeqProperties
  <2> QED
    BY <1>1, <2>2
<1>3. /\ b \in Seq(S) /\ Len(b) = Len(q) - i
      /\ \A j \in 1 .. Len(q) - i : b[j] = q[i + j]
  <2>1. \A j \in i + 1 .. Len(q) : q[j] \in S
    BY <1>1, ElementOfSeq
  <2>2. /\ b \in Seq(S)
        /\ Len(b) = IF i + 1 <= Len(q) THEN Len(q) - (i + 1) + 1 ELSE 0
        /\ \A j \in 1 .. Len(q) - (i + 1) + 1 : b[j] = q[(i + 1) + j - 1]
    <3>1. i + 1 \in Int /\ Len(q) \in Int
      BY <1>1
    <3> QED
      BY <2>1, <3>1, SubSeqProperties
  <2> QED
    BY <1>1, <2>2
<1> HIDE DEF a, b
<1>4. /\ a \o b \in Seq(S) /\ Len(a \o b) = Len(q) - 1
      /\ \A j \in 1 .. Len(q) - 1 :
            (a \o b)[j] = IF j <= i - 1 THEN a[j] ELSE b[j - (i - 1)]
  <2>1. /\ a \o b \in Seq(S) /\ Len(a \o b) = Len(a) + Len(b)
        /\ \A j \in 1 .. Len(a) + Len(b) :
              (a \o b)[j] = IF j <= Len(a) THEN a[j] ELSE b[j - Len(a)]
    BY <1>2, <1>3, ConcatProperties
  <2>2. Len(a) + Len(b) = Len(q) - 1
    BY <1>1, <1>2, <1>3
  <2> QED
    BY <1>2, <2>1, <2>2
<1>5. DOMAIN (a \o b) = 1 .. Len(q) - 1
  BY <1>4, LenProperties
<1>6. ASSUME NEW j \in 1 .. Len(q) - 1
      PROVE  \E k \in DOMAIN q : (a \o b)[j] = q[k]
  <2>1. CASE j <= i - 1
    <3>1. (a \o b)[j] = q[j] /\ j \in 1 .. Len(q)
      BY <1>1, <1>2, <1>4, <2>1
    <3> QED
      BY <1>1, <3>1
  <2>2. CASE ~ (j <= i - 1)
    <3>1. j - (i - 1) \in 1 .. Len(q) - i /\ i + (j - (i - 1)) = j + 1
      BY <1>1, <2>2
    <3>2. (a \o b)[j] = b[j - (i - 1)]
      BY <1>4, <2>2
    <3>3. b[j - (i - 1)] = q[i + (j - (i - 1))]
      BY <1>3, <3>1
    <3>4. (a \o b)[j] = q[j + 1] /\ j + 1 \in 1 .. Len(q)
      BY <1>1, <3>1, <3>2, <3>3
    <3> QED
      BY <1>1, <3>4
  <2> QED
    BY <2>1, <2>2
<1>7. RemoveAt(q, i) = a \o b
  BY DEF RemoveAt, a, b
<1> QED
  BY <1>4, <1>5, <1>6, <1>7

-----------------------------------------------------------------------------
(* Types.                                                                  *)

LEMMA InitTypes == Init => TypeOK
<1>1. << >> \in Seq(Pictured) /\ Len(<< >>) <= MaxAsked
  BY MaxAskedAssumption
<1> QED
  BY <1>1, Zenon DEF Init, TypeOK

LEMMA NoneIsUnnamed == None \notin Named
BY ProfileNoneAssumption, AccountsAssumption

LEMMA DownloadTypes ==
    ASSUME TypeOK, NEW u \in Users \cup {None}, Len(asked) < MaxAsked,
           DowloadProfileInfo(u)
    PROVE  /\ label' \in Named \cup {None}
           /\ asked' \in Seq(Pictured) /\ Len(asked') <= MaxAsked
<1>1. asked \in Seq(Pictured) /\ Len(asked) \in Nat
  BY LenProperties DEF TypeOK
<1>2. u \in Pictured => /\ Append(asked, u) \in Seq(Pictured)
                        /\ Len(Append(asked, u)) = Len(asked) + 1
  BY <1>1, AppendProperties
<1> QED
  BY <1>1, <1>2, MaxAskedAssumption DEF DowloadProfileInfo, NameOf, TypeOK

LEMMA AnswerTypes ==
    ASSUME TypeOK, NEW i \in DOMAIN asked, PictureArrives(i) \/ PictureFails(i)
    PROVE  TypeOK'
<1>1. /\ asked' = RemoveAt(asked, i) /\ asked[i] \in Pictured
      /\ picture' \in {asked[i], None, picture}
      /\ UNCHANGED <<session, navigation, label, trap, early, signedOut>>
  BY ElementOfSeq, LenProperties DEF TypeOK, PictureArrives, PictureFails
<1>2. /\ asked' \in Seq(Pictured) /\ Len(asked') = Len(asked) - 1
      /\ Len(asked) \in Nat
  BY <1>1, RemovedAt, LenProperties DEF TypeOK
<1>3. Len(asked') <= MaxAsked
  BY <1>2, MaxAskedAssumption DEF TypeOK
<1> QED
  BY <1>1, <1>2, <1>3 DEF TypeOK, session, navigation

LEMMA StepTypes ==
    ASSUME TypeOK, [Next]_vars
    PROVE  TypeOK'
<1>1. CASE ShowRoot \/ ShowOther \/ ShowMyPlaces \/ OpenMyPlaces
  BY <1>1 DEF TypeOK, ShowRoot, ShowOther, ShowMyPlaces, OpenMyPlaces, Free,
     session
<1>2. CASE ShowProfile
  <2>1. /\ label' \in Named \cup {None}
        /\ asked' \in Seq(Pictured) /\ Len(asked') <= MaxAsked
    BY <1>2, DownloadTypes DEF ShowProfile, ViewDidLoad, TypeOK
  <2> QED
    BY <1>2, <2>1 DEF TypeOK, ShowProfile, ViewDidLoad, ViewWillAppear, session
<1>3. CASE CloseMyPlaces
  BY <1>3 DEF TypeOK, CloseMyPlaces, ViewWillAppear, session
<1>4. ASSUME NEW u \in Users, SignIn(u)
      PROVE  TypeOK'
  <2>1. /\ label' \in Named \cup {None}
        /\ asked' \in Seq(Pictured) /\ Len(asked') <= MaxAsked
    BY <1>4, DownloadTypes DEF SignIn, DidSignIn, TypeOK
  <2>2. sending' \subseteq Users /\ trap' \in BOOLEAN
    BY <1>4 DEF SignIn, DidSignIn, TypeOK
  <2> QED
    BY <1>4, <2>1, <2>2 DEF TypeOK, SignIn, ViewWillAppear
<1>5. CASE SignInFails
  <2>1. /\ label' \in Named \cup {None}
        /\ asked' \in Seq(Pictured) /\ Len(asked') <= MaxAsked
    BY <1>5, DownloadTypes DEF SignInFails, DidNotSignIn, TypeOK
  <2>2. /\ token' \in BOOLEAN /\ sheet' \in BOOLEAN
        /\ data' \in {"SignIn", "SignOut"}
    BY <1>5 DEF SignInFails, ViewWillAppear, TypeOK
  <2> QED
    BY <1>5, <2>1, <2>2 DEF TypeOK, SignInFails
<1>6. CASE SignOut
  BY <1>6 DEF TypeOK, SignOut, navigation
<1>7. ASSUME NEW u \in Users, RecordArrives(u)
      PROVE  TypeOK'
  BY <1>7 DEF TypeOK, RecordArrives, navigation
<1>8. CASE Restart
  <2>1. << >> \in Seq(Pictured) /\ Len(<< >>) <= MaxAsked
    BY MaxAskedAssumption
  <2> QED
    BY <1>8, <2>1, Zenon DEF TypeOK, Restart
<1>9. CASE UNCHANGED vars
  BY <1>9 DEF TypeOK, vars, session, navigation
<1> QED
  BY <1>1, <1>2, <1>3, <1>4, <1>5, <1>6, <1>7, <1>8, <1>9, AnswerTypes DEF Next

\* Nothing but pictures that accounts have is asked for: photoURL, unwrapped
\* by force (ProfileViewController.swift:133), is there.
THEOREM ProfileTypeCorrect == Spec => []TypeOK
<1>1. TypeOK /\ [Next]_vars => TypeOK'
  BY StepTypes
<1> QED
  BY <1>1, InitTypes, PTL DEF Spec

-----------------------------------------------------------------------------
(* Sign-ins that the Profile screen hears of.                              *)

LEMMA RecordedStep ==
    ASSUME TypeOK, SignedInIsRecorded, [Next]_vars
    PROVE  SignedInIsRecorded'
<1> USE DEF SignedInIsRecorded
<1>1. CASE ShowRoot \/ ShowOther \/ ShowMyPlaces \/ OpenMyPlaces
  BY <1>1 DEF ShowRoot, ShowOther, ShowMyPlaces, OpenMyPlaces, session
<1>2. CASE ShowProfile
  BY <1>2 DEF ShowProfile, ViewDidLoad, session
<1>3. CASE CloseMyPlaces
  BY <1>3 DEF CloseMyPlaces
<1>4. ASSUME NEW u \in Users, SignIn(u)
      PROVE  SignedInIsRecorded'
  <2>1. user' = u /\ UNCHANGED <<people, delegate>>
    BY <1>4 DEF SignIn
  <2>2. delegate = "profile" => u \in sending' \/ trap'
    BY <1>4 DEF SignIn, DidSignIn
  <2> QED
    BY <2>1, <2>2
<1>5. CASE SignInFails
  BY <1>5 DEF SignInFails
<1>6. CASE SignOut
  BY <1>6 DEF SignOut
<1>7. ASSUME NEW u \in Users, RecordArrives(u)
      PROVE  SignedInIsRecorded'
  BY <1>7 DEF RecordArrives, navigation
<1>8. CASE Restart
  BY <1>8 DEF Restart
<1>9. ASSUME NEW i \in DOMAIN asked, PictureArrives(i) \/ PictureFails(i)
      PROVE  SignedInIsRecorded'
  BY <1>9 DEF PictureArrives, PictureFails, session, navigation
<1>10. CASE UNCHANGED vars
  BY <1>10 DEF vars, session, navigation
<1> QED
  BY <1>1, <1>2, <1>3, <1>4, <1>5, <1>6, <1>7, <1>8, <1>9, <1>10 DEF Next

\* Before a list has taken the delegate again (PlacesViewController.swift:94),
\* every sign-in ends with signed(in:) (ProfileViewController.swift:173-175).
THEOREM HeardSignInsAreRecorded == Spec => []SignedInIsRecorded
<1>1. Init => SignedInIsRecorded
  BY DEF Init, SignedInIsRecorded
<1>2. TypeOK /\ SignedInIsRecorded /\ [Next]_vars => SignedInIsRecorded'
  BY RecordedStep
<1> QED
  BY <1>1, <1>2, ProfileTypeCorrect, PTL DEF Spec

LEMMA NameStep ==
    ASSUME TypeOK, NameIsTheUsers, [Next]_vars
    PROVE  NameIsTheUsers'
<1> USE DEF NameIsTheUsers
<1>1. CASE ShowRoot \/ ShowOther \/ ShowMyPlaces \/ OpenMyPlaces
  BY <1>1 DEF ShowRoot, ShowOther, ShowMyPlaces, OpenMyPlaces, session
<1>2. CASE ShowProfile
  BY <1>2 DEF ShowProfile, ViewDidLoad, DowloadProfileInfo, session
<1>3. CASE CloseMyPlaces
  BY <1>3 DEF CloseMyPlaces
<1>4. ASSUME NEW u \in Users, SignIn(u)
      PROVE  NameIsTheUsers'
  <2>1. user' = u /\ delegate' = delegate /\ u # None
    BY <1>4, ProfileNoneAssumption DEF SignIn
  <2>2. delegate = "profile" /\ token' => label' = NameOf(u)
    BY <1>4, <2>1 DEF SignIn, DidSignIn, DowloadProfileInfo
  <2> QED
    BY <2>1, <2>2
<1>5. CASE SignInFails
  <2>1. UNCHANGED <<user, delegate>>
    BY <1>5 DEF SignInFails
  <2>2. delegate = "profile" /\ token' /\ user # None => label' = NameOf(user)
    BY <1>5 DEF SignInFails, DidNotSignIn, DowloadProfileInfo
  <2> QED
    BY <2>1, <2>2
<1>6. CASE SignOut
  BY <1>6 DEF SignOut
<1>7. ASSUME NEW u \in Users, RecordArrives(u)
      PROVE  NameIsTheUsers'
  BY <1>7 DEF RecordArrives, navigation
<1>8. CASE Restart
  BY <1>8 DEF Restart
<1>9. ASSUME NEW i \in DOMAIN asked, PictureArrives(i) \/ PictureFails(i)
      PROVE  NameIsTheUsers'
  BY <1>9 DEF PictureArrives, PictureFails, session, navigation
<1>10. CASE UNCHANGED vars
  BY <1>10 DEF vars, session, navigation
<1> QED
  BY <1>1, <1>2, <1>3, <1>4, <1>5, <1>6, <1>7, <1>8, <1>9, <1>10 DEF Next

\* With a Facebook token dowloadProfileInfo follows every sign-in that the
\* Profile screen hears of (ProfileViewController.swift:146-152).
THEOREM NameFollowsSignIn == Spec => []NameIsTheUsers
<1>1. Init => NameIsTheUsers
  BY DEF Init, NameIsTheUsers
<1>2. TypeOK /\ NameIsTheUsers /\ [Next]_vars => NameIsTheUsers'
  BY NameStep
<1> QED
  BY <1>1, <1>2, ProfileTypeCorrect, PTL DEF Spec

-----------------------------------------------------------------------------
(* What the screen shows and offers.                                       *)

\* The row is set and the sign-in screen presented for u.
LEMMA AppearedFor ==
    ASSUME NEW u, ViewWillAppear(u)
    PROVE  /\ data' = "SignIn" => u \notin Named
           /\ sheet' => u \notin Named
BY DEF ViewWillAppear

LEMMA OfferedStep ==
    ASSUME SignInIsOffered, [Next]_vars
    PROVE  SignInIsOffered'
<1> USE DEF SignInIsOffered
<1>1. CASE ShowRoot \/ ShowOther \/ ShowMyPlaces \/ OpenMyPlaces
  BY <1>1 DEF ShowRoot, ShowOther, ShowMyPlaces, OpenMyPlaces, session
<1>2. CASE ShowProfile \/ CloseMyPlaces \/ SignInFails
  <2>1. user' = user /\ ViewWillAppear(user)
    BY <1>2 DEF ShowProfile, CloseMyPlaces, SignInFails, session
  <2> QED
    BY <2>1, AppearedFor
<1>3. ASSUME NEW u \in Users, SignIn(u)
      PROVE  SignInIsOffered'
  BY <1>3, AppearedFor DEF SignIn
<1>4. CASE SignOut
  BY <1>4, NoneIsUnnamed DEF SignOut
<1>5. ASSUME NEW u \in Users, RecordArrives(u)
      PROVE  SignInIsOffered'
  BY <1>5 DEF RecordArrives, navigation
<1>6. CASE Restart
  BY <1>6 DEF Restart
<1>7. ASSUME NEW i \in DOMAIN asked, PictureArrives(i) \/ PictureFails(i)
      PROVE  SignInIsOffered'
  BY <1>7 DEF PictureArrives, PictureFails, session, navigation
<1>8. CASE UNCHANGED vars
  BY <1>8 DEF vars, session, navigation
<1> QED
  BY <1>1, <1>2, <1>3, <1>4, <1>5, <1>6, <1>7, <1>8 DEF Next

\* The row that viewWillAppear sets (ProfileViewController.swift:113-124) offers
\* to sign in only to those for whom it presents the sign-in screen.
THEOREM OffersAreTrue == Spec => []SignInIsOffered
<1>1. Init => SignInIsOffered
  BY DEF Init, SignInIsOffered
<1>2. SignInIsOffered /\ [Next]_vars => SignInIsOffered'
  BY OfferedStep
<1> QED
  BY <1>1, <1>2, PTL DEF Spec

\* A download for the current user, if at all.
LEMMA DownloadForUser ==
    ASSUME TypeOK, NEW u \in Users \cup {None}, DowloadProfileInfo(u),
           \A i \in DOMAIN asked : asked[i] = u, label \in {u, None}
    PROVE  /\ \A i \in DOMAIN asked' : asked'[i] = u
           /\ label' \in {u, None}
<1>1. asked \in Seq(Pictured)
  BY DEF TypeOK
<1>2. u \in Pictured =>
         \A i \in DOMAIN Append(asked, u) : Append(asked, u)[i] = u
  <2> SUFFICES ASSUME u \in Pictured, NEW i \in DOMAIN Append(asked, u)
               PROVE  Append(asked, u)[i] = u
    OBVIOUS
  <2>1. /\ Append(asked, u) \in Seq(Pictured)
        /\ Len(Append(asked, u)) = Len(asked) + 1
        /\ \A j \in 1 .. Len(asked) : Append(asked, u)[j] = asked[j]
        /\ Append(asked, u)[Len(asked) + 1] = u
    BY <1>1, AppendProperties
  <2>2. /\ DOMAIN asked = 1 .. Len(asked) /\ Len(asked) \in Nat
        /\ DOMAIN Append(asked, u) = 1 .. Len(Append(asked, u))
    BY <1>1, <2>1, LenProperties
  <2>3. i \in 1 .. Len(asked) \/ i = Len(asked) + 1
    BY <2>1, <2>2
  <2> QED
    BY <2>1, <2>2, <2>3
<1> QED
  BY <1>2 DEF DowloadProfileInfo, NameOf

\* Whoever the sign-in screen is presented to has nothing to show.
LEMMA NothingShown ==
    ASSUME ShownInv, sheet, ~ signedOut
    PROVE  /\ label = None /\ picture = None
           /\ \A i \in DOMAIN asked : FALSE
<1>1. user \notin Named
  BY DEF ShownInv, SheetIsForNobody
<1>2. /\ label \in Named \cup {None} /\ label \in {user, None}
      /\ picture \in Pictured \cup {None} /\ picture \in {user, None}
  BY DEF ShownInv, TypeOK, NobodyElseIsShown
<1>3. ASSUME NEW i \in DOMAIN asked
      PROVE  FALSE
  <2>1. asked[i] \in Pictured
    BY ElementOfSeq, LenProperties DEF ShownInv, TypeOK
  <2>2. asked[i] = user
    BY DEF ShownInv, AskedIsUsers
  <2> QED
    BY <1>1, <2>1, <2>2, AccountsAssumption
<1> QED
  BY <1>1, <1>2, <1>3, AccountsAssumption

LEMMA ShownStep ==
    ASSUME ShownInv, [Next]_vars
    PROVE  ShownInv'
<1>1. TypeOK'
  BY StepTypes DEF ShownInv
<1> DEFINE Shows(u) == /\ label \in {u, None} /\ picture \in {u, None}
                       /\ \A i \in DOMAIN asked : asked[i] = u
<1>2. ShownInv <=> /\ TypeOK /\ SheetIsForNobody
                   /\ ~ signedOut => Shows(user)
  BY DEF ShownInv, NobodyElseIsShown, AskedIsUsers
<1>3. ShownInv' <=> /\ TypeOK' /\ SheetIsForNobody'
                    /\ ~ signedOut' => Shows(user)'
  BY DEF ShownInv, NobodyElseIsShown, AskedIsUsers
<1>4. CASE ShowRoot \/ ShowOther \/ ShowMyPlaces \/ OpenMyPlaces
  <2>1. UNCHANGED <<user, label, picture, asked, signedOut, sheet>>
    BY <1>4 DEF ShowRoot, ShowOther, ShowMyPlaces, OpenMyPlaces, session
  <2> QED
    BY <1>1, <1>2, <1>3, <2>1 DEF SheetIsForNobody
<1>5. CASE ShowProfile
  <2>1. /\ user' = user /\ ViewWillAppear(user)
        /\ UNCHANGED <<picture, signedOut>>
        /\ DowloadProfileInfo(user) \/ UNCHANGED <<label, asked>>
    BY <1>5 DEF ShowProfile, ViewDidLoad, session
  <2>2. SheetIsForNobody'
    BY <2>1, AppearedFor DEF SheetIsForNobody
  <2>3. ~ signedOut /\ DowloadProfileInfo(user) => Shows(user)'
    BY <1>2, <2>1, DownloadForUser DEF TypeOK
  <2>4. ~ signedOut' => Shows(user)'
    BY <1>2, <2>1, <2>3
  <2> QED
    BY <1>1, <1>3, <2>2, <2>4
<1>6. CASE CloseMyPlaces
  <2>1. /\ ViewWillAppear(user)
        /\ UNCHANGED <<user, label, picture, asked, signedOut>>
    BY <1>6 DEF CloseMyPlaces, session
  <2>2. SheetIsForNobody'
    BY <2>1, AppearedFor DEF SheetIsForNobody
  <2> QED
    BY <1>1, <1>2, <1>3, <2>1, <2>2
<1>7. ASSUME NEW u \in Users, SignIn(u)
      PROVE  ShownInv'
  <2>1. /\ sheet /\ user' = u /\ ViewWillAppear(u)
        /\ UNCHANGED <<picture, signedOut>>
        /\ DowloadProfileInfo(u) \/ UNCHANGED <<label, asked>>
    BY <1>7 DEF SignIn, DidSignIn
  <2>2. SheetIsForNobody'
    BY <2>1, AppearedFor DEF SheetIsForNobody
  <2>3. ~ signedOut => label = None /\ picture = None
                       /\ \A i \in DOMAIN asked : FALSE
    BY <2>1, NothingShown
  <2>4. ~ signedOut /\ DowloadProfileInfo(u) =>
           label' \in {u, None} /\ \A i \in DOMAIN asked' : asked'[i] = u
    BY <1>2, <2>3, DownloadForUser
  <2>5. ~ signedOut' => Shows(user)'
    BY <2>1, <2>3, <2>4
  <2> QED
    BY <1>1, <1>3, <2>2, <2>5
<1>8. CASE SignInFails
  <2>1. /\ user' = user /\ ViewWillAppear(user)
        /\ UNCHANGED <<picture, signedOut>>
        /\ DowloadProfileInfo(user) \/ UNCHANGED <<label, asked>>
    BY <1>8 DEF SignInFails, DidNotSignIn
  <2>2. SheetIsForNobody'
    BY <2>1, AppearedFor DEF SheetIsForNobody
  <2>3. ~ signedOut /\ DowloadProfileInfo(user) => Shows(user)'
    BY <1>2, <2>1, DownloadForUser DEF TypeOK
  <2>4. ~ signedOut' => Shows(user)'
    BY <1>2, <2>1, <2>3
  <2> QED
    BY <1>1, <1>3, <2>2, <2>4
<1>9. CASE SignOut
  BY <1>1, <1>3, <1>9 DEF SignOut, Free, navigation, SheetIsForNobody
<1>10. ASSUME NEW u \in Users, RecordArrives(u)
       PROVE  ShownInv'
  <2>1. UNCHANGED <<user, label, picture, asked, signedOut, sheet>>
    BY <1>10 DEF RecordArrives, navigation
  <2> QED
    BY <1>1, <1>2, <1>3, <2>1 DEF SheetIsForNobody
<1>11. CASE Restart
  <2>1. /\ ~ sheet' /\ label' = None /\ picture' = None /\ asked' = << >>
    BY <1>11 DEF Restart
  <2> QED
    BY <1>1, <1>3, <2>1 DEF SheetIsForNobody
<1>12. ASSUME NEW i \in DOMAIN asked, PictureArrives(i) \/ PictureFails(i)
       PROVE  ShownInv'
  <2>1. /\ UNCHANGED <<user, label, signedOut, sheet>>
        /\ asked' = RemoveAt(asked, i)
        /\ picture' \in {asked[i], None, picture}
    BY <1>12 DEF PictureArrives, PictureFails, session, navigation
  <2>2. \A j \in DOMAIN asked' : \E k \in DOMAIN asked : asked'[j] = asked[k]
    BY <2>1, RemovedAt DEF ShownInv, TypeOK
  <2>3. ~ signedOut' => Shows(user)'
    BY <1>2, <2>1, <2>2
  <2> QED
    BY <1>1, <1>2, <1>3, <2>1, <2>3 DEF SheetIsForNobody
<1>13. CASE UNCHANGED vars
  <2>1. UNCHANGED <<user, label, picture, asked, signedOut, sheet>>
    BY <1>13 DEF vars, session, navigation
  <2> QED
    BY <1>1, <1>2, <1>3, <2>1 DEF SheetIsForNobody
<1> QED
  BY <1>4, <1>5, <1>6, <1>7, <1>8, <1>9, <1>10, <1>11, <1>12, <1>13 DEF Next

\* Until the first sign-out, whoever looks at the Profile screen sees no other
\* person's name or picture, although the picture is set by a completion
\* handler that does not ask who is signed in (ProfileViewController.swift:137).
THEOREM OwnProfileIsShown == Spec => []NobodyElseIsShown
<1>1. Init => ShownInv
  BY InitTypes DEF Init, ShownInv, NobodyElseIsShown, AskedIsUsers,
     SheetIsForNobody
<1>2. ShownInv /\ [Next]_vars => ShownInv'
  BY ShownStep
<1>3. ShownInv => NobodyElseIsShown
  BY DEF ShownInv
<1> QED
  BY <1>1, <1>2, <1>3, PTL DEF Spec

=============================================================================

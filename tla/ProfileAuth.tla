----------------------------- MODULE ProfileAuth ------------------------------
(***************************************************************************)
(* The Profile screen and signing in.                                      *)
(*                                                                         *)
(* FirebaseUI tells one object, its weak delegate, how a sign-in ended.    *)
(* Every list takes the delegate each time it appears and does nothing     *)
(* with what it is told; the Profile screen takes it once, when it loads,  *)
(* and then keeps a record of the person and, if there is a Facebook       *)
(* token, shows the person's name and asks for the picture.                *)
(*                                                                         *)
(* FirebaseUI's sign-in screen covers the Profile screen, which appears    *)
(* again when it ends.  A name, a picture and a record are those of a      *)
(* user, and stand for it here.                                            *)
(***************************************************************************)
EXTENDS Naturals, Sequences, SequencesExt

CONSTANTS
    Users, None,
    Named,          \* the users whose account has a displayName
    Pictured,       \* the users whose account has a photoURL
    FacebookUsers,  \* the users who sign in with Facebook
    MaxAsked        \* bound: downloads of pictures under way

ASSUME ProfileNoneAssumption == None \notin Users
ASSUME AccountsAssumption ==
    /\ Named \subseteq Users
    /\ Pictured \subseteq Named
    /\ FacebookUsers \subseteq Named
ASSUME MaxAskedAssumption == MaxAsked \in Nat

VARIABLES
    user,       \* Auth.auth().currentUser
    token,      \* there is a current FBSDKAccessToken
    people,     \* the database: users with a record below `people'
    sending,    \* SDK: records on their way there
    screen,     \* the screen shown; "other" is the Locator or a detail screen
    myOpen,     \* My Places is on the Profile tab's stack
    loaded,     \* the Profile screen's viewDidLoad has run
    delegate,   \* FUIAuth.defaultAuthUI()!.delegate
    sheet,      \* the sign-in screen covers the Profile screen
    data,       \* what the last row of the Profile screen is to say
    label,      \* profileNameLabel: whose name it shows
    asked,      \* downloads of pictures that have not been answered
    picture,    \* profileImageView: whose picture it shows
    trap,       \* a forced unwrapping has stopped the app
    early,      \* history: who was signed in when the Profile screen loaded
    signedOut   \* history: somebody has signed out since the app started

session == <<user, token, people, sending>>
navigation == <<screen, myOpen, loaded, delegate, sheet, data>>
vars == <<session, navigation, label, asked, picture, trap, early, signedOut>>

Free == ~ trap /\ ~ sheet

-----------------------------------------------------------------------------
(* What the handlers of the Profile screen have in common; `u' is the      *)
(* current user at that time.                                              *)

NameOf(u) == IF u \in Named THEN u ELSE None

\* Variant: a name once shown is kept.
DowloadProfileInfoOnce(u) ==
    \/ /\ u # None
       /\ label' = IF label = None THEN NameOf(u) ELSE label
       /\ asked' = IF u \in Pictured THEN Append(asked, u) ELSE asked
    \/ /\ u = None
       /\ UNCHANGED <<label, asked>>

\* Variant: the picture is asked for without a photoURL.
DowloadProfileInfoUnasked(u) ==
    \/ /\ u # None
       /\ label' = NameOf(u)
       /\ asked' = Append(asked, u)
    \/ /\ u = None
       /\ UNCHANGED <<label, asked>>

DowloadProfileInfo(u) ==
    \/ /\ u # None
       /\ label' = NameOf(u)
       /\ asked' = IF u \in Pictured THEN Append(asked, u) ELSE asked
    \/ /\ u = None
       /\ UNCHANGED <<label, asked>>

\* Variant: the sign-in screen comes up for everybody.
ViewWillAppearAlways(u) ==
    /\ data' = IF u \in Named THEN "SignOut" ELSE "SignIn"
    /\ sheet' \in BOOLEAN

\* Variant: the row is not set back.
ViewWillAppearOneWay(u) ==
    \/ /\ u \notin Named
       /\ data' = "SignIn"
       /\ sheet' \in BOOLEAN
    \/ /\ u \in Named
       /\ sheet' = FALSE
       /\ UNCHANGED data

\* The sign-in screen is presented while the Profile screen is not in the
\* window yet, or another presentation ends: UIKit may refuse.
ViewWillAppear(u) ==
    \/ /\ u \notin Named
       /\ data' = "SignIn"
       /\ sheet' \in BOOLEAN
    \/ /\ u \in Named
       /\ data' = "SignOut"
       /\ sheet' = FALSE

ViewDidLoad ==
    /\ loaded' = TRUE
    /\ delegate' = "profile"
    /\ early' = user
    /\ DowloadProfileInfo(user)

\* Variant: the record is written only where the name is fetched.
DidSignInWithToken(u, hasToken) ==
    \/ /\ delegate = "profile" /\ hasToken
       /\ DowloadProfileInfo(u)
       /\ \/ /\ u \in Named
             /\ sending' = sending \cup {u}
             /\ UNCHANGED trap
          \/ /\ u \notin Named
             /\ trap' = TRUE
             /\ UNCHANGED sending
    \/ /\ ~ (delegate = "profile" /\ hasToken)
       /\ UNCHANGED <<label, asked, sending, trap>>

\* authUI(_:didSignInWith:error:) for user u without an error.  With a token
\* the displayName of u is unwrapped by force.
DidSignIn(u, hasToken) ==
    \/ /\ delegate = "profile" /\ hasToken
       /\ DowloadProfileInfo(u)
       /\ \/ /\ u \in Named
             /\ sending' = sending \cup {u}
             /\ UNCHANGED trap
          \/ /\ u \notin Named
             /\ trap' = TRUE
             /\ UNCHANGED sending
    \/ /\ delegate = "profile" /\ ~ hasToken
       /\ sending' = sending \cup {u}
       /\ UNCHANGED <<label, asked, trap>>
    \/ /\ delegate # "profile"
       /\ UNCHANGED <<label, asked, sending, trap>>

\* The same with an error and no user.
DidNotSignIn(hasToken) ==
    \/ /\ delegate = "profile" /\ hasToken
       /\ DowloadProfileInfo(user)
    \/ /\ ~ (delegate = "profile" /\ hasToken)
       /\ UNCHANGED <<label, asked>>

-----------------------------------------------------------------------------
(* The tabs.                                                               *)

ShowRoot ==
    /\ Free
    /\ screen # "root"
    /\ screen' = "root"
    /\ delegate' = "root"
    /\ UNCHANGED <<session, myOpen, loaded, sheet, data, label, asked,
                   picture, trap, early, signedOut>>

ShowOther ==
    /\ Free
    /\ screen # "other"
    /\ screen' = "other"
    /\ UNCHANGED <<session, myOpen, loaded, delegate, sheet, data, label,
                   asked, picture, trap, early, signedOut>>

\* The Profile tab, with My Places on top.
ShowMyPlaces ==
    /\ Free
    /\ screen \in {"root", "other"}
    /\ myOpen
    /\ screen' = "my"
    /\ delegate' = "my"
    /\ UNCHANGED <<session, myOpen, loaded, sheet, data, label, asked,
                   picture, trap, early, signedOut>>

ShowProfile ==
    /\ Free
    /\ screen \in {"root", "other"}
    /\ ~ myOpen
    /\ Len(asked) < MaxAsked
    /\ screen' = "profile"
    /\ \/ ~ loaded /\ ViewDidLoad
       \/ loaded /\ UNCHANGED <<loaded, delegate, early, label, asked>>
    /\ ViewWillAppear(user)
    /\ UNCHANGED <<session, myOpen, picture, trap, signedOut>>

\* Row 0, for a user who has visited places (ListScreens has the other cases).
OpenMyPlaces ==
    /\ Free
    /\ screen = "profile"
    /\ user # None
    /\ myOpen' = TRUE
    /\ screen' = "my"
    /\ delegate' = "my"
    /\ UNCHANGED <<session, loaded, sheet, data, label, asked, picture, trap,
                   early, signedOut>>

\* My Places is freed, and the weak delegate is nil.
CloseMyPlaces ==
    /\ Free
    /\ screen = "my"
    /\ myOpen' = FALSE
    /\ screen' = "profile"
    /\ delegate' = "none"
    /\ ViewWillAppear(user)
    /\ UNCHANGED <<session, loaded, label, asked, picture, trap, early,
                   signedOut>>

-----------------------------------------------------------------------------
(* Signing in and out.                                                     *)

\* The account is signed in when the sign-in screen goes.
SignIn(u) ==
    /\ sheet /\ ~ trap
    /\ Len(asked) < MaxAsked
    /\ user' = u
    /\ token' = (token \/ u \in FacebookUsers)
    /\ DidSignIn(u, token')
    /\ ViewWillAppear(u)
    /\ UNCHANGED <<people, screen, myOpen, loaded, delegate, picture, early,
                   signedOut>>

\* The user cancels, or Firebase refuses what Facebook or Google has granted.
SignInFails ==
    /\ sheet /\ ~ trap
    /\ Len(asked) < MaxAsked
    /\ token' \in {token, TRUE}
    /\ DidNotSignIn(token')
    /\ ViewWillAppear(user)
    /\ UNCHANGED <<user, people, sending, screen, myOpen, loaded, delegate,
                   picture, trap, early, signedOut>>

\* Row 3, confirmed.  The alert leaves the screen where it is, which does not
\* appear again.
SignOut ==
    /\ Free
    /\ screen = "profile"
    /\ user # None
    /\ user' = None
    /\ signedOut' = TRUE
    /\ UNCHANGED <<token, people, sending, navigation, label, asked, picture,
                   trap, early>>

-----------------------------------------------------------------------------
(* Answers that come at any time.                                          *)

\* The record reaches the database.
RecordArrives(u) ==
    /\ u \in sending
    /\ people' = people \cup {u}
    /\ sending' = sending \ {u}
    /\ UNCHANGED <<user, token, navigation, label, asked, picture, trap,
                   early, signedOut>>

\* A download ends, in any order, with the picture or with something else.
PictureArrives(i) ==
    /\ ~ trap
    /\ i \in DOMAIN asked
    /\ picture' \in {asked[i], None}
    /\ asked' = RemoveAt(asked, i)
    /\ UNCHANGED <<session, navigation, label, trap, early, signedOut>>

PictureFails(i) ==
    /\ ~ trap
    /\ i \in DOMAIN asked
    /\ asked' = RemoveAt(asked, i)
    /\ UNCHANGED <<session, navigation, label, picture, trap, early,
                   signedOut>>

\* The app is ended, or stopped by the trap, and started again: records that
\* have not been sent are lost, and the account is not.  The Facebook SDK may
\* find its token again.
Restart ==
    /\ screen' = "root" /\ delegate' = "root"
    /\ myOpen' = FALSE /\ loaded' = FALSE /\ sheet' = FALSE
    /\ data' = "SignOut"
    /\ label' = None /\ picture' = None /\ asked' = << >>
    /\ trap' = FALSE /\ early' = None /\ signedOut' = FALSE
    /\ token' \in BOOLEAN
    /\ sending' = {}
    /\ UNCHANGED <<user, people>>

Init ==
    /\ user \in Users \cup {None}
    /\ token \in BOOLEAN
    /\ people = {} /\ sending = {}
    /\ screen = "root" /\ delegate = "root"
    /\ myOpen = FALSE /\ loaded = FALSE /\ sheet = FALSE
    /\ data = "SignOut"
    /\ label = None /\ picture = None /\ asked = << >>
    /\ trap = FALSE /\ early = None /\ signedOut = FALSE

Next ==
    \/ ShowRoot \/ ShowOther \/ ShowMyPlaces \/ ShowProfile
    \/ OpenMyPlaces \/ CloseMyPlaces
    \/ \E u \in Users : SignIn(u) \/ RecordArrives(u)
    \/ SignInFails
    \/ SignOut
    \/ \E i \in DOMAIN asked : PictureArrives(i) \/ PictureFails(i)
    \/ Restart

Spec == Init /\ [][Next]_vars

-----------------------------------------------------------------------------
(* Properties.                                                             *)

\* Every variable holds what its counterpart can; in particular only pictures
\* that an account has are asked for (photoURL is unwrapped by force).
TypeOK ==
    /\ user \in Users \cup {None} /\ early \in Users \cup {None}
    /\ token \in BOOLEAN
    /\ people \subseteq Users /\ sending \subseteq Users
    /\ screen \in {"root", "other", "profile", "my"}
    /\ delegate \in {"root", "profile", "my", "none"}
    /\ myOpen \in BOOLEAN /\ loaded \in BOOLEAN /\ sheet \in BOOLEAN
    /\ data \in {"SignIn", "SignOut"}
    /\ label \in Named \cup {None} /\ picture \in Pictured \cup {None}
    /\ asked \in Seq(Pictured) /\ Len(asked) <= MaxAsked
    /\ trap \in BOOLEAN /\ signedOut \in BOOLEAN

\* As long as no list has appeared since the Profile screen loaded, nobody is
\* signed in without a record below `people', on its way or there, but the
\* user whom the app had already when it loaded.  (Once a list has taken the
\* delegate, sign-ins leave no record.)
SignedInIsRecorded ==
    delegate = "profile" /\ user # None /\ ~ trap =>
       user \in people \cup sending \cup {early}

\* As long as no list has appeared and there is a Facebook token, the name on
\* the screen is that of the user: sign-ins that fail, by other providers or
\* of accounts without a name included.
NameIsTheUsers ==
    delegate = "profile" /\ token /\ user # None =>
       label = NameOf(user)

\* The last row means to say Sign in only while nobody with a name is signed
\* in, since every sign-in ends with the screen appearing again.
SignInIsOffered ==
    screen = "profile" /\ data = "SignIn" => user \notin Named

\* Until somebody signs out the screen shows nobody else's name or picture,
\* however late the picture comes: only who has no name, and then no
\* picture either, is asked to sign in.
NobodyElseIsShown ==
    ~ signedOut => {label, picture} \subseteq {user, None}

=============================================================================

# BeenHere: a TLA+ specification

BeenHere is an iOS app: it lists places to visit, shows their pictures and
ratings, notices with the phone's location when the user is at a place (a
*visit*), and lets the user rate places. All phones share one Firebase
Realtime Database; users may be signed in (Google, Facebook) or anonymous.

This directory models the app's own Swift code (`src/BeenHere/BeenHere`).
Paths below are relative to that directory unless they start with `Pods/`.

## 1. Inventory

| Part | Source | State | Operations |
|---|---|---|---|
| Place record | `Place.swift` | one place: name, info, position, `rating`, `visits`, `visitors`, `ratings`, `imageNames`, `placeImages` | `visit`, `rate`, `calculateRating`, `placeFromDictionary`, `dictionaryFromPlace`, equality by key |
| Places list | `Places.swift` | singleton `places`, one weak `delegate` | `downloadDatabasePlacesData` (observers `childAdded`, `childChanged`), `visit`, `rate`, `visitedPlaces`, `PlacesLocations` |
| Images | `Places.swift` 37-126, `PlaceDetailViewController.swift` 52-83, `ImageViewerViewController.swift`, `ImageViewerCollectionViewCell.swift` | `placeImages` of each `Place`, files in the documents directory | download, write to file, look up, "ReloadData" notification, viewer |
| List screens | `PlacesViewController.swift`, `PlaceTableViewCell.swift` | a copy `places` of the list, the rows drawn from it, `showOnlyVisited`, visible or not | `placesUpdated`, `viewDidLoad`, `viewDidAppear`, `prepare(for:)` |
| Detail screen | `PlaceDetailViewController.swift`, its cells and header | `detailPlace`: a reference to one `Place` | rate, show images |
| Locator | `Controllers/LocatorViewController.swift`, `Helpers/LocationManager.swift`, `MeterCircularView.swift` | location updates on/off, permission, the geocoder's requests, the radar's animation, label, alert | start, stop, `locationUpdated`, `locationFailed`, permission changes |
| Profile and sign-in | `Controllers/ProfileViewController.swift`, `PlacesViewController.swift` 79-102 | `authUI.delegate`, current user, Facebook token, the `people/` record, name, picture, text of the last row | `viewDidLoad`, `viewWillAppear`, `dowloadProfileInfo`, sign in, sign out, My Places |
| Star rating | `CosmosDistrib.swift` | `rating`, layers, settings | touch to rating, rounding, filling, accessibility steps |
| App start | `AppDelegate.swift` | none | `FirebaseApp.configure()` |
| Firebase, Core Location, UIKit, FirebaseUI | `Pods/`, system | caches, queues | external: modelled as the code uses them |

How they interact. `Places.sharedInstance` is shared by all screens; the list
and detail screens hold *references* to its `Place` objects. Firebase calls
the observers' blocks on the main queue: once for each change and each
registered pair of observers, the device's own writes included
(`Pods/FirebaseDatabase/.../FIRDatabase.h`, lines 118-150). `Places` tells its
one delegate, the list screen that loaded last. The Locator calls
`Places.visit` for every near place of the list, the detail screen calls
`Places.rate`, both write **all** fields of their object with
`updateChildValues`. Image downloads, geocoding, permission dialogs and
sign-in answer through callbacks at any later time.

What is hard, and what makes each part correct:

* *Records and names.* Names of anonymous visitors and raters are made up from
  counts. Correct: nobody is listed twice, no rating overwrites another
  person's, the stored average is that of the stored ratings.
* *List and synchronisation.* Two copies of one place in one app (list and
  detail screen), many devices, whole-record writes, resent writes, observers
  registered many times. Correct: the list follows the SDK's cache, rows do
  not move, a write drops nothing its device knows, devices converge.
* *Images.* Several downloads per place and screen, answers after the place
  has been replaced. Correct: the screen showing a place gets its images.
* *List screens.* One weak delegate handed from screen to screen, copies of an
  array of shared objects, blocks that outlive the screen that registered them.
  Correct: the list that is the delegate shows every place as the SDK has it,
  My Places just the user's, and no update needs a user who has signed out.
* *Locator.* Answers of the geocoder in any order and after stopping. Correct:
  a visit is recorded only near a place and is announced; the radar turns only
  while the location is being determined.
* *Star rating.* Arithmetic with thresholds. Correct: what is shown and stored
  lies between 0 and the number of stars and is monotone in the touch.
* *Sign-in.* `authUI.delegate` is handed over like the list's delegate, and
  what follows a sign-in depends on the provider and on tokens left over.
  Correct: who signs in is recorded, and the screen shows that user's name and
  picture, however late an answer comes.

## 2. Plan

Done:

1. `PlaceRecord`: the pure operations of a place.
2. `PlacesSync`: the list, the SDK, the server and the detail screen's object
   on several devices; runs on one and two devices; liveness.
3. `PlacesSyncProofs`: the lemmas on records, type correctness, the record
   invariants, and that rows stay and no place is listed twice.
4. `PlacesBoard`, `PlacesHistory`, `PlacesHistoryProofs`: the abstract board of
   places, and `PlacesSync` shown to implement it.
5. `PlacesCacheProofs`: what the list is against the SDK's cache, and the cache
   against the database.
6. `Locator`, `LocatorProofs`: Core Location, the geocoder, the radar and the
   visit decision.
7. `StarRating`, `StarRatingProofs`: touch, rounding, drawing and VoiceOver;
   `StarScreens`: both views of the storyboard together.
8. `PlaceImages`, `PlaceImagesProofs`: downloads, files, the detail screen
   and the viewer.
9. `ListScreens`, `ListScreensProofs`: the weak delegate handed from the list
   to My Places, the screens' own copies of the list, their rows and the
   detail screens opened from them.
10. `ProfileAuth`, `ProfileAuthProofs`: `authUI.delegate`, the last row, the
    name, the picture that arrives late, the `people/` record.

Every safety property and every action property that a run checks is also a
theorem.

Left, in this order:

11. A place removed at the console, in `PlacesSync`: `ListScreens` has it, for
    one device. The proofs of `PlacesCacheProofs` then need "ever existed" for
    "exists", and a notion of a row that is excused.
12. The composition of Locator and `PlacesSync` in one app: `locationUpdated`
    as a loop over the list that the observers change.

Which module builds on which: `PlacesSync` extends `PlaceRecord`;
`PlacesHistory` extends `PlacesSync` and instantiates `PlacesBoard`;
`StarScreens` extends `StarRating` and instantiates it a second time, and
`StarRatingProofs` extends `StarScreens`; the others stand alone.
An `MC` module extends its component and names small sets.

## 3. The modules

### PlaceRecord

A place is a record of four fields: `info` (everything that only an
administrator changes), `visitors` (a sequence of names), `ratings` (the
dictionary as a finite set of name-stars pairs) and `rating` (the fraction
that `calculateRating` divides, sum and count, so that no rounding hides an
error). A name is `<<"uid", u>>` or `<<"anon", n>>`; the prefix "Anonymous" of
a visitor is not kept. `Visited` and `Rated` are `Place.visit` and
`Place.rate`; `VisitorName` and `RaterName` are the names `Places.visit` and
`Places.rate` make up; `ArrivesAsArray` is Firebase's rule for which nodes
are handed back as an array (all keys integers, the largest below twice their
number), `PlaceFromDictionarySucceeds` the cast that then fails.

### PlacesSync

| Variable | Stands for |
|---|---|
| `server` | the node `Places` in the database |
| `view` | the SDK's cache on each device, own unacknowledged writes included |
| `sending`, `unacked` | writes not yet applied by the server / applied, not yet acknowledged |
| `down` | updates on their way from the server, acknowledgements included |
| `events` | calls of the observers' blocks waiting in the main queue |
| `observers` | how often `downloadDatabasePlacesData` has been called |
| `places` | `Places.sharedInstance.places`: key and content of each object |
| `detail`, `orphan` | the detail screen's place; its object when the list has another one |
| `auth`, `status` | the current user; off, running, or stopped by a trap |

`Launch` is the root list's `viewDidLoad`; `HandleChildAdded` and
`HandleChildChanged` are the two observer blocks; `Visit` is `Places.visit`;
`RateListed` and `RateOrphan` are `Places.rate` from the detail screen, when
it shares its object with the list and when it does not; `OpenMyPlaces` is
row 0 of the Profile screen, with the second registration it causes;
`FailCast` and `FailUnwrap` are traps of the code. `ServerApply`, `Deliver`,
`Reconnect`, `Kill`, `ConsoleAdd`, `ConsoleEdit` are the environment: the
database applies whole records in the order a device sends them, tells every
listening device, and a device that reconnects sends its unacknowledged
writes again and gets a fresh copy.

Simplifications: one detail screen per device; the detail screen is opened
with the list's current object (a root list that has lost the delegate holds
older ones: that case is in `ListScreens`); the loop of
`locationUpdated` over near places is several `Visit` steps; a place is not
removed from the database (`ListScreens` has that case).

### PlacesBoard and PlacesHistory

`PlacesBoard` is what the list promises without saying how: `board` has one
record per place, `posted` all records ever written for it, `lists` the rows
on each device. Somebody adds or edits a place at the console (`Add`, `Edit`),
a user acts on the record in a row (`ActOnRow`) or on a former one that a
screen still shows (`ActOnFormer`); what was posted gets onto the board
(`Store`) and into rows (`ShowNew`, `ShowChange`), one record at a time and in
any order; an app ends (`Close`). It promises less than one would wish: an
act on a former record takes later visits back, as the first finding says.

`PlacesHistory` adds the history variable `posted` to `PlacesSync` (nothing
depends on it) and maps `board` to `server` and `lists` to `places`.
`ImplementsBoard` says that every step of the devices, the network and the
console is a step of the board or invisible there.

### Locator

A place is its distance from the user and whether its record in the list has a
visit of the user.

| Variable | Stands for |
|---|---|
| `permission`, `asking`, `callback` | the authorization status, the system's question, a `didChangeAuthorization` that is due |
| `loaded`, `onScreen` | `viewDidLoad` has run; the tab is selected |
| `updating`, `radar` | location updates are on; the arrow of `MeterCircularView` turns |
| `requests` | positions given to geocoders that have not answered |
| `alert`, `label` | the congratulation on the screen; `placeLabel.text` |
| `visited`, `signedIn` | the places whose record in the list has the user's visit; which name a visit gets |
| `distance`, `closest` | where the user is; the smallest distance so far (history) |
| `visits`, `losses` | how often `Places.visit` has returned true for a place; how often its record has lost the visit (history) |

`DidChangeAuthorization`, `DidUpdateLocations`, `DidFailWithError`,
`Geocoded`, `GeocodedNowhere`, `Appear`, `Disappear`, `GetLocationAction`,
`StopLocationAction` and `DismissAlert` are the handlers;
`LocationUpdated` is the loop over the places, called with the position of the
*request*, not of the user. `ReplacedWithout` and `ReplacedWith` are
`childChanged` putting a record somebody has written in place of the listed one,
at any time, as `PlacesSync` has it: after a record without the visit
`Places.visit` returns true again. An earlier visit may be there from the start.
`ChangePermission` and `Move` are the user. The map with its pins is left out,
and no place is added to the list or removed from it.

### StarRating

`CosmosView` with its helpers (`CosmosRating`, `CosmosTouch`,
`CosmosAccessibility`, `CosmosLayers`), left to right. `rating`, `layers` (how
far each star is filled) and `spoken` (`accessibilityValue`) are what the view
has, shows and reads; `finger` is the touch; `previous` and `told` belong to
`didTouchCosmos` (whose closure in this app only prints); `recorded` is the
number of stars of the last `Places.rate`. `TouchesBegan`, `TouchesMoved`,
`TouchesEnded`, `Increment`, `Decrement` are the touch and VoiceOver handlers,
`Reuse` is `cellForRowAt`.

Ratings are whole numbers of `Unit`-ths of a star and positions whole points,
so the arithmetic is exact where the code's `Double` may round in the last
bit. A touch begins inside the view (widened to 44 points), and may move out
of it. Text, colour and shape are left out. The storyboard uses the modes full
(detail screen) and precise (list); the mode half is modelled and covered by
the proofs, but no run has it.

`StarScreens` has two of these views at once: the one of the detail screen,
with touches, and the one of a row (`Row`), which is smaller, draws precisely
and cannot be touched. Each has its own variables; the constants of both are
those of the storyboard.

### PlaceImages

One place in one app; every snapshot of it makes a new object, numbered by
`made`.

| Variable | Stands for |
|---|---|
| `loaded`, `listed` | `placeImages` of each object; the object in the list |
| `files` | pictures in the documents directory; they survive `Restart` |
| `firstAsked`, `allAsked` | downloads by `getDataForImageName`, which hold on to an object, and by `getPlacesDataForPlace`, which look the key up again |
| `row`, `detail`, `cells` | the row's picture; the detail screen's object and what it has drawn |
| `viewer`, `stopped` | the viewer's pictures and where it scrolls; an exception |
| `firstMissed`, `missed`, `unwritten` | failed downloads and writes (history) |

`ChildAdded` and `ChildChanged` are the observers' blocks as far as pictures
are concerned, `AnotherPlaceUpdated` the redrawing that other places cause,
`FirstArrives`/`FirstFails` and `PictureArrives`/`PictureFails` the answers of
the storage, `OpenDetail`, `OpenViewer`, `CloseViewer`, `CloseDetail` the
user. The list screen is the delegate throughout, and the order of a
dictionary's values is left out: `cells` is a set.

### ListScreens

The screens of one app that show the list. A place's content is the set of
users among its visitors and a `note` for the rest that a row shows.

| Variable | Stands for |
|---|---|
| `view`, `events`, `observers` | the SDK's cache, the main queue, the registrations |
| `objects`, `list` | all `Place` objects ever made; `Places.sharedInstance.places`, by reference |
| `delegate` | `Places.sharedInstance.delegate`: the root list, My Places or none |
| `copy`, `rows`, `shown` | `places` of each list screen, what its table has drawn, whether the table is visible |
| `myOpen`, `detail` | My Places is open; the object of the detail screen opened from each list |
| `user`, `trap` | the current user; a forced unwrapping has stopped the app |
| `removed` | places that have been removed from the database (history) |

`HandleChildAdded` and `HandleChildChanged` are the observers' blocks with
`placesUpdated` of the delegate; `OpenMyPlaces` is row 0 of the Profile screen
with `viewDidLoad` of the new list, `CloseMyPlaces` the controller freed, which
clears the weak delegate; `Visit` and `Rate` change an object in place, shared
by whoever refers to it; `Scroll` draws a row again; `TapRow` is
`prepare(for:)`. `Receive` puts any content into the cache at any time: the
order in which records really come is in `PlacesSync`. `Remove` is a place
removed at the console, which no observer hears of; a later visit or rating
writes the whole record and makes it anew.

The model reaches a root list that nobody tells of anything any more, after My
Places has been closed. What it shows then is stated nowhere in the code, so
that `RootFollows` is about the time when it is the delegate. It also reaches a
removed place whose row stays, and which, made anew, is reported as added and
not inserted, because the list has its key: the row then need not show what the
database holds. `RootFollows` says that each such place has one row, and what
the rows of the others show. And it reaches a My Places that stays blank, when
it is opened after every place has been removed; `MyPlacesShows` is stated for
a database with a place in it.

### ProfileAuth

A name, a picture and a record below `people/` are those of a user and stand
for it.

| Variable | Stands for |
|---|---|
| `user`, `token` | `Auth.auth().currentUser`; there is an `FBSDKAccessToken` |
| `people`, `sending` | the records in the database, and on their way |
| `screen`, `myOpen`, `loaded` | the screen shown, My Places on the Profile tab's stack, `viewDidLoad` has run |
| `delegate` | `FUIAuth.defaultAuthUI()!.delegate`, a weak reference |
| `sheet` | FirebaseUI's sign-in screen covers the Profile screen |
| `data` | the last row's text: Sign in or Sign out |
| `label`, `asked`, `picture` | the name shown, the downloads under way, the picture shown |
| `trap` | `displayName!` has stopped the app |
| `early`, `signedOut` | who was signed in when the screen loaded; somebody has signed out (history) |

`ShowRoot`, `ShowMyPlaces` and `OpenMyPlaces` are lists that appear and take
the delegate; `ShowProfile` runs `viewDidLoad` once and `viewWillAppear` always;
`SignIn`, `SignInFails` are `authUI(_:didSignInWith:error:)` with the screen
appearing again after it; `PictureArrives` and `PictureFails` are the answers,
in any order. The next value of `sheet` is open where the code presents from
`viewWillAppear`: the screen is not in the window yet, and UIKit may refuse.
On a restart the account stays, records not sent are lost (nothing is kept on
the disk), and the Facebook SDK may find its token again. The alert before a
sign-out is part of `SignOut`; the table draws the rows once, so that `data`
is what the last row is to say and not always what it says.

### Comments that start with "Variant"

Definitions whose comment starts with "Variant" are not part of the models:
they are slips the properties are known to catch, one for each property.

## 4. The runs

| Run | Bounds | Shows |
|---|---|---|
| `sync_one_device` | 1 device, 1 user, 2 places, 2 writes, 2 console changes, 1 fault, 2 pairs of observers | the list follows the SDK's cache and rows stay (`PlacesListedOnce`, `ChildChangedFindsPlace`, `ListCatchesUp`, `RowsStay`); records are sound (`TypeOK`, `RatingMatchesRatings`, `VisitorsListedOnce`, `AnonymousRatingsStay`); a write on a fresh object drops nothing (`FreshWriteKeepsAll`) |
| `sync_two_devices` | 2 devices, anonymous, 1 place, visits only, 2 writes, 1 place entered at the console, 1 fault, 1 pair of observers, fair | `QuiescentAgreement`: when nothing is under way, running devices show what the database holds; `WorkRunsOut`: devices do not keep one another busy; `Convergence`: every running app's list ends up equal to the database; `ImplementsBoard`: the refinement |
| `sync_visit_lost` | 1 device, 3 writes | finding: the device's own visit is dropped |
| `sync_ratings_array` | 1 device, 1 write | finding: an anonymous rating makes the place unreadable |
| `sync_no_user` | 1 device | finding: My Places without a user traps |
| `locator` | 2 places beside each other (at both, at one and near the other, near one only: 50, 300, 700 m), 2 requests at a time, 2 visits of a place, 1 visit of each place lost | `TypeOK`, `RadarMeansUpdating`, `VisitedWasNear`, `AlertIsTrue`; `VisitStandsOrIsLost`: a visit is recorded again only where the one before was lost |
| `locator_live` | 1 place, 1 request, 2 visits, 1 visit lost, fair | `StayingIsRecorded`: who stays near has the visit recorded, and again after it has been lost |
| `locator_visit_early` | 1 place, 1 request | finding: a visit at 300 m, against the label's words |
| `stars` | detail: 5 stars of 25 pt, mode full, touches from -3 to 128 pt and at 160 pt, averages of up to three ratings; row: 5 stars of 15 pt, margin 2, mode precise, four averages | `TypeOK`, `DrawnIsSpoken`, `StarUnderFinger`, `RecordedIsDrawn` for the detail screen's view; `RowDrawnIsSpoken` for a row used for one place after another |
| `images` | 2 pictures, 2 objects, 2 downloads of a picture at a time, fair | `TypeOK`, `DetailComplete`, `FirstIsComing`, `RowFills` |
| `list_screens` | 2 places, 1 user, 2 notes, 1 write, 2 records received or places removed, 2 pairs of observers, fair | `TypeOK`; `RootFollows`, `MyPlacesExact`: the list that is the delegate shows what the SDK has; `UpdateKnowsUser`: no update needs a user who is gone; `MyPlacesShows`: My Places becomes visible |
| `profile` | a Facebook user, a Google user, one without a name; 2 downloads at a time | `TypeOK`; `SignedInIsRecorded`, `NameIsTheUsers`: sign-ins the screen hears of leave their record and name; `SignInIsOffered`: the last row's text; `NobodyElseIsShown`: no late answer shows another user's picture |

Why the bounds are enough.

* *Synchronisation.* A stale write needs a write (which detaches the detail
  screen), a second one on the list's object and a third from the screen; a
  name clash needs one name in use and a second made up; a second pair of
  observers shows everything that further pairs do (more of the same calls);
  a fault matters between a write and its acknowledgement, and two devices
  with one write each are the smallest conflict: with the fault, the first
  device sends its record again after the second one has added to it, and the
  two differ although both visits are anonymous. Accounts, ratings and a second
  place are in the run of one device only, which keeps both runs short; the
  theorems of section 5 have all of them at once. Deadlock is not checked in
  these runs: when the bounds are used up and every app has stopped in a trap
  nothing can happen.
* *Locator.* The three distances lie on the three sides of the code's two
  thresholds; two requests are the smallest number that can be answered out of
  order, and two places the smallest number for which the loop's last label
  is not the only one. A visit, its loss and a second visit are the shortest
  way to a second one of a signed-in user.
* *Stars.* The constants are those of `Main.storyboard`, and every point of
  the view is a touch, with some beside it (one by more than a star), so that
  nothing is left out but fractions of a point. The row goes from each of its
  averages to each other, two of them within one star.
* *Images.* Two objects are the one shown on the detail screen and the one that
  has replaced it, each with its own download of the first picture; two
  downloads of a picture are what the screen asks for when both are missing;
  the second picture is the one that is not the first.
* *List screens.* A place that becomes the user's and one that does not need
  two keys; the second registration is the one My Places makes; two records
  received and a write are a place entered and changed under a detail screen that
  then writes the old object, or entered, removed and made anew by a visit.
  Deadlock is not checked: a trap and used-up bounds end everything.
* *Profile.* The three accounts are the three cases that the code tells apart;
  two downloads can be answered out of order. Deadlock is checked.

Fairness.

* `PlacesSync`: the server applies what it is sent, updates arrive, the main
  queue is served, each weakly fair on each device. This is what the SDK
  promises ("re-sends write operations when the network connection is
  restored", `FIRDatabase.h` line 118) and what UIKit's run loop does. Users,
  administrators and faults are never forced to act.
* `Locator`: Core Location keeps reporting positions while the updates are on
  (weak), and a geocoder that is asked again and again does not always answer
  with no placemark (strong). Moving, tapping and permissions are not forced.
  Nobody is forced to replace a record. A record loses the visit only while the
  bound on visits leaves room for one more, since the bound would otherwise hold
  up the geocoder's answers.
* `PlaceImages`: the storage answers every request, with the picture or an
  error. `RowFills` is stated for users who stay on the list while no download
  or write fails; the model reaches the cases left out (see the hazards at
  `Places.swift` 56 and 71).
* `ListScreens`: the main queue is served (weak), as in `PlacesSync`.
* `ProfileAuth` assumes no fairness: users need not come back from the sign-in
  screen, and nothing is claimed to happen.

What the four findings say is in `PROJECT.json`, each with the line of the
repository that it disagrees with:

1. A rating given on a detail screen that has already been rated on writes
   the visitors of an old object back, and drops the visit made meanwhile.
2. The first rating of a place, if anonymous, is stored under the key 1 and
   comes back as an array, which a forced cast refuses.
3. My Places unwraps the current user, also after a sign-out.
4. The visit is recorded at 500 m, before the test for the 100 m that the
   label asks for; a signed-in user who comes closer is then not congratulated.

## 5. Proofs

All theorems hold for every value of the constants that satisfies the named
assumption of the module.

**Records and synchronisation.** `PlacesSyncProofs` first proves what each
record operation keeps, then one induction for many invariants: actions only
move whole records and build new ones with the record operations,
so `TypeOver(R)`, "all records in all variables are in `R`", is kept by every
step for every set `R` that is closed under these operations (`Closed(R)`,
lemma `StepTypes`, one lemma for each action). Two such sets are shown closed:

* `Record`, which gives `TypeCorrect: Spec => []TypeOK`;
* the good records, which gives `RatingsAgree`, `NobodyListedTwice` and
  `AnonymousRatingsKept`. Here `GoodRecord` is stronger than each of the three
  invariants needs: that an anonymous visitor stands at the position in its
  name is why the next name is new, and that no anonymous rater's number is
  above the count is why the next number is.

`ListedOnce` and `RowsKeepTheirPlaces` rest on one lemma, `RowsStep`: within
one step a list keeps its keys, is cleared when the app ends, or gets one row
whose key it did not have.

`WorkIsUsedUp` is about the steps that nobody chooses: the server applying a
write, an update arriving, the main queue served. Each makes the triple of
`sending`, `down` and `events` smaller, the first that changes counting, because
an observer's block writes nothing and a delivery tells no other device
(`WorkStep`); the cache, the database and the lists change in no other step. An
app that is off has no observers (`OffIsUnheard`), so that launching it, which
does bring updates, is told from these steps by its registering them. Together
with `QuietMeansAgreement` below these are the two halves of `Convergence`, work
runs out and nothing left means agreement; that the steps left are indeed taken
is the fairness, and stays with TLC.

Assumptions: the keys are a finite set of integers (they are ordered), `None`
is not one of the other values, the stars given are 0 to 5. Devices and users
are arbitrary sets, the bounds arbitrary numbers.

**Locator.** `LocatorTypeCorrect`, `RadarIsHonest`, `VisitsAreReal`,
`AlertsAreTrue` and `VisitsAgainOnlyIfLost`, for any places and positions and
any number of requests and losses. The conjunction of the five properties is not
inductive. Two facts are added: `LoadedFirst` (nothing is on the screen or
turning before `viewDidLoad`), without which an authorization callback with no
delegate could leave the radar alone, and `ClosestBounds` (no position still
with a geocoder is closer than the closest so far), without which a late answer
could record a place the user was never near.

**Star rating.** `StarTypeCorrect`, `DrawnAndSpokenAgree`, `FingerChooses` and
`RecordedTruly`, for any number, size and margin of the stars, any granularity
and all three fill modes. The work is in lemmas on the arithmetic: `FloorToIs`
characterises rounding down, `DrawnShare` says that the stars drawn one by one
are the shares of the rating rounded as a whole, `PreciseReaches` and
`TouchFull` which touches reach a star. The inductive invariant adds that layers
and value belong to the current rating (`Consistent`), and that what is recorded
in the full mode is the rating without its rest, which only a rating below the
lowest has (`CutToStars`). `RecordedTruly` is then exact also there: an average
of 1/2 is drawn as one star, and VoiceOver's decrement, which leaves it as it
is, records 0. `TouchIsMonotone` says, in every fill mode, that a finger further
right never gives a lower rating. It does not hold of `PreciseRating` alone:
without margins a finger just beyond the last star gives the last star and a
bit, and one further on the last star and no more. So the rating before rounding
is compared only up to there (`PreciseInOrder`), and beyond it all stars are
displayed (`BeyondTheLast`). `DetailBesideRows` carries the four over to
`StarScreens`, whose steps leave the detail screen's view alone or are its own.
`RowShowsItsPlace` is the same for a row of any size, precision and averages: a
row rounds nothing (`RowDisplays`), and has no finger or VoiceOver step that
could change its stars (`RowInv`).

**Images.** `ImagesTypeCorrect`, `NoPictureForgotten` and `FirstPictureComes`.
`DetailComplete` is strengthened by `CellsLoaded` (the cells drawn are
pictures of the object on the screen), and by `AskedIsListed` (downloads under
way for the screen mean that there is a listed object to put them in).

**The board.** `PlacesKeepTheBoard` proves the refinement, with one lemma for
each group of actions. That a device's row, message or stale screen never holds
a record that was not posted for its place is `TypeOver` again, for the set of
pairs of a key and a record posted for it, which only grows. `RowsShowPosts`
follows: nothing on the board or in a row is invented.

**The list and the database** (`PlacesCacheProofs`). Neither `ListCatchesUp`
nor `QuiescentAgreement` is inductive; the invariants say what the queues are
going to bring.

* `ListFollowsCache`, on the list and the main queue: a place the cache has is
  listed, or the first call waiting for it is one of `childAdded`; and the last
  `childChanged` waiting brings what the cache has, or none waits and the row
  (or, without a row, every `childAdded` waiting) has it. It gives
  `ChangesFindTheirPlace` and `ListShowsTheCache`. `OffIsEmpty` says that an
  app that is off has nothing in its queues.
* `CacheFollowsServer`, on the cache, the updates under way and the writes not
  yet acknowledged: the acknowledgements under way are those of the unacknowledged
  writes, one to one and in their order; the last update under way for a place
  brings what the server has; and if nothing is under way the cache has it. It
  survives lost connections, writes applied twice and others' writes in
  between. With `ListShowsTheCache` it gives `QuietMeansAgreement`.
* `FreshWritesKeepAll` proves the action property: what a visit or rating on an
  up-to-date list writes contains every visitor and rating in the cache.

**List screens.** All four safety properties of the run, for any users, places,
notes and registrations: `ScreensTypeCorrect`, `RootShowsThePlaces`,
`MyPlacesShowsTheVisits` and `UpdatesKnowTheUser`. None is inductive. `ScreensInv`
adds to the type:

* `KnowsInv`: the delegate is My Places only while it is open, and it is open
  only while somebody is signed in, which is why the blocks it leaves behind do
  no harm.
* `ListFollows`, on the list and the main queue, after `ListFollowsCache` above
  but through references: no two objects of the list are of one place; a place
  that exists, or once existed, is listed or the first call waiting for it is
  one of `childAdded`; and unless it has been removed, the last `childChanged`
  waiting brings what the cache has, or none waits and the object listed has it.
  A write on an object is told to every observer, which replaces that object by
  another while a detail screen, or a list that is not the delegate, still holds
  the old one.
* `DrawnInv`, on the screens: while the root list is the delegate, its copy is
  the list itself, reference by reference; an open My Places is the delegate and
  holds objects of the list, each once. When the queue is empty the rows of the
  delegate are drawn from the objects as they are, and My Places holds just those
  that the user has visited. In between, a screen may lag behind: each call that
  is served draws it anew.

With an empty queue `ListFollows` leaves only its last case, and the screen shows
the cache. `visitedPlaces` is written as the rows it keeps, in increasing order
(`VisitedPlaces`, `InOrder`), so that what it returns follows from the existence
and the range of such an order (`OrderExists`, `OrderOnto`: a row's position is
the number of rows kept up to it) and no induction over the list is needed.

**Profile.** All five properties of the run, for any accounts. Four are
inductive with `TypeOK`; `NobodyElseIsShown` needs that also the downloads
under way are the user's (`AskedIsUsers`) and that the sign-in screen covers
the Profile screen only for who has no name, and so no picture
(`SheetIsForNobody`).

Only model-checked: the liveness properties `Convergence`, `StayingIsRecorded`,
`RowFills` and `MyPlacesShows`, since liveness under fairness is beyond the
prover, and the four findings, which are counterexamples. No module has a
recursive operator.

## 6. Not modelled

* Layout, animation, texts and colours; the storyboards but for the settings
  of the two star views; the map and its pins.
* Third-party code under `Pods/` and the vendored frameworks: external,
  modelled only as the app's code uses it.
* `AppDelegate.swift`, which configures Firebase and keeps no state. Its call
  of the Facebook SDK is commented out (lines 39-40), and it has no
  `application(_:open:options:)`: the function of that name in
  `ProfileViewController.swift` (271-280) is outside every class, so that UIKit
  never calls it. Whether a sign-in comes back from another app is therefore
  left open: every attempt may fail.
* `authUI(_:didSignInWith:error:)` at `ProfileViewController.swift` 252-267 is
  outside every class as well; a list that is FirebaseUI's delegate does nothing
  with what it is told.
* `SecondViewController.swift`, an older version of the Locator screen that is
  not in the Xcode target.
* Places removed at the console, in the model of several devices (item 11 of
  the plan); a place without pictures; pictures replaced under an old name.
* The order of the pictures on the detail screen, and the picture that a row
  used again shows before its own is loaded.

The hazards in `PROJECT.json` name the lines of all of these.

----------------------------- MODULE PlaceImages -----------------------------
(***************************************************************************)
(* The pictures of one place in one app: downloads from the storage, the   *)
(* files in the documents directory, the Place objects that hold what has  *)
(* arrived, the place's row in the list, the detail screen and the viewer. *)
(*                                                                         *)
(* Every snapshot of the place makes a new Place object, and downloads     *)
(* hold on to the object or the key they were started with: their answers  *)
(* come in any order, before and after the object has been replaced.  The  *)
(* list screen is the delegate throughout.                                 *)
(***************************************************************************)
EXTENDS Integers, FiniteSets

CONSTANTS
    Images,     \* Place.imageNames
    First,      \* the first of them
    None,
    MaxObjects, \* bound: Place objects made for the place in one launch
    MaxRequests \* bound: downloads of one picture under way for the screen

ASSUME PlaceImagesAssumption ==
    /\ IsFiniteSet(Images)
    /\ First \in Images
    /\ None \notin Int
    /\ MaxObjects \in Nat \ {0}
    /\ MaxRequests \in Nat \ {0}

Objects == 1 .. MaxObjects

VARIABLES
    made,         \* Place objects made since the launch
    loaded,       \* placeImages of each object
    listed,       \* the object in Places.places
    files,        \* the pictures in the documents directory
    firstAsked,   \* objects whose first picture is being downloaded
    allAsked,     \* downloads started by getPlacesDataForPlace
    row,          \* the picture in the place's row: its own or not
    detail,       \* the object shown on the detail screen
    cells,        \* the pictures drawn there
    viewer,       \* the viewer's pictures and the one it scrolls to
    stopped,      \* an exception has ended the app
    firstMissed,  \* objects whose first picture could not be downloaded
    missed,       \* pictures whose last download for the screen failed
    unwritten     \* a write has failed

storage == <<files, unwritten, firstMissed, missed>>
vars == <<made, loaded, listed, firstAsked, allAsked, row, detail, cells,
          viewer, stopped, storage>>

-----------------------------------------------------------------------------
(* What the handlers share.                                                *)

\* placesUpdated of the list screen: the row is drawn again, by a cell that
\* keeps what it showed, of this place or another or nothing, if there is no
\* picture.
PlacesUpdated ==
    IF First \in loaded'[listed']
    THEN row' = "own"
    ELSE row' \in {row, "other"}

\* The collection view draws the first values of placeImages.
ReloadData == cells' = IF detail' = None THEN {} ELSE loaded'[detail']

\* writeImageDataToFile: the write may fail.
WriteImageDataToFile(i, written) ==
    IF written
    THEN files' = files \cup {i} /\ UNCHANGED unwritten
    ELSE unwritten' = TRUE /\ UNCHANGED files

-----------------------------------------------------------------------------
(* The observers' blocks.                                                  *)

\* Variant: replaced places are downloaded like new ones, if not on file.
ChildChangedFromFile ==
    /\ ~ stopped
    /\ listed # None
    /\ made < MaxObjects
    /\ made' = made + 1
    /\ listed' = made + 1
    /\ firstAsked' = IF First \in files THEN firstAsked
                                        ELSE firstAsked \cup {made + 1}
    /\ UNCHANGED loaded
    /\ PlacesUpdated
    /\ UNCHANGED <<storage, allAsked, detail, cells, viewer, stopped>>

\* childAdded, once for each registered pair of observers: the first picture
\* is taken from its file or downloaded, and the object listed if it is the
\* first one.  (My Places registers another pair whenever it is opened.)
ChildAdded ==
    /\ ~ stopped
    /\ made < MaxObjects
    /\ made' = made + 1
    /\ IF First \in files
       THEN /\ loaded' = [loaded EXCEPT ![made + 1] = {First}]
            /\ UNCHANGED firstAsked
       ELSE /\ firstAsked' = firstAsked \cup {made + 1}
            /\ UNCHANGED loaded
    /\ listed' = IF listed = None THEN made + 1 ELSE listed
    /\ PlacesUpdated
    /\ UNCHANGED <<storage, allAsked, detail, cells, viewer, stopped>>

\* childChanged: an object without pictures takes the place of the old one,
\* and its first picture is downloaded even when there is a file.
ChildChanged ==
    /\ ~ stopped
    /\ listed # None
    /\ made < MaxObjects
    /\ made' = made + 1
    /\ listed' = made + 1
    /\ firstAsked' = firstAsked \cup {made + 1}
    /\ UNCHANGED loaded
    /\ PlacesUpdated
    /\ UNCHANGED <<storage, allAsked, detail, cells, viewer, stopped>>

\* The list, and perhaps the detail screen, is told of another place.
AnotherPlaceUpdated ==
    /\ ~ stopped
    /\ listed # None
    /\ UNCHANGED <<loaded, listed, detail>>
    /\ PlacesUpdated
    /\ ReloadData \/ UNCHANGED cells
    /\ UNCHANGED <<storage, made, firstAsked, allAsked, viewer, stopped>>

-----------------------------------------------------------------------------
(* Answers of the storage.                                                 *)

\* Variant: writing the file does not tell the list.
FirstArrivesUntold(g) ==
    /\ ~ stopped
    /\ g \in firstAsked
    /\ firstAsked' = firstAsked \ {g}
    /\ loaded' = [loaded EXCEPT ![g] = @ \cup {First}]
    /\ files' = files \cup {First}
    /\ UNCHANGED <<unwritten, firstMissed, missed, made, listed, allAsked, row,
                   detail, cells, viewer, stopped>>

\* getDataForImageName: the list is told of the picture only if it is new
\* for the object and could be written.
FirstArrives(g) ==
    /\ ~ stopped
    /\ g \in firstAsked
    /\ firstAsked' = firstAsked \ {g}
    /\ UNCHANGED listed
    /\ IF First \in loaded[g]
       THEN UNCHANGED <<loaded, files, unwritten, row>>
       ELSE /\ loaded' = [loaded EXCEPT ![g] = @ \cup {First}]
            /\ \E written \in BOOLEAN :
                  /\ WriteImageDataToFile(First, written)
                  /\ IF written THEN PlacesUpdated ELSE UNCHANGED row
    /\ UNCHANGED <<firstMissed, missed, made, allAsked, detail, cells, viewer,
                   stopped>>

FirstFails(g) ==
    /\ ~ stopped
    /\ g \in firstAsked
    /\ firstAsked' = firstAsked \ {g}
    /\ firstMissed' = firstMissed \cup {g}
    /\ UNCHANGED <<files, unwritten, missed, made, loaded, listed, allAsked, row,
                   detail, cells, viewer, stopped>>

\* Variant: "ReloadData" is posted only for a picture that is new.
PictureArrivesOnce(i) ==
    /\ ~ stopped
    /\ allAsked[i] > 0
    /\ allAsked' = [allAsked EXCEPT ![i] = @ - 1]
    /\ missed' = missed \ {i}
    /\ UNCHANGED <<listed, detail>>
    /\ IF i \in loaded[listed]
       THEN UNCHANGED <<loaded, files, unwritten, cells>> /\ PlacesUpdated
       ELSE /\ loaded' = [loaded EXCEPT ![listed] = @ \cup {i}]
            /\ \E written \in BOOLEAN : WriteImageDataToFile(i, written)
            /\ PlacesUpdated
            /\ ReloadData
    /\ UNCHANGED <<firstMissed, made, firstAsked, viewer, stopped>>

\* getPlacesDataForPlace: the picture goes to the object that is in the list
\* now; then list and detail screen are told in any case.
PictureArrives(i) ==
    /\ ~ stopped
    /\ allAsked[i] > 0
    /\ allAsked' = [allAsked EXCEPT ![i] = @ - 1]
    /\ missed' = missed \ {i}
    /\ UNCHANGED <<listed, detail>>
    /\ IF i \in loaded[listed]
       THEN UNCHANGED <<loaded, files, unwritten>>
       ELSE /\ loaded' = [loaded EXCEPT ![listed] = @ \cup {i}]
            /\ \E written \in BOOLEAN : WriteImageDataToFile(i, written)
    /\ PlacesUpdated
    /\ ReloadData
    /\ UNCHANGED <<firstMissed, made, firstAsked, viewer, stopped>>

PictureFails(i) ==
    /\ ~ stopped
    /\ allAsked[i] > 0
    /\ allAsked' = [allAsked EXCEPT ![i] = @ - 1]
    /\ missed' = missed \cup {i}
    /\ UNCHANGED <<files, unwritten, firstMissed, made, loaded, listed,
                   firstAsked, row, detail, cells, viewer, stopped>>

-----------------------------------------------------------------------------
(* The user.                                                               *)

\* prepare(for:) and viewDidLoad: pictures on file are put into the object;
\* for each one that is not, all pictures are requested.
OpenDetail ==
    /\ ~ stopped
    /\ listed # None
    /\ detail = None
    /\ \A i \in Images :
          allAsked[i] + Cardinality(Images \ files) <= MaxRequests
    /\ detail' = listed
    /\ loaded' = [loaded EXCEPT ![listed] = @ \cup (Images \cap files)]
    /\ allAsked' = [i \in Images |-> allAsked[i] + Cardinality(Images \ files)]
    /\ ReloadData
    /\ UNCHANGED <<storage, made, listed, firstAsked, row, viewer, stopped>>

CloseDetail ==
    /\ ~ stopped
    /\ detail # None
    /\ viewer = None
    /\ detail' = None
    /\ cells' = {}
    /\ UNCHANGED <<storage, made, loaded, listed, firstAsked, allAsked, row,
                   viewer, stopped>>

\* Variant: the viewer scrolls to the item after the one it has checked.
ViewerAppearsNext(data, start) ==
    IF start <= Cardinality(data)
    THEN viewer' = [data |-> data, start |-> start + 1] /\ UNCHANGED stopped
    ELSE stopped' = TRUE /\ UNCHANGED viewer

\* ImageViewerViewController: it has as many items as pictures it was given,
\* and scrolling to an item beyond them is an exception.
ViewerAppears(data, start) ==
    IF start <= Cardinality(data)
    THEN viewer' = [data |-> data, start |-> start] /\ UNCHANGED stopped
    ELSE stopped' = TRUE /\ UNCHANGED viewer

\* A tap on the n-th cell, of which there are as many as names: the viewer
\* gets the pictures there are.
OpenViewer(n) ==
    /\ ~ stopped
    /\ detail # None
    /\ viewer = None
    /\ ViewerAppears(loaded[detail], n)
    /\ UNCHANGED <<storage, made, loaded, listed, firstAsked, allAsked, row,
                   detail, cells>>

CloseViewer ==
    /\ ~ stopped
    /\ viewer # None
    /\ viewer' = None
    /\ UNCHANGED <<storage, made, loaded, listed, firstAsked, allAsked, row,
                   detail, cells, stopped>>

-----------------------------------------------------------------------------

Init ==
    /\ made = 0
    /\ loaded = [g \in Objects |-> {}]
    /\ listed = None
    /\ firstAsked = {}
    /\ allAsked = [i \in Images |-> 0]
    /\ row = "other"
    /\ detail = None
    /\ cells = {}
    /\ viewer = None
    /\ stopped = FALSE
    /\ firstMissed = {}
    /\ missed = {}
    /\ files = {}
    /\ unwritten = FALSE

\* The app is ended and started again; the files stay.
Restart ==
    /\ made' = 0
    /\ loaded' = [g \in Objects |-> {}]
    /\ listed' = None
    /\ firstAsked' = {}
    /\ allAsked' = [i \in Images |-> 0]
    /\ row' = "other"
    /\ detail' = None
    /\ cells' = {}
    /\ viewer' = None
    /\ stopped' = FALSE
    /\ firstMissed' = {}
    /\ missed' = {}
    /\ unwritten' = FALSE
    /\ UNCHANGED files

Next ==
    \/ ChildAdded
    \/ ChildChanged
    \/ AnotherPlaceUpdated
    \/ \E g \in Objects : FirstArrives(g)
    \/ \E g \in Objects : FirstFails(g)
    \/ \E i \in Images : PictureArrives(i)
    \/ \E i \in Images : PictureFails(i)
    \/ OpenDetail
    \/ CloseDetail
    \/ \E n \in 1 .. Cardinality(Images) : OpenViewer(n)
    \/ CloseViewer
    \/ Restart

Spec == Init /\ [][Next]_vars

\* The storage answers every request.
Fairness ==
    /\ \A g \in Objects : WF_vars(FirstArrives(g) \/ FirstFails(g))
    /\ \A i \in Images : WF_vars(PictureArrives(i) \/ PictureFails(i))

FairSpec == Spec /\ Fairness

-----------------------------------------------------------------------------
(* Properties.                                                             *)

\* Objects exist before they are listed, shown or waited for, and the
\* viewer scrolls to a picture it has.
TypeOK ==
    /\ made \in 0 .. MaxObjects
    /\ loaded \in [Objects -> SUBSET Images]
    /\ listed \in (1 .. made) \cup {None}
    /\ made > 0 => listed # None
    /\ files \subseteq Images
    /\ firstAsked \subseteq 1 .. made
    /\ allAsked \in [Images -> Nat]
    /\ row \in {"own", "other"}
    /\ detail \in (1 .. made) \cup {None}
    /\ cells \subseteq Images
    /\ \/ viewer = None
       \/ /\ viewer.data \subseteq Images
          /\ viewer.start \in 1 .. Cardinality(viewer.data)
    /\ stopped \in BOOLEAN
    /\ firstMissed \subseteq 1 .. made
    /\ missed \subseteq Images
    /\ unwritten \in BOOLEAN

\* While the list still has the object the detail screen shows, a picture
\* not drawn is on its way or could not be downloaded: whichever of the
\* downloads, files and earlier visits to the screen brought it first, the
\* screen has been told.
DetailComplete ==
    detail # None /\ detail = listed =>
       \A i \in Images : i \in cells \/ allAsked[i] > 0 \/ i \in missed

\* An object put into the list by any snapshot, with or without a file, has
\* its first picture or waits for it, unless its download has failed.
FirstIsComing ==
    listed # None =>
       First \in loaded[listed] \/ listed \in firstAsked \cup firstMissed

\* Who stays on the list sees the place's picture in the end, if no download
\* and no write fails, however often the place changes before.
RowFills ==
    /\ [](detail = None /\ firstMissed = {} /\ ~ unwritten)
    /\ <>[](listed # None)
    => <>(row = "own")

=============================================================================

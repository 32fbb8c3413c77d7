-------------------------- MODULE PlaceImagesProofs --------------------------
(***************************************************************************)
(* The invariants of PlaceImages, for any pictures and numbers of objects. *)
(*                                                                         *)
(* DetailComplete is not inductive: an answer draws the cells anew from    *)
(* the object of the detail screen, and what was drawn before must still   *)
(* be in it (CellsLoaded).                                                 *)
(***************************************************************************)
EXTENDS PlaceImages, FiniteSetTheorems, TLAPS

\* What is drawn on the detail screen comes from its object.
CellsLoaded == detail # None => cells \subseteq loaded[detail]

\* Only a detail screen asks for all pictures, and it shows a listed object.
AskedIsListed == listed = None => \A i \in Images : allAsked[i] = 0

Inv ==
    /\ TypeOK
    /\ CellsLoaded
    /\ AskedIsListed
    /\ DetailComplete
    /\ FirstIsComing

\* The numbers of pictures a place has, and has on the device, are numbers.
LEMMA PictureCounts ==
    ASSUME NEW S \in SUBSET Images
    PROVE  /\ Cardinality(S) \in Nat
           /\ Cardinality(S) = 0 <=> S = {}
  <1>1. IsFiniteSet(S)
    BY PlaceImagesAssumption, FS_Subset
  <1> QED
    BY <1>1, FS_CardinalityType, FS_EmptySet

LEMMA InitInv == Init => Inv
<1> SUFFICES ASSUME Init PROVE Inv
  OBVIOUS
<1>1. made \in 0 .. MaxObjects
  BY PlaceImagesAssumption DEF Init
<1>2. loaded \in [Objects -> SUBSET Images] /\ allAsked \in [Images -> Nat]
  BY DEF Init
<1>3. /\ listed \in (1 .. made) \cup {None}
      /\ detail \in (1 .. made) \cup {None}
      /\ made > 0 => listed # None
  BY DEF Init
<1>4. /\ firstAsked \subseteq 1 .. made
      /\ firstMissed \subseteq 1 .. made
      /\ files \subseteq Images
      /\ cells \subseteq Images
      /\ missed \subseteq Images
  BY DEF Init
<1>5. viewer = None /\ stopped \in BOOLEAN /\ unwritten \in BOOLEAN /\ row = "other"
  BY DEF Init
<1>6. TypeOK
  BY <1>1, <1>2, <1>3, <1>4, <1>5 DEF TypeOK
<1>7. CellsLoaded /\ AskedIsListed /\ DetailComplete /\ FirstIsComing
  BY DEF Init, CellsLoaded, AskedIsListed, DetailComplete, FirstIsComing
<1> QED
  BY <1>6, <1>7 DEF Inv

\* Places.swift:136-154.
LEMMA ChildAddedInv == Inv /\ ChildAdded => Inv'
<1> SUFFICES ASSUME Inv, ChildAdded PROVE Inv'
  OBVIOUS
<1> USE PlaceImagesAssumption DEF Inv, TypeOK, Objects, storage
<1>1. made' \in 1 .. MaxObjects /\ made' = made + 1 /\ made + 1 \in Objects
  BY DEF ChildAdded
<1>2. TypeOK'
  <2>1. listed' \in 1 .. made' /\ detail' \in (1 .. made') \cup {None}
    BY <1>1 DEF ChildAdded
  <2>2. 1 .. made \subseteq 1 .. made' /\ made + 1 \in 1 .. made'
    BY <1>1
  <2>3. firstAsked' \subseteq firstAsked \cup {made + 1}
    BY DEF ChildAdded
  <2>4. firstMissed' = firstMissed
    BY DEF ChildAdded
  <2>5. firstAsked' \subseteq 1 .. made' /\ firstMissed' \subseteq 1 .. made'
    BY <2>2, <2>3, <2>4
  <2>6. loaded' \in [Objects -> SUBSET Images]
    BY <1>1 DEF ChildAdded
  <2>7. row' \in {"own", "other"}
    BY DEF ChildAdded, PlacesUpdated
  <2> QED
    BY <1>1, <2>1, <2>6, <2>7, <2>5 DEF ChildAdded
<1>3. detail # None => detail # made + 1 /\ detail \in Objects
  BY <1>1
<1>4. CellsLoaded'
  BY <1>1, <1>3 DEF ChildAdded, CellsLoaded
<1>5. AskedIsListed'
  BY <1>1 DEF ChildAdded, AskedIsListed
<1>6. DetailComplete'
  BY <1>1, <1>3 DEF ChildAdded, DetailComplete
<1>7. FirstIsComing'
  BY <1>1 DEF ChildAdded, FirstIsComing
<1> QED
  BY <1>2, <1>4, <1>5, <1>6, <1>7

\* Places.swift:155-172.
LEMMA ChildChangedInv == Inv /\ ChildChanged => Inv'
<1> SUFFICES ASSUME Inv, ChildChanged PROVE Inv'
  OBVIOUS
<1> USE PlaceImagesAssumption DEF Inv, TypeOK, Objects, storage
<1>1. made' \in 1 .. MaxObjects /\ made' = made + 1 /\ made + 1 \in Objects
  BY DEF ChildChanged
<1>2. TypeOK'
  <2>1. row' \in {"own", "other"}
    BY DEF ChildChanged, PlacesUpdated
  <2> QED
    BY <1>1, <2>1 DEF ChildChanged
<1>3. CellsLoaded' /\ AskedIsListed' /\ DetailComplete' /\ FirstIsComing'
  BY <1>1 DEF ChildChanged, CellsLoaded, AskedIsListed, DetailComplete,
              FirstIsComing
<1> QED
  BY <1>2, <1>3

\* Other places' observers and downloads.
LEMMA AnotherPlaceInv == Inv /\ AnotherPlaceUpdated => Inv'
<1> SUFFICES ASSUME Inv, AnotherPlaceUpdated PROVE Inv'
  OBVIOUS
<1> USE PlaceImagesAssumption DEF Inv, TypeOK, Objects, storage
<1>1. cells' \subseteq Images /\ cells \subseteq cells' /\ CellsLoaded'
  BY DEF AnotherPlaceUpdated, ReloadData, CellsLoaded
<1>2. TypeOK'
  <2>1. row' \in {"own", "other"}
    BY DEF AnotherPlaceUpdated, PlacesUpdated
  <2> QED
    BY <1>1, <2>1 DEF AnotherPlaceUpdated
<1>3. AskedIsListed' /\ DetailComplete' /\ FirstIsComing'
  BY <1>1 DEF AnotherPlaceUpdated, AskedIsListed, DetailComplete, FirstIsComing
<1> QED
  BY <1>1, <1>2, <1>3

\* Places.swift:48-62.
LEMMA FirstArrivesInv ==
    ASSUME Inv, NEW g \in Objects, FirstArrives(g) PROVE Inv'
<1> USE PlaceImagesAssumption DEF Inv, TypeOK, Objects, storage
<1>1. /\ loaded' \in [Objects -> SUBSET Images]
      /\ \A o \in Objects : loaded[o] \subseteq loaded'[o]
      /\ First \in loaded'[g]
  BY DEF FirstArrives
<1>2. TypeOK'
  <2>1. files' \subseteq Images /\ unwritten' \in BOOLEAN /\ row' \in {"own", "other"}
    BY DEF FirstArrives, WriteImageDataToFile, PlacesUpdated
  <2> QED
    BY <1>1, <2>1 DEF FirstArrives
<1>3. CellsLoaded'
  BY <1>1 DEF FirstArrives, CellsLoaded
<1>4. AskedIsListed' /\ DetailComplete'
  BY DEF FirstArrives, AskedIsListed, DetailComplete
<1>5. FirstIsComing'
  BY <1>1 DEF FirstArrives, FirstIsComing
<1> QED
  BY <1>2, <1>3, <1>4, <1>5

\* Places.swift:103-123: the cells are drawn from all that has come.
LEMMA PictureArrivesInv ==
    ASSUME Inv, NEW i \in Images, PictureArrives(i) PROVE Inv'
<1> USE PlaceImagesAssumption DEF Inv, TypeOK, Objects, storage
<1>1. listed \in Objects /\ allAsked' \in [Images -> Nat]
  BY DEF PictureArrives, AskedIsListed
<1>2. /\ loaded' \in [Objects -> SUBSET Images]
      /\ \A o \in Objects : loaded[o] \subseteq loaded'[o]
      /\ i \in loaded'[listed]
  BY <1>1 DEF PictureArrives
<1>3. TypeOK'
  <2>1. files' \subseteq Images /\ unwritten' \in BOOLEAN
    BY DEF PictureArrives, WriteImageDataToFile
  <2>2. row' \in {"own", "other"}
    BY DEF PictureArrives, PlacesUpdated
  <2>3. cells' \subseteq Images
    BY <1>2 DEF PictureArrives, ReloadData
  <2> QED
    BY <1>1, <1>2, <2>1, <2>2, <2>3 DEF PictureArrives
<1>4. CellsLoaded'
  BY DEF PictureArrives, ReloadData, CellsLoaded
<1>5. DetailComplete'
  <2> SUFFICES ASSUME detail # None, detail = listed, NEW j \in Images
               PROVE  j \in cells' \/ allAsked'[j] > 0 \/ j \in missed'
    BY DEF PictureArrives, DetailComplete
  <2>1. cells \subseteq cells' /\ i \in cells'
    BY <1>1, <1>2 DEF PictureArrives, ReloadData, CellsLoaded
  <2>2. CASE j = i
    BY <2>1, <2>2
  <2>3. CASE j # i
    BY <2>1, <2>3 DEF PictureArrives, DetailComplete
  <2> QED
    BY <2>2, <2>3
<1>6. AskedIsListed' /\ FirstIsComing'
  BY <1>1, <1>2 DEF PictureArrives, AskedIsListed, FirstIsComing
<1> QED
  BY <1>3, <1>4, <1>5, <1>6

\* PlacesViewController.swift:133-155: what is not on file is asked for.
LEMMA OpenDetailInv == Inv /\ OpenDetail => Inv'
<1> SUFFICES ASSUME Inv, OpenDetail PROVE Inv'
  OBVIOUS
<1> USE PlaceImagesAssumption DEF Inv, TypeOK, Objects, storage
<1> DEFINE n == Cardinality(Images \ files)
<1>1. n \in Nat /\ (n = 0 => Images \subseteq files)
  BY PictureCounts
<1> HIDE DEF n
<1>2. /\ allAsked' \in [Images -> Nat]
      /\ \A i \in Images : allAsked'[i] = allAsked[i] + n
  BY <1>1 DEF OpenDetail, n
<1>3. /\ listed \in Objects
      /\ loaded' \in [Objects -> SUBSET Images]
      /\ loaded'[listed] = loaded[listed] \cup (Images \cap files)
      /\ cells' = loaded'[listed]
  BY DEF OpenDetail, ReloadData
<1>4. TypeOK'
  BY <1>2, <1>3 DEF OpenDetail
<1>5. DetailComplete'
  BY <1>1, <1>2, <1>3 DEF OpenDetail, DetailComplete
<1>6. CellsLoaded' /\ AskedIsListed' /\ FirstIsComing'
  BY <1>3 DEF OpenDetail, CellsLoaded, AskedIsListed, FirstIsComing
<1> QED
  BY <1>4, <1>5, <1>6

\* PlaceDetailViewController.swift:68-83.
LEMMA OpenViewerInv ==
    ASSUME Inv, NEW n \in 1 .. Cardinality(Images), OpenViewer(n) PROVE Inv'
<1> USE PlaceImagesAssumption DEF Inv, TypeOK, Objects, storage, ViewerAppears
<1>1. detail \in Objects /\ loaded[detail] \subseteq Images
  BY DEF OpenViewer
<1>2. Cardinality(loaded[detail]) \in Nat /\ Cardinality(Images) \in Nat
  BY <1>1, PictureCounts
<1>3. TypeOK'
  <2>1. \/ viewer' = None
        \/ /\ viewer'.data \subseteq Images
           /\ viewer'.start \in 1 .. Cardinality(viewer'.data)
    BY <1>1, <1>2 DEF OpenViewer
  <2>2. stopped' \in BOOLEAN
    BY DEF OpenViewer
  <2> QED
    BY <2>1, <2>2 DEF OpenViewer
<1>4. CellsLoaded' /\ AskedIsListed' /\ DetailComplete' /\ FirstIsComing'
  BY DEF OpenViewer, CellsLoaded, AskedIsListed, DetailComplete, FirstIsComing
<1> QED
  BY <1>3, <1>4

\* Every step of app, storage and user.
LEMMA StepInv == Inv /\ [Next]_vars => Inv'
<1> SUFFICES ASSUME Inv, [Next]_vars PROVE Inv'
  OBVIOUS
<1> USE DEF CellsLoaded, AskedIsListed, DetailComplete, FirstIsComing
<1>1. ASSUME NEW g \in Objects, FirstFails(g) PROVE Inv'
  BY <1>1, PlaceImagesAssumption DEF Inv, TypeOK, Objects, FirstFails
<1>2. ASSUME NEW i \in Images, PictureFails(i) PROVE Inv'
  BY <1>2, PlaceImagesAssumption DEF Inv, TypeOK, Objects, PictureFails
<1>3. CASE CloseDetail
  BY <1>3, PlaceImagesAssumption DEF Inv, TypeOK, Objects, CloseDetail, storage
<1>4. CASE CloseViewer
  BY <1>4, PlaceImagesAssumption DEF Inv, TypeOK, Objects, CloseViewer, storage
<1>5. CASE Restart
  <2>1. made' \in 0 .. MaxObjects
    BY <1>5, PlaceImagesAssumption DEF Restart
  <2>2. loaded' \in [Objects -> SUBSET Images] /\ allAsked' \in [Images -> Nat]
    BY <1>5 DEF Restart
  <2>3. /\ listed' = None /\ detail' = None /\ viewer' = None
        /\ firstAsked' = {} /\ firstMissed' = {} /\ cells' = {} /\ missed' = {}
        /\ ~ (made' > 0)
    BY <1>5 DEF Restart
  <2>4. files' \subseteq Images
    BY <1>5 DEF Inv, TypeOK, Restart
  <2>5. row' = "other" /\ stopped' \in BOOLEAN /\ unwritten' \in BOOLEAN
    BY <1>5 DEF Restart
  <2>6. TypeOK'
    BY <2>1, <2>2, <2>3, <2>4, <2>5 DEF TypeOK
  <2> QED
    BY <1>5, <2>6 DEF Inv, Restart
<1>6. CASE UNCHANGED vars
  BY <1>6 DEF Inv, TypeOK, vars, storage
<1> HIDE DEF CellsLoaded, AskedIsListed, DetailComplete, FirstIsComing
<1> QED
  BY <1>1, <1>2, <1>3, <1>4, <1>5, <1>6, ChildAddedInv, ChildChangedInv,
     AnotherPlaceInv, FirstArrivesInv, PictureArrivesInv, OpenDetailInv,
     OpenViewerInv
  DEF Next

THEOREM Invariance == Spec => []Inv
  BY InitInv, StepInv, PTL DEF Spec

\* Type correctness: the viewer scrolls to a picture it has, or the tap has
\* ended the app (PlaceDetailViewController.swift:74).
THEOREM ImagesTypeCorrect == Spec => []TypeOK
  BY Invariance, PTL DEF Inv

\* No order of downloads, files, visits to the detail screen and restarts
\* leaves a picture out of a screen whose object is still listed
\* (Places.swift:94-126, PlaceDetailViewController.swift:15-17).
THEOREM NoPictureForgotten == Spec => []DetailComplete
  BY Invariance, PTL DEF Inv

\* No snapshot of a place loses its first picture (Places.swift:136-172).
THEOREM FirstPictureComes == Spec => []FirstIsComing
  BY Invariance, PTL DEF Inv

=============================================================================

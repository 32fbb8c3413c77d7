SPECIFICATION ScreensSpec
CONSTANTS
    None = None
    TotalStars = 5
    StarSize = 25
    StarMargin = 0
    FillMode = "full"
    UpdateOnTouch = TRUE
    MinTouchRating = 1
    Unit = 100
    Touches <- AcrossTheView
    Ratings <- Averages
    RowStarSize = 15
    RowStarMargin = 2
    RowUnit = 300
    RowRatings <- RowAverages
INVARIANTS TypeOK DrawnIsSpoken StarUnderFinger RecordedIsDrawn RowDrawnIsSpoken

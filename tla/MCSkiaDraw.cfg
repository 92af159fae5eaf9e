CONSTANTS
    Texts <- MCTexts
    Requests <- MCRequests
    Bitmaps <- MCBitmaps
    NoBitmap = NoBitmap
    Pad = 8
    SubPixel = 2
    MaxLines = 7
    MaxJpegSide = 40
SPECIFICATION Spec
INVARIANTS
    Lossless
    ReplyNeedsRoom
    PictureClosesCanvas
PROPERTIES
    OnlyCanvasFails
    EveryCallEnds

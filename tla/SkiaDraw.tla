------------------------------ MODULE SkiaDraw ------------------------------
(***************************************************************************)
(* The unary method SkiaDemo.DrawBySkia of CsDemo.Server: it decodes the   *)
(* picture of the request, breaks the request's texts into lines as wide   *)
(* as the picture, draws the lines above the picture on a new canvas and   *)
(* answers with the canvas as a JPEG.                                      *)
(*                                                                         *)
(* A call keeps all its state in locals, so one handler is modelled, which *)
(* takes one call after another.  A text is the horizontal advance of each *)
(* of its prefixes and the ink height of each of its characters; which     *)
(* characters it has does not matter to the layout.  Widths are pixels,    *)
(* heights are 1/SubPixel of a pixel: the code keeps them in floats and    *)
(* truncates at three places.                                              *)
(***************************************************************************)
EXTENDS Integers, Sequences

CONSTANTS
    Texts,         \* what a client may put in request.Contents
    Requests,      \* [picture, contents] records a client may send
    Bitmaps,       \* [width, height] of the pictures that decode
    NoBitmap,      \* what SKBitmap.Decode returns for bytes it cannot read
    Pad,           \* the 8 of line 44
    SubPixel,      \* height units per pixel
    MaxLines,      \* lines the heap has room for
    MaxJpegSide    \* longest side of an image the JPEG encoder takes

IsText(t) ==
    /\ t.length \in Nat
    /\ t.advance \in [0..t.length -> Nat]
    /\ t.ink \in [0..(t.length - 1) -> Nat]
    /\ \A i, j \in 0..t.length : i <= j => t.advance[i] <= t.advance[j]

ASSUME TextsAssumption == \A t \in Texts : IsText(t)
ASSUME BitmapsAssumption ==
    /\ Bitmaps \subseteq [width : Nat \ {0}, height : Nat \ {0}]
    /\ NoBitmap \notin Bitmaps
ASSUME RequestsAssumption ==
    Requests \subseteq [picture : Bitmaps \cup {NoBitmap}, contents : Seq(Texts)]
ASSUME SizesAssumption ==
    /\ Pad \in Nat
    /\ SubPixel \in Nat \ {0}
    /\ MaxLines \in Nat
    /\ MaxJpegSide \in Nat

\* Room for the lines of a request, up to each text, if no line is empty.
Rooms(r) ==
    {room \in [1..(Len(r.contents) + 1) -> 0..MaxLines] :
       \A i \in DOMAIN r.contents : room[i] + r.contents[i].length <= room[i + 1]}

\* A heap holds a line for every character of a request.
ASSUME RoomAssumption == \A r \in Requests : Rooms(r) # {}

VARIABLES
    pc,       \* where the handler is; "idle", "replied", "failed" between calls
    request,  \* the call being served
    item,     \* foreach over request.Contents: the current text
    head,     \* first character of that text not yet in a line
    lines,    \* the list of SkiaWrapText, each with where its Content lies
    summed,   \* lines the Aggregate of line 47 has added up
    height,   \* the Aggregate's running value, then local height
    drawn,    \* lines the foreach of line 53 has drawn
    pointY,   \* point.Y
    picture   \* where DrawBitmap put the picture: [top, bottom], in SubPixels

vars == <<pc, request, item, head, lines, summed, height, drawn, pointY, picture>>

NoPicture == [top |-> 0, bottom |-> 0]

-----------------------------------------------------------------------------
(* The external text measures. *)

MaxWidth == request.picture.width - Pad \div 2

TextWidth(t, from, count) == t.advance[from + count] - t.advance[from]

\* SKPaint.BreakText: the most characters from `from` on that maxWidth holds;
\* none when not even one does.
BreakText(t, from, count, maxWidth) ==
    /\ count = 0 \/ TextWidth(t, from, count) <= maxWidth
    /\ from + count < t.length => TextWidth(t, from, count + 1) > maxWidth

\* SKPaint.MeasureText: the height of the ink box of a piece of text.
MeasureText(t, from, count, box) ==
    LET inks == {0} \cup {t.ink[i] : i \in from..(from + count - 1)}
    IN  box \in inks /\ \A ink \in inks : ink <= box

InSubPixels(px) == px * SubPixel
PadHeight == InSubPixels(Pad)
PictureHeight == InSubPixels(request.picture.height)
Pixels(h) == (h \div SubPixel) * SubPixel       \* (int) of a height

-----------------------------------------------------------------------------
Idle == pc \in {"idle", "replied", "failed"}

Init ==
    /\ pc = "idle"
    /\ request \in Requests
    /\ item = 1 /\ head = 0 /\ lines = <<>>
    /\ summed = 0 /\ height = 0
    /\ drawn = 0 /\ pointY = 0
    /\ picture = NoPicture

\* A call arrives.  Its locals start afresh.
Receive ==
    /\ Idle
    /\ pc' = "decode"
    /\ request' \in Requests
    /\ item' = 1 /\ head' = 0 /\ lines' = <<>>
    /\ summed' = 0 /\ height' = 0
    /\ drawn' = 0 /\ pointY' = 0
    /\ picture' = NoPicture

\* bitmap is null when the bytes are no picture: bitmap.Width throws.
Decode ==
    /\ pc = "decode"
    /\ pc' = IF request.picture = NoBitmap THEN "failed" ELSE "wrap"
    /\ UNCHANGED <<request, item, head, lines, summed, height, drawn, pointY, picture>>

CurrentText == request.contents[item]
\* Mutant: while (head <= text.Length).
TextLeftOneMore == item <= Len(request.contents) /\ head <= CurrentText.length

TextLeft == item <= Len(request.contents) /\ head < CurrentText.length

\* Mutant: only a line with characters is added to the list.
BreakLineSkipsEmpty ==
    /\ pc = "wrap" /\ TextLeft
    /\ Len(lines) < MaxLines
    /\ \E count \in 0..(CurrentText.length - head) :
         /\ BreakText(CurrentText, head, count, MaxWidth)
         /\ \E box \in {0} \cup {CurrentText.ink[i] : i \in 0..(CurrentText.length - 1)} :
              /\ MeasureText(CurrentText, head, count, box)
              /\ lines' = IF count = 0 THEN lines
                          ELSE Append(lines, [item |-> item, head |-> head,
                                              count |-> count, height |-> box])
         /\ head' = head + count
    /\ UNCHANGED <<pc, request, item, summed, height, drawn, pointY, picture>>

\* One round of the while loop.  Nothing makes count positive.
BreakLine ==
    /\ pc = "wrap" /\ TextLeft
    /\ Len(lines) < MaxLines
    /\ \E count \in 0..(CurrentText.length - head) :
         /\ BreakText(CurrentText, head, count, MaxWidth)
         /\ \E box \in {0} \cup {CurrentText.ink[i] : i \in 0..(CurrentText.length - 1)} :
              /\ MeasureText(CurrentText, head, count, box)
              /\ lines' = Append(lines, [item |-> item, head |-> head,
                                         count |-> count, height |-> box])
         /\ head' = head + count
    /\ UNCHANGED <<pc, request, item, summed, height, drawn, pointY, picture>>

\* The list cannot grow: OutOfMemoryException out of result.Add.
OutOfMemory ==
    /\ pc = "wrap" /\ TextLeft
    /\ Len(lines) = MaxLines
    /\ pc' = "failed"
    /\ UNCHANGED <<request, item, head, lines, summed, height, drawn, pointY, picture>>

\* Mutant: head is declared outside the loop over the texts.
NextTextKeepsHead ==
    /\ pc = "wrap" /\ ~TextLeft
    /\ item <= Len(request.contents)
    /\ item' = item + 1
    /\ UNCHANGED <<pc, request, head, lines, summed, height, drawn, pointY, picture>>

NextText ==
    /\ pc = "wrap" /\ ~TextLeft
    /\ item <= Len(request.contents)
    /\ item' = item + 1
    /\ head' = 0
    /\ UNCHANGED <<pc, request, lines, summed, height, drawn, pointY, picture>>

\* Mutant: Aggregate with a seed of 0.
WrapDoneSeeded ==
    /\ pc = "wrap"
    /\ item > Len(request.contents)
    /\ pc' = "sum"
    /\ UNCHANGED <<request, item, head, lines, summed, height, drawn, pointY, picture>>

\* Aggregate has no seed: it throws when there is no line.
WrapDone ==
    /\ pc = "wrap"
    /\ item > Len(request.contents)
    /\ pc' = IF lines = <<>> THEN "failed" ELSE "sum"
    /\ UNCHANGED <<request, item, head, lines, summed, height, drawn, pointY, picture>>

\* Mutant: the canvas is sized without the pads between the lines.
SumLineUnpadded ==
    /\ pc = "sum"
    /\ summed < Len(lines)
    /\ summed' = summed + 1
    /\ height' = height + lines[summed + 1].height
    /\ UNCHANGED <<pc, request, item, head, lines, drawn, pointY, picture>>

SumLine ==
    /\ pc = "sum"
    /\ summed < Len(lines)
    /\ summed' = summed + 1
    /\ height' = height + lines[summed + 1].height + PadHeight
    /\ UNCHANGED <<pc, request, item, head, lines, drawn, pointY, picture>>

\* The last pad, the white canvas, and point at (pad, pad).  SKSurface.Create
\* returns null when it cannot have the pixels: drawSuface.Canvas throws.
MakeCanvas ==
    /\ pc = "sum"
    /\ summed = Len(lines)
    /\ height' = height + PadHeight
    /\ \/ pc' = "draw" /\ pointY' = PadHeight
       \/ pc' = "failed" /\ UNCHANGED pointY
    /\ UNCHANGED <<request, item, head, lines, summed, drawn, picture>>

CanvasHeight == Pixels(height + PictureHeight)

DrawLine ==
    /\ pc = "draw"
    /\ drawn < Len(lines)
    /\ drawn' = drawn + 1
    /\ pointY' = pointY + lines[drawn + 1].height + PadHeight
    /\ UNCHANGED <<pc, request, item, head, lines, summed, height, picture>>

\* Top is a float, Bottom is truncated.
DrawBitmap ==
    /\ pc = "draw"
    /\ drawn = Len(lines)
    /\ pc' = "encode"
    /\ picture' = [top    |-> pointY,
                   bottom |-> Pixels(pointY + PictureHeight)]
    /\ UNCHANGED <<request, item, head, lines, summed, height, drawn, pointY>>

TooLarge == CanvasHeight > InSubPixels(MaxJpegSide) \/ request.picture.width > MaxJpegSide

\* Encode returns null for an image too tall or too wide: d.AsStream() throws.
Encode ==
    /\ pc = "encode"
    /\ pc' = IF TooLarge THEN "failed" ELSE "replied"
    /\ UNCHANGED <<request, item, head, lines, summed, height, drawn, pointY, picture>>

Serve == \/ Decode
         \/ BreakLine \/ OutOfMemory \/ NextText \/ WrapDone
         \/ SumLine \/ MakeCanvas
         \/ DrawLine \/ DrawBitmap \/ Encode

Next == Receive \/ Serve

\* A call that was accepted is run by the thread pool to its end; nothing
\* makes a client send another.
Spec == Init /\ [][Next]_vars /\ WF_vars(Serve)

-----------------------------------------------------------------------------
(* Properties. *)

Line == [item : Nat, head : Nat, count : Nat, height : Nat]

\* The type invariant: the locals of DrawBySkia (lines 25-68) and of the two
\* ParseTextWrap hold what their types say.
TypeOK ==
    /\ pc \in {"idle", "decode", "wrap", "sum", "draw", "encode", "replied", "failed"}
    /\ request \in Requests
    /\ item \in 1..(Len(request.contents) + 1)
    /\ head \in Nat
    /\ lines \in Seq(Line)
    /\ summed \in 0..Len(lines)
    /\ drawn \in 0..Len(lines)
    /\ height \in Nat
    /\ pointY \in Nat
    /\ picture \in [top : Nat, bottom : Nat]

Covers(line, i, c) == line.item = i /\ line.head <= c /\ c < line.head + line.count

Wrapped(i, c) == i < item \/ (i = item /\ c < head)

\* No character of a text is lost between two lines: Substring(head, count)
\* and head += count leave no gap, neither inside a text nor where
\* ParseTextWrap goes on to the next one.
Lossless ==
    \A i \in DOMAIN request.contents :
      \A c \in 0..(request.contents[i].length - 1) :
        Wrapped(i, c) => \E k \in DOMAIN lines : Covers(lines[k], i, c)

Precedes(a, b) == a.item < b.item \/ (a.item = b.item /\ a.head + a.count <= b.head)

\* No character is drawn twice, and the lines stand in reading order: the
\* result of AddRange lists the texts in the order of the request.
ReadingOrder ==
    \A j, k \in DOMAIN lines : j < k => Precedes(lines[j], lines[k])

FitsAlone(t, c) == TextWidth(t, c, 1) <= MaxWidth

\* A reply of Code 0 is only ever sent for a picture that decodes, at least
\* one character of text, and no character wider than the wrapping width: an
\* unbreakable character keeps the while loop of ParseTextWrap from ending,
\* an empty list makes Aggregate throw.
ReplyNeedsRoom ==
    pc = "replied" =>
        /\ request.picture # NoBitmap
        /\ \E i \in DOMAIN request.contents : request.contents[i].length > 0
        /\ \A i \in DOMAIN request.contents :
             \A c \in 0..(request.contents[i].length - 1) :
               FitsAlone(request.contents[i], c)

\* The foreach of line 53 adds up to what the Aggregate of line 47 did: the
\* picture, placed where the last line left point.Y, ends on the last row of a
\* canvas sized before anything was drawn, and the truncation of Bottom takes
\* less than a pixel from its height.
PictureClosesCanvas ==
    pc \in {"encode", "replied"} =>
        /\ picture.bottom = CanvasHeight
        /\ picture.bottom - picture.top <= PictureHeight
        /\ picture.bottom - picture.top > PictureHeight - SubPixel

Drawable ==
    /\ request.picture # NoBitmap
    /\ \E i \in DOMAIN request.contents : request.contents[i].length > 0
    /\ \A i \in DOMAIN request.contents :
         \A c \in 0..(request.contents[i].length - 1) : FitsAlone(request.contents[i], c)

\* The handler has no try/catch, so what throws is the call's answer.  A
\* request that can be drawn passes both loops, the Aggregate without a seed
\* and the Substrings: it fails only at its canvas, for which there is no
\* memory, or of which a side is beyond the encoder.
OnlyCanvasFails ==
    [][Drawable /\ pc # "failed" /\ pc' = "failed" =>
         (pc = "sum" /\ summed = Len(lines)) \/ (pc = "encode" /\ TooLarge)]_vars

\* Every call ends, the one whose text does not fit too: the list it grows
\* runs out of memory.
EveryCallEnds == pc = "decode" ~> Idle

=============================================================================

--------------------------- MODULE SkiaDraw_proofs ---------------------------
(* What SkiaDraw promises for every set of texts, pictures and sizes. *)
EXTENDS SkiaDraw, TLAPS

(***************************************************************************)
(* The inductive invariant.                                                *)
(***************************************************************************)
Decoded == pc \in {"wrap", "sum", "draw", "encode", "replied"} \/ lines # <<>> =>
             request.picture # NoBitmap

\* Every line lies in a text of the request and behind the reading position.
LinesBehind ==
    \A k \in DOMAIN lines :
      /\ lines[k].item \in DOMAIN request.contents
      /\ lines[k].head < request.contents[lines[k].item].length
      /\ lines[k].head + lines[k].count <= request.contents[lines[k].item].length
      /\ Precedes(lines[k], [item |-> item, head |-> head, count |-> 0])

HeadInText ==
    item \in DOMAIN request.contents => head <= request.contents[item].length

LinesFit ==
    \A k \in DOMAIN lines :
      \/ lines[k].count = 0
      \/ TextWidth(request.contents[lines[k].item], lines[k].head, lines[k].count)
           <= MaxWidth

\* What the phases before and after the wrapping leave behind.
Phases ==
    /\ pc \in {"decode", "wrap"} => summed = 0 /\ height = 0
    /\ pc \in {"decode", "wrap", "sum"} => drawn = 0
    /\ pc \in {"sum", "draw", "encode", "replied"} =>
         lines # <<>> /\ item = Len(request.contents) + 1

\* s[k] is the height of the first k lines with their pads.
Stacks(s) ==
    /\ s[0] = 0
    /\ \A k \in 1..summed : s[k] = s[k - 1] + lines[k].height + PadHeight

Layout ==
    /\ pc = "sum" =>
         \E s \in [Nat -> Nat] : Stacks(s) /\ height = s[summed]
    /\ pc = "draw" =>
         \E s \in [Nat -> Nat] :
           /\ Stacks(s)
           /\ summed = Len(lines)
           /\ height = s[summed] + PadHeight
           /\ pointY = s[drawn] + PadHeight
    /\ pc \in {"encode", "replied"} =>
         picture = [top    |-> height,
                    bottom |-> Pixels(height + PictureHeight)]

IInv == /\ TypeOK /\ Decoded /\ Phases
        /\ HeadInText /\ LinesBehind /\ ReadingOrder /\ Lossless /\ LinesFit
        /\ Layout

-----------------------------------------------------------------------------
(* (int) of a height is at most the height and less than a pixel below it. *)
LEMMA PixelsFact ==
    ASSUME NEW h \in Nat
    PROVE  /\ Pixels(h) \in Nat
           /\ Pixels(h) <= h
           /\ h < Pixels(h) + SubPixel
  BY SizesAssumption DEF Pixels

(* Whole pixels are natural numbers of height units. *)
LEMMA InSubPixelsFact == ASSUME NEW px \in Nat PROVE InSubPixels(px) \in Nat
  BY SizesAssumption DEF InSubPixels

(* What the types of a request say of its parts. *)
LEMMA RequestFact ==
    ASSUME TypeOK
    PROVE  /\ request.picture \in Bitmaps \cup {NoBitmap}
           /\ request.contents \in Seq(Texts)
           /\ \A i \in DOMAIN request.contents : IsText(request.contents[i])
           /\ request.picture # NoBitmap =>
                request.picture.width \in Nat /\ request.picture.height \in Nat
  BY TextsAssumption, BitmapsAssumption, RequestsAssumption DEF TypeOK

(* The initial states satisfy the inductive invariant. *)
LEMMA InitIInv == Init => IInv
  <1> SUFFICES ASSUME Init PROVE IInv
    OBVIOUS
  <1>1. TypeOK
    BY DEF Init, TypeOK, NoPicture, Line
  <1>2. HeadInText
    BY <1>1, RequestFact DEF Init, HeadInText, IsText
  <1>3. Lossless
    BY <1>1, RequestFact DEF Init, Lossless, Wrapped, IsText
  <1> QED
    BY <1>1, <1>2, <1>3
    DEF Init, IInv, Decoded, Phases, LinesBehind, ReadingOrder, LinesFit, Layout

(* Every step keeps the locals within their types. *)
LEMMA TypeStep == IInv /\ [Next]_vars => TypeOK'
  <1> SUFFICES ASSUME IInv, [Next]_vars PROVE TypeOK'
    OBVIOUS
  <1> USE DEF IInv
  <1>1. CASE Receive
    BY <1>1 DEF Receive, TypeOK, NoPicture, Line
  <1>2. CASE Decode
    BY <1>2 DEF Decode, TypeOK, Line
  <1>3. CASE BreakLine
    <2>1. item \in DOMAIN request.contents /\ IsText(CurrentText)
      BY <1>3, RequestFact DEF BreakLine, TextLeft, CurrentText, TypeOK
    <2>2. PICK count \in 0..(CurrentText.length - head),
               box \in {0} \cup {CurrentText.ink[i] : i \in 0..(CurrentText.length - 1)} :
            /\ lines' = Append(lines, [item |-> item, head |-> head,
                                       count |-> count, height |-> box])
            /\ head' = head + count
      BY <1>3 DEF BreakLine
    <2>3. count \in Nat /\ box \in Nat
      <3>1. CurrentText.ink \in [0..(CurrentText.length - 1) -> Nat]
        BY <2>1 DEF IsText
      <3>2. \A i \in 0..(CurrentText.length - 1) : CurrentText.ink[i] \in Nat
        BY <3>1
      <3>3. box \in Nat
        BY <2>2, <3>2
      <3> QED
        BY <3>3
    <2>4. [item |-> item, head |-> head, count |-> count, height |-> box] \in Line
      BY <2>3 DEF TypeOK, Line
    <2>5. lines' \in Seq(Line) /\ Len(lines') = Len(lines) + 1
      BY <2>2, <2>4 DEF TypeOK
    <2> QED
      BY <1>3, <2>2, <2>3, <2>5 DEF BreakLine, TypeOK
  <1>4. CASE OutOfMemory
    BY <1>4 DEF OutOfMemory, TypeOK, Line
  <1>5. CASE NextText
    BY <1>5, RequestFact DEF NextText, TypeOK, Line
  <1>6. CASE WrapDone
    BY <1>6 DEF WrapDone, TypeOK, Line
  <1>7. CASE SumLine
    <2>1. lines[summed + 1] \in Line
      BY <1>7 DEF SumLine, TypeOK
    <2>2. lines[summed + 1].height \in Nat
      BY <2>1 DEF Line
    <2>3. PadHeight \in Nat
      BY SizesAssumption, InSubPixelsFact DEF PadHeight
    <2>4. height' \in Nat
      BY <1>7, <2>2, <2>3 DEF SumLine, TypeOK
    <2>5. summed' \in 0..Len(lines')
      BY <1>7 DEF SumLine, TypeOK
    <2> QED
      BY <1>7, <2>4, <2>5 DEF SumLine, TypeOK
  <1>8. CASE MakeCanvas
    <2>1. PadHeight \in Nat
      BY SizesAssumption, InSubPixelsFact DEF PadHeight
    <2> QED
      BY <1>8, <2>1 DEF MakeCanvas, TypeOK
  <1>9. CASE DrawLine
    <2>1. lines[drawn + 1] \in Line
      BY <1>9 DEF DrawLine, TypeOK
    <2>2. lines[drawn + 1].height \in Nat
      BY <2>1 DEF Line
    <2>3. PadHeight \in Nat
      BY SizesAssumption, InSubPixelsFact DEF PadHeight
    <2>4. pointY' \in Nat
      BY <1>9, <2>2, <2>3 DEF DrawLine, TypeOK
    <2>5. drawn' \in 0..Len(lines')
      BY <1>9 DEF DrawLine, TypeOK
    <2> QED
      BY <1>9, <2>4, <2>5 DEF DrawLine, TypeOK
  <1>10. CASE DrawBitmap
    <2>1. request.picture.height \in Nat
      BY <1>10, RequestFact DEF DrawBitmap, Decoded
    <2>2. pointY + PictureHeight \in Nat
      <3>1. PictureHeight \in Nat
        BY <2>1, InSubPixelsFact DEF PictureHeight
      <3>2. pointY \in Nat
        BY DEF TypeOK
      <3> QED
        BY <3>1, <3>2
    <2>3. Pixels(pointY + PictureHeight) \in Nat
      BY <2>2, PixelsFact
    <2> QED
      BY <1>10, <2>3 DEF DrawBitmap, TypeOK
  <1>11. CASE Encode
    BY <1>11 DEF Encode, TypeOK, Line
  <1>12. CASE UNCHANGED vars
    BY <1>12 DEF vars, TypeOK, Line
  <1> QED
    BY <1>1, <1>2, <1>3, <1>4, <1>5, <1>6, <1>7, <1>8, <1>9, <1>10, <1>11, <1>12
    DEF Next, Serve

(* The steps that leave the wrapping alone: all but a new call, a new line   *)
(* and the next text.                                                       *)
LEMMA WrapFrame ==
    ASSUME [Next]_vars
    PROVE  \/ Receive \/ BreakLine \/ NextText
           \/ UNCHANGED <<request, item, head, lines>>
  BY DEF Next, Serve, Decode, OutOfMemory, WrapDone, SumLine, MakeCanvas,
         DrawLine, DrawBitmap, Encode, vars

WrapInv == HeadInText /\ LinesBehind /\ ReadingOrder /\ Lossless /\ LinesFit

(* A new line takes up the text where the last one stopped. *)
LEMMA BreakLineWraps ==
    ASSUME IInv, BreakLine
    PROVE  WrapInv'
  <1> USE DEF IInv
  <1>1. item \in DOMAIN request.contents /\ IsText(CurrentText)
    BY RequestFact DEF BreakLine, TextLeft, CurrentText, TypeOK
  <1>2. PICK count \in 0..(CurrentText.length - head),
             box \in {0} \cup {CurrentText.ink[i] : i \in 0..(CurrentText.length - 1)} :
          /\ BreakText(CurrentText, head, count, MaxWidth)
          /\ lines' = Append(lines, [item |-> item, head |-> head,
                                     count |-> count, height |-> box])
          /\ head' = head + count
    BY DEF BreakLine
  <1> DEFINE new == [item |-> item, head |-> head, count |-> count, height |-> box]
  <1>3. /\ count \in Nat /\ head \in Nat /\ item \in Nat
        /\ head < CurrentText.length
        /\ head + count <= CurrentText.length
    BY <1>1, <1>2 DEF TypeOK, BreakLine, TextLeft, IsText
  <1>4. UNCHANGED <<request, item>> /\ lines \in Seq(Line)
    BY DEF BreakLine, TypeOK
  <1>5. /\ DOMAIN lines' = DOMAIN lines \cup {Len(lines) + 1}
        /\ DOMAIN lines = 1..Len(lines)
        /\ \A k \in DOMAIN lines : lines'[k] = lines[k] /\ lines[k] \in Line
        /\ lines'[Len(lines) + 1] = new
    BY <1>2, <1>4
  <1>6. HeadInText'
    BY <1>2, <1>3, <1>4 DEF HeadInText, CurrentText
  <1>7. LinesBehind'
    <2> SUFFICES ASSUME NEW k \in DOMAIN lines'
                 PROVE /\ lines'[k].item \in DOMAIN request.contents
                       /\ lines'[k].head < request.contents[lines'[k].item].length
                       /\ lines'[k].head + lines'[k].count
                            <= request.contents[lines'[k].item].length
                       /\ Precedes(lines'[k], [item |-> item, head |-> head + count, count |-> 0])
      BY <1>2, <1>4 DEF LinesBehind
    <2>1. CASE k \in DOMAIN lines
      BY <2>1, <1>3, <1>5 DEF LinesBehind, Precedes, Line
    <2>2. CASE k = Len(lines) + 1
      BY <2>2, <1>1, <1>3, <1>5 DEF CurrentText, Precedes
    <2> QED
      BY <2>1, <2>2, <1>5
  <1>8. ReadingOrder'
    <2> SUFFICES ASSUME NEW j \in DOMAIN lines', NEW k \in DOMAIN lines', j < k
                 PROVE Precedes(lines'[j], lines'[k])
      BY DEF ReadingOrder
    <2>1. j \in DOMAIN lines
      BY <1>5
    <2>2. CASE k \in DOMAIN lines
      BY <2>1, <2>2, <1>5 DEF ReadingOrder
    <2>3. CASE k = Len(lines) + 1
      BY <2>1, <2>3, <1>5 DEF LinesBehind, Precedes
    <2> QED
      BY <2>2, <2>3, <1>5
  <1>9. Lossless'
    <2> SUFFICES ASSUME NEW i \in DOMAIN request.contents,
                        NEW c \in 0..(request.contents[i].length - 1),
                        i < item \/ (i = item /\ c < head + count)
                 PROVE \E k \in DOMAIN lines' : Covers(lines'[k], i, c)
      BY <1>2, <1>4 DEF Lossless, Wrapped
    <2>1. CASE Wrapped(i, c)
      BY <2>1, <1>5 DEF Lossless, Covers
    <2>2. CASE ~Wrapped(i, c)
      <3>1. c \in Int /\ i = item /\ head <= c /\ c < head + count
        BY <2>2, <1>3, RequestFact DEF Wrapped, IsText, TypeOK
      <3> QED
        BY <3>1, <1>5 DEF Covers
    <2> QED
      BY <2>1, <2>2
  <1>10. LinesFit'
    <2> SUFFICES ASSUME NEW k \in DOMAIN lines'
                 PROVE \/ lines'[k].count = 0
                       \/ TextWidth(request.contents[lines'[k].item], lines'[k].head,
                                    lines'[k].count) <= MaxWidth
      BY <1>4 DEF LinesFit, MaxWidth
    <2>1. CASE k \in DOMAIN lines
      BY <2>1, <1>5 DEF LinesFit
    <2>2. CASE k = Len(lines) + 1
      BY <2>2, <1>2, <1>5 DEF BreakText, CurrentText
    <2> QED
      BY <2>1, <2>2, <1>5
  <1> QED
    BY <1>6, <1>7, <1>8, <1>9, <1>10 DEF WrapInv

(* Going on to the next text leaves nothing of the last one behind. *)
LEMMA NextTextWraps ==
    ASSUME IInv, NextText
    PROVE  WrapInv'
  <1> USE DEF IInv
  <1>1. /\ UNCHANGED <<request, lines>>
        /\ item' = item + 1 /\ head' = 0
        /\ item \in DOMAIN request.contents
        /\ head \in Nat /\ item \in Nat
        /\ ~(head < CurrentText.length)
    BY RequestFact DEF NextText, TextLeft, TypeOK
  <1>2. \A i \in DOMAIN request.contents : request.contents[i].length \in Nat
    BY RequestFact DEF IsText
  <1>3. \A k \in DOMAIN lines : lines[k] \in Line
    BY DEF TypeOK
  <1>4. HeadInText'
    BY <1>1, <1>2 DEF HeadInText
  <1>5. LinesBehind'
    BY <1>1, <1>3 DEF LinesBehind, Precedes, Line
  <1>6. ReadingOrder'
    BY <1>1 DEF ReadingOrder
  <1>7. Lossless'
    <2> SUFFICES ASSUME NEW i \in DOMAIN request.contents,
                        NEW c \in 0..(request.contents[i].length - 1),
                        i < item + 1 \/ (i = item + 1 /\ c < 0)
                 PROVE \E k \in DOMAIN lines : Covers(lines[k], i, c)
      BY <1>1 DEF Lossless, Wrapped
    <2>1. i \in Nat /\ c \in Nat
      BY <1>2, RequestFact
    <2>2. Wrapped(i, c)
      BY <1>1, <1>2, <2>1 DEF Wrapped, CurrentText
    <2> QED
      BY <2>2 DEF Lossless
  <1>8. LinesFit'
    BY <1>1 DEF LinesFit, MaxWidth
  <1> QED
    BY <1>4, <1>5, <1>6, <1>7, <1>8 DEF WrapInv

(* Every step keeps the wrapping lossless, ordered and within its width. *)
LEMMA WrapStep == IInv /\ [Next]_vars => WrapInv'
  <1> SUFFICES ASSUME IInv, [Next]_vars PROVE WrapInv'
    OBVIOUS
  <1>1. CASE Receive
    <2>1. /\ lines' = <<>> /\ item' = 1 /\ head' = 0
          /\ request' \in Requests
      BY <1>1 DEF Receive
    <2>2. \A i \in DOMAIN request'.contents : IsText(request'.contents[i])
      BY <2>1, TextsAssumption, RequestsAssumption
    <2>3. \A i \in DOMAIN request'.contents : request'.contents[i].length \in Nat
      BY <2>2 DEF IsText
    <2>4. HeadInText'
      BY <2>1, <2>3 DEF HeadInText
    <2>5. Lossless'
      <3> SUFFICES ASSUME NEW i \in DOMAIN request'.contents,
                          NEW c \in 0..(request'.contents[i].length - 1),
                          i < 1 \/ (i = 1 /\ c < 0)
                   PROVE  FALSE
        BY <2>1 DEF Lossless, Wrapped
      <3>1. i \in 1..Len(request'.contents)
        BY <2>1, RequestsAssumption
      <3> QED
        BY <2>3, <3>1
    <2>6. (LinesBehind /\ ReadingOrder /\ LinesFit)'
      BY <2>1 DEF LinesBehind, ReadingOrder, LinesFit
    <2> QED
      BY <2>4, <2>5, <2>6 DEF WrapInv
  <1>2. CASE BreakLine
    BY <1>2, BreakLineWraps
  <1>3. CASE NextText
    BY <1>3, NextTextWraps
  <1>4. CASE UNCHANGED <<request, item, head, lines>>
    BY <1>4 DEF IInv, WrapInv, HeadInText, LinesBehind, ReadingOrder, Lossless,
                Wrapped, LinesFit, MaxWidth
  <1> QED
    BY <1>1, <1>2, <1>3, <1>4, WrapFrame

(* Every step keeps what is known of the phases of a call. *)
LEMMA PhaseStep == IInv /\ [Next]_vars => (Decoded /\ Phases)'
  <1> SUFFICES ASSUME IInv, [Next]_vars PROVE (Decoded /\ Phases)'
    OBVIOUS
  <1>0. item \in Nat /\ Len(request.contents) \in Nat
    BY RequestFact DEF IInv, TypeOK
  <1> USE DEF IInv, Decoded, Phases
  <1>1. CASE Receive
    BY <1>1 DEF Receive
  <1>2. CASE Decode
    BY <1>2 DEF Decode
  <1>3. CASE BreakLine
    BY <1>3 DEF BreakLine
  <1>4. CASE OutOfMemory
    BY <1>4 DEF OutOfMemory
  <1>5. CASE NextText
    BY <1>5 DEF NextText
  <1>6. CASE WrapDone
    BY <1>0, <1>6 DEF WrapDone, TypeOK
  <1>7. CASE SumLine
    BY <1>7 DEF SumLine
  <1>8. CASE MakeCanvas
    BY <1>8 DEF MakeCanvas
  <1>9. CASE DrawLine
    BY <1>9 DEF DrawLine
  <1>10. CASE DrawBitmap
    BY <1>10 DEF DrawBitmap
  <1>11. CASE Encode
    BY <1>11 DEF Encode
  <1>12. CASE UNCHANGED vars
    BY <1>12 DEF vars
  <1> QED
    BY <1>1, <1>2, <1>3, <1>4, <1>5, <1>6, <1>7, <1>8, <1>9, <1>10, <1>11, <1>12
    DEF Next, Serve

(* The two loops over the lines add up the same stack of heights. *)
LEMMA LayoutStep == IInv /\ [Next]_vars => Layout'
  <1> SUFFICES ASSUME IInv, [Next]_vars PROVE Layout'
    OBVIOUS
  <1>t. TypeOK /\ Layout /\ Phases
    BY DEF IInv
  <1>a. PadHeight \in Nat
    BY SizesAssumption, InSubPixelsFact DEF PadHeight
  <1>b. lines \in Seq(Line) /\ summed \in Nat /\ drawn \in Nat
    BY <1>t DEF TypeOK
  <1>1. CASE Receive \/ Decode \/ BreakLine \/ OutOfMemory \/ NextText
    BY <1>t, <1>1 DEF Receive, Decode, BreakLine, OutOfMemory, NextText, Layout
  <1>2. CASE WrapDone
    <2>1. CASE pc' = "sum"
      <3> DEFINE s == [n \in Nat |-> 0]
      <3>1. summed' = 0 /\ height' = 0
        BY <1>t, <1>2 DEF WrapDone, Phases
      <3>2. s \in [Nat -> Nat] /\ s[0] = 0 /\ height' = s[summed']
        BY <3>1
      <3>3. Stacks(s)'
        BY <3>1, <3>2 DEF Stacks
      <3> QED
        BY <1>t, <2>1, <3>2, <3>3 DEF Layout
    <2>2. CASE pc' # "sum"
      BY <1>t, <1>2, <2>2 DEF WrapDone, Layout
    <2> QED
      BY <2>1, <2>2
  <1>3. CASE SumLine
    <2>1. PICK s \in [Nat -> Nat] : Stacks(s) /\ height = s[summed]
      BY <1>t, <1>3 DEF SumLine, Layout
    <2>2. height' \in Nat
      BY TypeStep DEF TypeOK
    <2>3. PICK t \in [Nat -> Nat] :
             /\ height' = t[summed + 1]
             /\ \A n \in Nat : n # summed + 1 => t[n] = s[n]
      <3> DEFINE extended == [s EXCEPT ![summed + 1] = height']
      <3>1. /\ extended \in [Nat -> Nat]
            /\ height' = extended[summed + 1]
            /\ \A n \in Nat : n # summed + 1 => extended[n] = s[n]
        BY <1>b, <2>2
      <3> QED
        BY <3>1
    <2>4. t[0] = 0
      BY <1>a, <1>b, <2>1, <2>3 DEF Stacks
    <2>5. ASSUME NEW k \in 1..(summed + 1)
          PROVE  t[k] = t[k - 1] + lines[k].height + PadHeight
      <3>1. CASE k = summed + 1
        <4>1. t[k] = height + lines[k].height + PadHeight
          BY <3>1, <1>3, <2>3 DEF SumLine
        <4>2. t[k - 1] = height
          BY <3>1, <1>a, <1>b, <2>1, <2>3
        <4> QED
          BY <4>1, <4>2
      <3>2. CASE k \in 1..summed
        <4>1. k \in Nat /\ k - 1 \in Nat /\ k # summed + 1 /\ k - 1 # summed + 1
          BY <3>2, <1>b
        <4>2. s[k] = s[k - 1] + lines[k].height + PadHeight
          BY <3>2, <2>1 DEF Stacks
        <4> QED
          BY <4>1, <4>2, <2>3
      <3> QED
        BY <3>1, <3>2, <1>b
    <2>6. Stacks(t)'
      BY <1>3, <2>4, <2>5 DEF Stacks, SumLine
    <2> QED
      BY <1>t, <1>3, <2>3, <2>6 DEF SumLine, Layout
  <1>4. CASE MakeCanvas
    <2>1. PICK s \in [Nat -> Nat] : Stacks(s) /\ height = s[summed]
      BY <1>t, <1>4 DEF MakeCanvas, Layout
    <2>2. CASE pc' = "failed"
      BY <2>2 DEF Layout
    <2>3. CASE pc' = "draw"
      <3>1. /\ summed' = Len(lines') /\ height' = s[summed'] + PadHeight
            /\ drawn' = 0 /\ pointY' = PadHeight
        BY <1>t, <1>4, <2>1, <2>3 DEF MakeCanvas, Phases
      <3>2. pointY' = s[drawn'] + PadHeight
        BY <1>a, <1>b, <2>1, <3>1 DEF Stacks
      <3>3. Stacks(s)'
        BY <1>4, <2>1 DEF MakeCanvas, Stacks
      <3> QED
        BY <2>3, <3>1, <3>2, <3>3 DEF Layout
    <2> QED
      BY <1>4, <2>2, <2>3 DEF MakeCanvas
  <1>5. CASE DrawLine
    <2>1. PICK s \in [Nat -> Nat] :
             /\ Stacks(s)
             /\ summed = Len(lines)
             /\ height = s[summed] + PadHeight
             /\ pointY = s[drawn] + PadHeight
      BY <1>t, <1>5 DEF DrawLine, Layout
    <2>2. lines[drawn + 1].height \in Nat
      <3>1. lines[drawn + 1] \in Line
        BY <1>t, <1>5 DEF DrawLine, TypeOK
      <3> QED
        BY <3>1 DEF Line
    <2>3. s[drawn + 1] = s[drawn] + lines[drawn + 1].height + PadHeight
      <3>1. drawn + 1 \in 1..summed /\ (drawn + 1) - 1 = drawn
        BY <1>a, <1>b, <1>5, <2>1 DEF DrawLine
      <3> QED
        BY <3>1, <2>1 DEF Stacks
    <2>4. s[drawn] \in Nat /\ s[drawn + 1] \in Nat
      BY <1>b
    <2>5. pointY' = s[drawn'] + PadHeight
      <3>1. pointY' = (s[drawn] + PadHeight) + lines[drawn + 1].height + PadHeight
        BY <1>5, <2>1 DEF DrawLine
      <3>2. drawn' = drawn + 1
        BY <1>5 DEF DrawLine
      <3> QED
        BY <1>a, <2>2, <2>3, <2>4, <3>1, <3>2
    <2>6. Stacks(s)'
      BY <1>5, <2>1 DEF DrawLine, Stacks
    <2> QED
      BY <1>t, <1>5, <2>1, <2>5, <2>6 DEF DrawLine, Layout
  <1>6. CASE DrawBitmap
    <2>1. pointY = height
      BY <1>t, <1>6 DEF DrawBitmap, Layout
    <2> QED
      BY <1>t, <1>6, <2>1 DEF DrawBitmap, Layout, PictureHeight
  <1>7. CASE Encode
    BY <1>t, <1>7 DEF Encode, Layout, PictureHeight
  <1>8. CASE UNCHANGED vars
    BY <1>t, <1>8 DEF vars, Layout, Stacks, PictureHeight
  <1> QED
    BY <1>1, <1>2, <1>3, <1>4, <1>5, <1>6, <1>7, <1>8 DEF Next, Serve

-----------------------------------------------------------------------------
(* The inductive invariant holds in every state of every behaviour. *)
THEOREM IInvHolds == Spec => []IInv
  <1>1. IInv /\ [Next]_vars => IInv'
    BY TypeStep, WrapStep, PhaseStep, LayoutStep DEF IInv, WrapInv
  <1> QED
    BY InitIInv, <1>1, PTL DEF Spec

(* The locals of the handler hold what their types say. *)
THEOREM TypeCorrect == Spec => []TypeOK
  BY IInvHolds, PTL DEF IInv

(* ParseTextWrap loses no character it has read and repeats none, and its    *)
(* lines stand in the order of the request.                                  *)
THEOREM WrapCorrect == Spec => [](Lossless /\ ReadingOrder)
  BY IInvHolds, PTL DEF IInv

(* A piece of a line is no wider than the line. *)
LEMMA PieceFits ==
    ASSUME NEW t, IsText(t), NEW from \in Nat, NEW count \in Nat,
           from + count <= t.length,
           NEW c \in Nat, from <= c, c < from + count
    PROVE  TextWidth(t, c, 1) <= TextWidth(t, from, count)
  <1>1. /\ from \in 0..t.length /\ from + count \in 0..t.length
        /\ c \in 0..t.length /\ c + 1 \in 0..t.length
    BY DEF IsText
  <1>2. /\ t.advance[from] <= t.advance[c]
        /\ t.advance[c + 1] <= t.advance[from + count]
    BY <1>1 DEF IsText
  <1>3. /\ t.advance[from] \in Nat /\ t.advance[from + count] \in Nat
        /\ t.advance[c] \in Nat /\ t.advance[c + 1] \in Nat
    BY <1>1 DEF IsText
  <1> QED
    BY <1>2, <1>3 DEF TextWidth

(* A reply is only sent when there was text and every character had room. *)
THEOREM ReplyHasRoom == Spec => []ReplyNeedsRoom
  <1>1. IInv => ReplyNeedsRoom
    <2> SUFFICES ASSUME IInv, pc = "replied"
                 PROVE  /\ request.picture # NoBitmap
                        /\ \E i \in DOMAIN request.contents : request.contents[i].length > 0
                        /\ \A i \in DOMAIN request.contents :
                             \A c \in 0..(request.contents[i].length - 1) :
                               FitsAlone(request.contents[i], c)
      BY DEF ReplyNeedsRoom
    <2>1. request.picture # NoBitmap /\ lines # <<>>
          /\ item = Len(request.contents) + 1
      BY DEF IInv, Decoded, Phases
    <2>2. lines \in Seq(Line)
      BY DEF IInv, TypeOK
    <2>3. \E i \in DOMAIN request.contents : request.contents[i].length > 0
      <3>1. 1 \in DOMAIN lines /\ lines[1] \in Line
        BY <2>1, <2>2
      <3>2. /\ lines[1].item \in DOMAIN request.contents
            /\ lines[1].head < request.contents[lines[1].item].length
        BY <3>1 DEF IInv, LinesBehind
      <3>3. lines[1].head \in Nat
        BY <3>1 DEF Line
      <3>4. request.contents[lines[1].item].length \in Nat
        BY <3>2, RequestFact DEF IInv, IsText
      <3>5. request.contents[lines[1].item].length > 0
        BY <3>2, <3>3, <3>4
      <3> QED
        BY <3>2, <3>5
    <2>4. ASSUME NEW i \in DOMAIN request.contents,
                 NEW c \in 0..(request.contents[i].length - 1)
          PROVE  FitsAlone(request.contents[i], c)
      <3>1. IsText(request.contents[i]) /\ request.contents \in Seq(Texts)
        BY RequestFact DEF IInv
      <3>2. i < item /\ c \in Nat
        BY <2>1, <3>1 DEF IsText
      <3>3. PICK k \in DOMAIN lines : Covers(lines[k], i, c)
        BY <3>2 DEF IInv, Lossless, Wrapped
      <3>4. lines[k] \in Line /\ lines[k].item = i
            /\ lines[k].head <= c /\ c < lines[k].head + lines[k].count
        BY <2>2, <3>3 DEF Covers
      <3>5. lines[k].head \in Nat /\ lines[k].count \in Nat /\ lines[k].count # 0
        BY <3>2, <3>4 DEF Line
      <3>6. lines[k].head + lines[k].count <= request.contents[i].length
        BY <3>4 DEF IInv, LinesBehind
      <3>7. TextWidth(request.contents[i], lines[k].head, lines[k].count) <= MaxWidth
        BY <3>4, <3>5 DEF IInv, LinesFit
      <3>8. TextWidth(request.contents[i], c, 1)
              <= TextWidth(request.contents[i], lines[k].head, lines[k].count)
        BY <3>1, <3>2, <3>4, <3>5, <3>6, PieceFits
      <3>9. /\ TextWidth(request.contents[i], c, 1) \in Int
            /\ TextWidth(request.contents[i], lines[k].head, lines[k].count) \in Int
        <4> DEFINE t == request.contents[i]
        <4>1. /\ c \in 0..t.length /\ c + 1 \in 0..t.length
              /\ lines[k].head \in 0..t.length
              /\ lines[k].head + lines[k].count \in 0..t.length
          BY <3>1, <3>2, <3>4, <3>5, <3>6 DEF IsText
        <4>2. /\ t.advance[c] \in Nat /\ t.advance[c + 1] \in Nat
              /\ t.advance[lines[k].head] \in Nat
              /\ t.advance[lines[k].head + lines[k].count] \in Nat
          BY <3>1, <4>1 DEF IsText
        <4> QED
          BY <4>2 DEF TextWidth
      <3>10. MaxWidth \in Int
        BY <2>1, RequestFact, SizesAssumption DEF IInv, MaxWidth
      <3> QED
        BY <3>7, <3>8, <3>9, <3>10 DEF FitsAlone
    <2> QED
      BY <2>1, <2>3, <2>4
  <1> QED
    BY <1>1, IInvHolds, PTL

(* The picture ends on the last row of the canvas, squeezed by less than a   *)
(* pixel.                                                                    *)
THEOREM PictureCloses == Spec => []PictureClosesCanvas
  <1>1. IInv => PictureClosesCanvas
    <2> SUFFICES ASSUME IInv, pc \in {"encode", "replied"}
                 PROVE  /\ picture.bottom = CanvasHeight
                        /\ picture.bottom - picture.top <= PictureHeight
                        /\ picture.bottom - picture.top > PictureHeight - SubPixel
      BY DEF PictureClosesCanvas
    <2>1. /\ picture.top = height
          /\ picture.bottom = Pixels(height + PictureHeight)
      BY DEF IInv, Layout
    <2>2. height \in Nat
      BY DEF IInv, TypeOK
    <2>3. PictureHeight \in Nat
      BY RequestFact, InSubPixelsFact DEF IInv, Decoded, PictureHeight
    <2>4. height + PictureHeight \in Nat
      BY <2>2, <2>3
    <2>5. /\ Pixels(height + PictureHeight) \in Nat
          /\ Pixels(height + PictureHeight) <= height + PictureHeight
          /\ height + PictureHeight < Pixels(height + PictureHeight) + SubPixel
      BY <2>4, PixelsFact
    <2>6. SubPixel \in Nat
      BY SizesAssumption
    <2> QED
      BY <2>1, <2>2, <2>3, <2>5, <2>6 DEF CanvasHeight
  <1> QED
    BY <1>1, IInvHolds, PTL

-----------------------------------------------------------------------------
(* A request that can be drawn never fills the list of lines: each line takes *)
(* at least one character, for which the heap has room.                       *)
Budget ==
    /\ pc = "decode" => lines = <<>> /\ item = 1 /\ head = 0
    /\ pc = "wrap" /\ Drawable =>
         \A room \in Rooms(request) : Len(lines) <= room[item] + head

(* What a room promises to the text being read.                               *)
LEMMA RoomFact ==
    ASSUME TypeOK, NEW room \in Rooms(request)
    PROVE  /\ item \in Nat /\ head \in Nat /\ Len(lines) \in Nat
           /\ room[item] \in Nat
           /\ item \in DOMAIN request.contents =>
                /\ CurrentText.length \in Nat
                /\ room[item + 1] \in Nat /\ room[item + 1] <= MaxLines
                /\ room[item] + CurrentText.length <= room[item + 1]
  <1> DEFINE m == Len(request.contents)
  <1>1. request.contents \in Seq(Texts)
    BY RequestFact
  <1>2. m \in Nat /\ DOMAIN request.contents = 1..m
    BY <1>1
  <1>3. item \in 1..(m + 1) /\ head \in Nat /\ lines \in Seq(Line)
    BY DEF TypeOK
  <1>4. /\ room \in [1..(m + 1) -> 0..MaxLines]
        /\ \A i \in DOMAIN request.contents :
             room[i] + request.contents[i].length <= room[i + 1]
    BY DEF Rooms
  <1>5. ASSUME item \in DOMAIN request.contents
        PROVE  /\ CurrentText.length \in Nat
               /\ room[item + 1] \in Nat /\ room[item + 1] <= MaxLines
               /\ room[item] + CurrentText.length <= room[item + 1]
    <2>1. IsText(CurrentText)
      BY <1>5, RequestFact DEF CurrentText
    <2>2. item + 1 \in 1..(m + 1)
      BY <1>2, <1>5
    <2>3. room[item + 1] \in 0..MaxLines
      BY <1>4, <2>2
    <2>4. room[item] + CurrentText.length <= room[item + 1]
      BY <1>4, <1>5 DEF CurrentText
    <2> QED
      BY <2>1, <2>3, <2>4, SizesAssumption DEF IsText
  <1>6. room[item] \in 0..MaxLines
    BY <1>3, <1>4
  <1> QED
    BY <1>2, <1>3, <1>5, <1>6, SizesAssumption

(* A line of a request that can be drawn is not empty.                        *)
LEMMA LinesTakeSomething ==
    ASSUME IInv, Drawable, TextLeft,
           NEW count \in 0..(CurrentText.length - head),
           BreakText(CurrentText, head, count, MaxWidth)
    PROVE  count >= 1 /\ count \in Nat
  <1>1. item \in DOMAIN request.contents /\ IsText(CurrentText) /\ head \in Nat
    BY RequestFact DEF IInv, TypeOK, TextLeft, CurrentText
  <1>2. CurrentText.length \in Nat /\ head < CurrentText.length
    BY <1>1 DEF TextLeft, IsText
  <1>3. FitsAlone(CurrentText, head)
    BY <1>1, <1>2 DEF Drawable, CurrentText
  <1>4. TextWidth(CurrentText, head, 1) \in Int
    <2>1. head \in 0..CurrentText.length /\ head + 1 \in 0..CurrentText.length
      BY <1>1, <1>2
    <2>2. CurrentText.advance[head] \in Nat /\ CurrentText.advance[head + 1] \in Nat
      BY <1>1, <2>1 DEF IsText
    <2> QED
      BY <2>2 DEF TextWidth
  <1>5. MaxWidth \in Int
    BY RequestFact, SizesAssumption DEF IInv, Drawable, MaxWidth
  <1>6. count # 0
    <2> SUFFICES ASSUME count = 0 PROVE FALSE
      OBVIOUS
    <2>1. TextWidth(CurrentText, head, 1) > MaxWidth
      BY <1>1, <1>2 DEF BreakText
    <2> QED
      BY <1>3, <1>4, <1>5, <2>1 DEF FitsAlone
  <1> QED
    BY <1>1, <1>2, <1>6

(* The wrapping stays within the room.                                        *)
LEMMA BudgetStep == IInv /\ Budget /\ [Next]_vars => Budget'
  <1> SUFFICES ASSUME IInv, Budget, [Next]_vars PROVE Budget'
    OBVIOUS
  <1>0. TypeOK /\ TypeOK' /\ HeadInText
    BY TypeStep DEF IInv
  <1>1. CASE Receive
    BY <1>1 DEF Receive, Budget
  <1>2. CASE Decode
    <2>1. /\ lines' = <<>> /\ item' = 1 /\ head' = 0 /\ request' = request
          /\ pc' \in {"wrap", "failed"}
      BY <1>2 DEF Decode, Budget
    <2>2. \A room \in Rooms(request') : Len(lines') <= room[item'] + head'
      <3> TAKE room \in Rooms(request')
      <3>1. room[item] \in Nat /\ item' = item
        BY <1>0, <1>2, <2>1, RoomFact DEF Decode
      <3> QED
        BY <2>1, <3>1
    <2> QED
      BY <2>1, <2>2 DEF Budget
  <1>3. CASE BreakLine
    <2>1. TextLeft /\ UNCHANGED <<pc, request, item>> /\ pc = "wrap" /\ item \in DOMAIN request.contents
      BY <1>0, <1>3, RequestFact DEF BreakLine, TextLeft, TypeOK
    <2>2. PICK count \in 0..(CurrentText.length - head),
               box \in {0} \cup {CurrentText.ink[i] : i \in 0..(CurrentText.length - 1)} :
            /\ BreakText(CurrentText, head, count, MaxWidth)
            /\ lines' = Append(lines, [item |-> item, head |-> head,
                                       count |-> count, height |-> box])
            /\ head' = head + count
      BY <1>3 DEF BreakLine
    <2>3. Len(lines') = Len(lines) + 1
      <3>1. lines \in Seq(Line)
        BY <1>0 DEF TypeOK
      <3> QED
        BY <2>2, <3>1
    <2>4. ASSUME Drawable', NEW room \in Rooms(request')
          PROVE  Len(lines') <= room[item'] + head'
      <3>1. Drawable /\ room \in Rooms(request)
        BY <2>1, <2>4 DEF Drawable, FitsAlone, MaxWidth
      <3>2. count >= 1 /\ count \in Nat
        BY <2>1, <2>2, <3>1, LinesTakeSomething
      <3>3. Len(lines) <= room[item] + head
        BY <2>1, <3>1 DEF Budget
      <3>4. room[item] \in Nat /\ head \in Nat /\ Len(lines) \in Nat
        BY <1>0, <3>1, RoomFact
      <3> QED
        BY <2>1, <2>2, <2>3, <3>2, <3>3, <3>4
    <2> QED
      BY <2>1, <2>4 DEF Budget
  <1>4. CASE NextText
    <2>1. /\ pc = "wrap" /\ UNCHANGED <<pc, request, lines>> /\ item' = item + 1 /\ head' = 0
          /\ item \in DOMAIN request.contents /\ ~ (head < CurrentText.length)
      BY <1>0, <1>4, RequestFact DEF NextText, TextLeft, TypeOK
    <2>2. ASSUME Drawable', NEW room \in Rooms(request')
          PROVE  Len(lines') <= room[item'] + head'
      <3>1. Drawable /\ room \in Rooms(request)
        BY <2>1, <2>2 DEF Drawable, FitsAlone, MaxWidth
      <3>2. Len(lines) <= room[item] + head /\ head <= CurrentText.length
        BY <1>0, <2>1, <3>1 DEF Budget, HeadInText, CurrentText
      <3> QED
        BY <1>0, <2>1, <3>1, <3>2, RoomFact
    <2> QED
      BY <2>1, <2>2 DEF Budget
  <1>5. CASE \/ OutOfMemory \/ WrapDone \/ SumLine \/ MakeCanvas
             \/ DrawLine \/ DrawBitmap \/ Encode
    <2>1. pc' \notin {"decode", "wrap"}
      BY <1>5 DEF OutOfMemory, WrapDone, SumLine, MakeCanvas, DrawLine, DrawBitmap, Encode
    <2> QED
      BY <2>1 DEF Budget
  <1>6. CASE UNCHANGED vars
    <2>1. UNCHANGED <<pc, request, item, head, lines>>
      BY <1>6 DEF vars
    <2>2. Drawable' <=> Drawable
      BY <2>1 DEF Drawable, FitsAlone, MaxWidth
    <2> QED
      BY <2>1, <2>2 DEF Budget
  <1> QED
    BY <1>1, <1>2, <1>3, <1>4, <1>5, <1>6 DEF Next, Serve

(* A request with a picture, text, and room for each character fails only at  *)
(* its canvas: wherever else a call ends without a reply, there was nothing   *)
(* that could be drawn.                                                       *)
LEMMA FailureStep ==
    ASSUME IInv, Budget, Next, Drawable, pc # "failed", pc' = "failed"
    PROVE  (pc = "sum" /\ summed = Len(lines)) \/ (pc = "encode" /\ TooLarge)
  <1>0. TypeOK
    BY DEF IInv
  <1>1. ~ Receive /\ ~ BreakLine /\ ~ NextText /\ ~ SumLine
        /\ ~ DrawLine /\ ~ DrawBitmap
    BY DEF Receive, BreakLine, NextText, SumLine, DrawLine, DrawBitmap
  <1>2. ~ Decode
    BY DEF Decode, Drawable
  <1>3. ~ OutOfMemory
    <2> SUFFICES ASSUME OutOfMemory PROVE FALSE
      OBVIOUS
    <2>1. PICK room : room \in Rooms(request)
      BY <1>0, RoomAssumption DEF TypeOK
    <2>2. /\ item \in DOMAIN request.contents /\ head < CurrentText.length
          /\ Len(lines) = MaxLines
      BY <1>0, RequestFact DEF OutOfMemory, TextLeft, TypeOK
    <2>3. Len(lines) <= room[item] + head
      BY <2>1 DEF OutOfMemory, Budget
    <2> QED
      BY <1>0, <2>1, <2>2, <2>3, RoomFact
  <1>4. ~ WrapDone
    <2> SUFFICES ASSUME WrapDone PROVE FALSE
      OBVIOUS
    <2>1. lines = <<>> /\ item > Len(request.contents)
      BY DEF WrapDone
    <2>2. PICK i \in DOMAIN request.contents : request.contents[i].length > 0
      BY DEF Drawable
    <2>3. i < item /\ 0 \in 0..(request.contents[i].length - 1)
      <3>1. request.contents \in Seq(Texts) /\ IsText(request.contents[i]) /\ item \in Nat
        BY <1>0, RequestFact DEF TypeOK
      <3> QED
        BY <2>1, <2>2, <3>1 DEF IsText
    <2>4. \E k \in DOMAIN lines : Covers(lines[k], i, 0)
      BY <2>3 DEF IInv, Lossless, Wrapped
    <2> QED
      BY <2>1, <2>4
  <1>5. CASE MakeCanvas
    BY <1>5 DEF MakeCanvas
  <1>6. CASE Encode
    BY <1>6 DEF Encode
  <1> QED
    BY <1>1, <1>2, <1>3, <1>4, <1>5, <1>6 DEF Next, Serve

(* A request with a picture, text, and room for each character fails only at  *)
(* its canvas, for which there is no memory or which has too long a side.     *)
THEOREM DrawableIsDrawn == Spec => OnlyCanvasFails
  <1>1. Init => Budget
    BY DEF Init, Budget
  <1>2. IInv /\ Budget /\ [Next]_vars
          => [Drawable /\ pc # "failed" /\ pc' = "failed" =>
                (pc = "sum" /\ summed = Len(lines)) \/ (pc = "encode" /\ TooLarge)]_vars
    BY FailureStep
  <1> QED
    BY <1>1, <1>2, BudgetStep, IInvHolds, PTL DEF Spec, OnlyCanvasFails

-----------------------------------------------------------------------------
(***************************************************************************)
(* Every call ends.  No step is free: each one uses up a text, a line the  *)
(* heap has room for, a line still to add up or to draw, or a phase.       *)
(***************************************************************************)
PhasesLeft ==
    CASE pc = "decode" -> 5
      [] pc = "wrap"   -> 4
      [] pc = "sum"    -> 3
      [] pc = "draw"   -> 2
      [] pc = "encode" -> 1
      [] OTHER         -> 0

\* A new line is one line less to find room for, and has still to be added up
\* and drawn.
Weight(found, added, done, read, texts, phases) ==
    3 * (MaxLines - found) + (found - added) + (found - done) + (texts + 1 - read) + phases

StepsLeft ==
    Weight(Len(lines), summed, drawn, item, Len(request.contents), PhasesLeft)

LinesInHeap == Len(lines) <= MaxLines

ServeCanStep == ~ Idle => ENABLED <<Serve>>_vars

(* The sum is a natural number, and less of anything makes it less. *)
LEMMA WeightFact ==
    ASSUME NEW found \in Nat, NEW added \in Nat, NEW done \in Nat, NEW read \in Nat,
           NEW texts \in Nat, NEW phases \in Nat,
           found <= MaxLines, added <= found, done <= found, read <= texts + 1
    PROVE  /\ Weight(found, added, done, read, texts, phases) \in Nat
           /\ \A fewer \in Nat : fewer < phases =>
                Weight(found, added, done, read, texts, fewer)
                  < Weight(found, added, done, read, texts, phases)
           /\ Weight(found + 1, added, done, read, texts, phases)
                < Weight(found, added, done, read, texts, phases)
           /\ Weight(found, added, done, read + 1, texts, phases)
                < Weight(found, added, done, read, texts, phases)
           /\ Weight(found, added + 1, done, read, texts, phases)
                < Weight(found, added, done, read, texts, phases)
           /\ Weight(found, added, done + 1, read, texts, phases)
                < Weight(found, added, done, read, texts, phases)
  BY SizesAssumption DEF Weight

(* The numbers StepsLeft adds up are natural. *)
LEMMA StepsLeftFact ==
    ASSUME TypeOK, LinesInHeap
    PROVE  /\ Len(lines) \in Nat /\ summed \in Nat /\ drawn \in Nat /\ item \in Nat
           /\ Len(request.contents) \in Nat /\ PhasesLeft \in Nat
           /\ Len(lines) <= MaxLines /\ summed <= Len(lines) /\ drawn <= Len(lines)
           /\ item <= Len(request.contents) + 1
           /\ StepsLeft \in Nat
  <1>1. Len(lines) \in Nat
    BY DEF TypeOK
  <1>2. Len(request.contents) \in Nat
    BY RequestFact
  <1>3. PhasesLeft \in Nat
    BY DEF PhasesLeft
  <1>4. /\ summed \in 0..Len(lines) /\ drawn \in 0..Len(lines)
        /\ item \in 1..(Len(request.contents) + 1)
    BY DEF TypeOK
  <1>5. Len(lines) <= MaxLines
    BY DEF LinesInHeap
  <1>6. /\ summed \in Nat /\ drawn \in Nat /\ item \in Nat
        /\ summed <= Len(lines) /\ drawn <= Len(lines)
        /\ item <= Len(request.contents) + 1
    BY <1>1, <1>2, <1>4
  <1> HIDE DEF PhasesLeft
  <1>7. StepsLeft \in Nat
    BY <1>1, <1>2, <1>3, <1>5, <1>6, WeightFact DEF StepsLeft
  <1> QED
    BY <1>1, <1>2, <1>3, <1>5, <1>6, <1>7

(* Only BreakLine adds a line, and it looks for room first. *)
LEMMA HeapStep == TypeOK /\ LinesInHeap /\ [Next]_vars => LinesInHeap'
  <1> SUFFICES ASSUME TypeOK, LinesInHeap, [Next]_vars PROVE LinesInHeap'
    OBVIOUS
  <1>0. lines \in Seq(Line) /\ MaxLines \in Nat
    BY SizesAssumption DEF TypeOK
  <1>1. CASE Receive
    BY <1>0, <1>1 DEF Receive, LinesInHeap
  <1>2. CASE BreakLine
    <2>1. Len(lines) < MaxLines /\ Len(lines) \in Nat
      BY <1>0, <1>2 DEF BreakLine
    <2>2. PICK count \in 0..(CurrentText.length - head),
               box \in {0} \cup {CurrentText.ink[i] : i \in 0..(CurrentText.length - 1)} :
            lines' = Append(lines, [item |-> item, head |-> head,
                                    count |-> count, height |-> box])
      BY <1>2 DEF BreakLine
    <2>3. Len(lines') = Len(lines) + 1
      BY <1>0, <2>2
    <2> QED
      BY <1>0, <2>1, <2>3 DEF LinesInHeap
  <1>3. CASE NextText
    BY <1>3 DEF NextText, LinesInHeap
  <1>4. CASE UNCHANGED <<request, item, head, lines>>
    BY <1>4 DEF LinesInHeap
  <1> QED
    BY <1>1, <1>2, <1>3, <1>4, WrapFrame

(* Each step of a call leaves fewer steps. *)
LEMMA ServeComesNearer ==
    ASSUME TypeOK, LinesInHeap, TypeOK', LinesInHeap', Serve
    PROVE  StepsLeft' < StepsLeft
  <1>0. /\ Len(lines) \in Nat /\ summed \in Nat /\ drawn \in Nat /\ item \in Nat
        /\ Len(request.contents) \in Nat /\ PhasesLeft \in Nat
        /\ Len(lines) <= MaxLines /\ summed <= Len(lines) /\ drawn <= Len(lines)
        /\ item <= Len(request.contents) + 1
    BY StepsLeftFact
  <1>1. CASE UNCHANGED <<request, item, lines, summed, drawn>> /\ PhasesLeft' < PhasesLeft
    <2>1. PhasesLeft' \in Nat
      BY DEF PhasesLeft
    <2> HIDE DEF PhasesLeft
    <2> QED
      BY <1>0, <1>1, <2>1, WeightFact DEF StepsLeft
  <1>2. CASE Decode
    <2>1. PhasesLeft' < PhasesLeft
      BY <1>2 DEF Decode, PhasesLeft
    <2> QED
      BY <1>1, <1>2, <2>1 DEF Decode
  <1>3. CASE BreakLine
    <2>1. PICK count \in 0..(CurrentText.length - head),
               box \in {0} \cup {CurrentText.ink[i] : i \in 0..(CurrentText.length - 1)} :
            lines' = Append(lines, [item |-> item, head |-> head,
                                    count |-> count, height |-> box])
      BY <1>3 DEF BreakLine
    <2>2. Len(lines') = Len(lines) + 1
      BY <2>1 DEF TypeOK
    <2>3. UNCHANGED <<pc, request, item, summed, drawn>>
      BY <1>3 DEF BreakLine
    <2>4. PhasesLeft' = PhasesLeft
      BY <2>3 DEF PhasesLeft
    <2> HIDE DEF PhasesLeft
    <2> QED
      BY <1>0, <2>2, <2>3, <2>4, WeightFact DEF StepsLeft
  <1>4. CASE OutOfMemory
    <2>1. PhasesLeft' < PhasesLeft
      BY <1>4 DEF OutOfMemory, PhasesLeft
    <2> QED
      BY <1>1, <1>4, <2>1 DEF OutOfMemory
  <1>5. CASE NextText
    <2>1. item' = item + 1 /\ UNCHANGED <<pc, request, lines, summed, drawn>>
      BY <1>5 DEF NextText
    <2>2. PhasesLeft' = PhasesLeft
      BY <2>1 DEF PhasesLeft
    <2> HIDE DEF PhasesLeft
    <2> QED
      BY <1>0, <2>1, <2>2, WeightFact DEF StepsLeft
  <1>6. CASE WrapDone
    <2>1. PhasesLeft' < PhasesLeft
      BY <1>6 DEF WrapDone, PhasesLeft
    <2> QED
      BY <1>1, <1>6, <2>1 DEF WrapDone
  <1>7. CASE SumLine \/ DrawLine
    <2>1. /\ UNCHANGED <<pc, request, item, lines>>
          /\ \/ summed' = summed + 1 /\ drawn' = drawn
             \/ summed' = summed /\ drawn' = drawn + 1
      BY <1>7 DEF SumLine, DrawLine
    <2>2. PhasesLeft' = PhasesLeft
      BY <2>1 DEF PhasesLeft
    <2> HIDE DEF PhasesLeft
    <2> QED
      BY <1>0, <2>1, <2>2, WeightFact DEF StepsLeft
  <1>8. CASE MakeCanvas \/ DrawBitmap \/ Encode
    <2>1. PhasesLeft' < PhasesLeft
      BY <1>8 DEF MakeCanvas, DrawBitmap, Encode, PhasesLeft
    <2>2. UNCHANGED <<request, item, lines, summed, drawn>>
      BY <1>8 DEF MakeCanvas, DrawBitmap, Encode
    <2> QED
      BY <1>1, <2>1, <2>2
  <1> QED
    BY <1>2, <1>3, <1>4, <1>5, <1>6, <1>7, <1>8 DEF Serve

(* The list never outgrows the heap. *)
LEMMA HeapHolds == Spec => [](TypeOK /\ LinesInHeap)
  <1>1. Init => LinesInHeap
    BY SizesAssumption DEF Init, LinesInHeap
  <1>2. IInv => TypeOK
    BY DEF IInv
  <1> QED
    BY <1>1, <1>2, HeapStep, IInvHolds, PTL DEF Spec

(* A call, once begun, only comes nearer to its end: with every step of     *)
(* DrawBySkia the steps that may still follow become fewer, the rounds of    *)
(* the while loop that takes no character included, for the list has so much  *)
(* room and no more.                                                          *)
THEOREM CallComesNearer ==
    Spec => [][~ Idle => StepsLeft \in Nat /\ StepsLeft' < StepsLeft]_vars
  <1>1. TypeOK /\ LinesInHeap /\ (TypeOK /\ LinesInHeap)' /\ [Next]_vars
          => [~ Idle => StepsLeft \in Nat /\ StepsLeft' < StepsLeft]_vars
    <2> SUFFICES ASSUME TypeOK, LinesInHeap, TypeOK', LinesInHeap', Next, ~ Idle
                 PROVE  StepsLeft \in Nat /\ StepsLeft' < StepsLeft
      OBVIOUS
    <2>1. Serve
      BY DEF Next, Receive
    <2> QED
      BY <2>1, StepsLeftFact, ServeComesNearer
  <1> QED
    BY <1>1, HeapHolds, PTL DEF Spec

(* No call stays where it is: with n steps left, it ends or comes to where    *)
(* fewer are left.                                                            *)
THEOREM NoCallRests ==
    ASSUME NEW n \in Nat
    PROVE  Spec /\ []ServeCanStep
             => ((~ Idle /\ StepsLeft = n) ~> (Idle \/ StepsLeft < n))
  <1> DEFINE At   == ~ Idle /\ StepsLeft = n
             Less == Idle \/ StepsLeft < n
             Inv  == TypeOK /\ LinesInHeap
  <1>1. Inv /\ Inv' /\ At /\ [Next]_vars => At' \/ Less'
    <2> SUFFICES ASSUME Inv, Inv', At, [Next]_vars PROVE At' \/ Less'
      OBVIOUS
    <2>1. CASE Next
      <3>1. Serve
        BY <2>1 DEF Next, Receive
      <3>2. StepsLeft' < StepsLeft
        BY <3>1, ServeComesNearer
      <3> QED
        BY <3>2
    <2>2. CASE UNCHANGED vars
      BY <2>2 DEF vars, Idle, StepsLeft, PhasesLeft
    <2> QED
      BY <2>1, <2>2
  <1>2. Inv /\ Inv' /\ At /\ <<Serve>>_vars => Less'
    BY ServeComesNearer
  <1>3. At /\ ServeCanStep => ENABLED <<Serve>>_vars
    BY DEF ServeCanStep
  <1> HIDE DEF At, Less
  <1>4. Spec => []Inv
    BY HeapHolds
  <1> HIDE DEF Inv
  <1>5. Spec /\ []ServeCanStep => (At ~> Less)
    BY <1>1, <1>2, <1>3, <1>4, PTL DEF Spec
  <1> QED
    BY <1>5 DEF At, Less

(* Every call ends, the one whose text does not fit too.  StepsLeft falls     *)
(* with every step of a call, so in a call that did not end it would come to  *)
(* rest, at some n.                                                           *)
THEOREM CallEnds ==
    ASSUME NEW n
    PROVE  Spec /\ []ServeCanStep /\ (<>[](~ Idle) => <>[](StepsLeft = n))
             => EveryCallEnds
  <1> DEFINE At  == StepsLeft = n
             Inv == TypeOK /\ LinesInHeap
  <1>1. Inv /\ Inv' /\ At /\ At' => ~ <<Serve>>_vars
    <2> SUFFICES ASSUME Inv, Inv', At, At', Serve PROVE FALSE
      OBVIOUS
    <2>1. StepsLeft' < StepsLeft /\ StepsLeft \in Nat
      BY ServeComesNearer, StepsLeftFact
    <2> QED
      BY <2>1
  <1>2. ~ Idle /\ ServeCanStep => ENABLED <<Serve>>_vars
    BY DEF ServeCanStep
  <1>3. Spec => []Inv
    BY HeapHolds
  <1>4. pc = "decode" => ~ Idle
    BY DEF Idle
  <1> HIDE DEF At, Inv
  <1>5. Spec /\ []ServeCanStep /\ (<>[](~ Idle) => <>[]At) => EveryCallEnds
    BY <1>1, <1>2, <1>3, <1>4, PTL DEF Spec, EveryCallEnds
  <1> QED
    BY <1>5 DEF At
=============================================================================

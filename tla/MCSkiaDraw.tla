----------------------------- MODULE MCSkiaDraw -----------------------------
(* A small instance of SkiaDraw: four texts over three kinds of character. *)
EXTENDS SkiaDraw

Narrow == [advance |-> 2, ink |-> 3]
Wide   == [advance |-> 4, ink |-> 5]
Space  == [advance |-> 1, ink |-> 0]

\* The text of a sequence of characters.
Text(chars) ==
    LET Before[i \in 0..Len(chars)] ==
            IF i = 0 THEN 0 ELSE Before[i - 1] + chars[i].advance
    IN  [length  |-> Len(chars),
         advance |-> Before,
         ink     |-> [i \in 0..(Len(chars) - 1) |-> chars[i + 1].ink]]

MCTexts == {Text(<<>>),
            Text(<<Narrow, Narrow, Space>>),
            Text(<<Narrow, Wide, Narrow>>),
            Text(<<Space, Wide>>)}

\* Wrapping widths 0, 3, 5, 9 and 37 with the pad of 8; the last is too wide.
MCBitmaps == {[width |-> 4, height |-> 1], [width |-> 7, height |-> 2],
              [width |-> 9, height |-> 2], [width |-> 13, height |-> 1],
              [width |-> 41, height |-> 1]}

MCRequests ==
    [picture  : MCBitmaps \cup {NoBitmap},
     contents : {<<>>} \cup {<<t>> : t \in MCTexts} \cup MCTexts \X MCTexts]
=============================================================================

----------------------------- MODULE MCDisplay -----------------------------
(* Three bits to a word; a form of three words by three lines and one of two by two. *)
EXTENDS Display

CONSTANTS Wide, Small

MCForms == {Wide, Small}

Words(list) == [i \in 0 .. Len(list) - 1 |-> list[i + 1]]

MCInitialForms ==
    Wide  :> [width |-> 7, height |-> 3,
              bits |-> Words(<<{1}, {0, 2}, {1, 2}, {}, {0, 1}, {2}, {1, 2}, {0, 1, 2}, {0}>>)] @@
    Small :> [width |-> 4, height |-> 2, bits |-> Words(<<{0, 2}, {1}, {1}, {0, 2}>>)]

Striped == Words(<<{0}, {1, 2}, {0, 1}>>)

Request(dest, source, halftone, rule, dx, dy, w, h, sx, sy, clip) ==
    [destForm |-> dest, sourceForm |-> source, halftone |-> halftone, combinationRule |-> rule,
     destX |-> dx, destY |-> dy, width |-> w, height |-> h, sourceX |-> sx, sourceY |-> sy,
     clipX |-> clip[1], clipY |-> clip[2], clipWidth |-> clip[3], clipHeight |-> clip[4]]

\* destination, source and extent in y: whole, down, up, one line, beyond both edges
Vertical == {<<0, 0, 3>>, <<1, 0, 2>>, <<0, 1, 2>>, <<1, 1, 1>>, <<-1, -1, 2>>, <<1, -1, 5>>}

Clips == {<<-1, -1, 9, 9>>, <<2, 1, 3, 1>>}

\* Every place and extent in x, within one form and between two, and every rule.
MCAllRequests ==
    {Request(p[1], p[2], NilPointer, 3, dx, y[1], w, y[3], sx, y[2], c) :
       p \in {<<Wide, Wide>>, <<Wide, Small>>, <<Small, Wide>>},
       dx \in -1 .. 7, sx \in -1 .. 6, w \in 0 .. 8, y \in Vertical, c \in Clips}
    \cup
    {Request(Wide, s, h, rule, dx, y[1], 4, 2, sx, y[2], <<0, 0, 7, 3>>) :
       s \in {Wide, Small, NilPointer}, h \in {NilPointer, Striped}, rule \in 0 .. 15,
       dx \in {1, 2}, sx \in {0, 2}, y \in {<<0, 0>>, <<1, 0>>}}

MCXTable == <<0, 2, 3, 4>>

Scan(dx, rightX, text, displaying) ==
    Request(Wide, Small, NilPointer, 3, dx, 1, 0, 2, 0, 0, <<1, 0, 6, 3>>)
      @@ [text |-> text, rightX |-> rightX, displaying |-> displaying]

MCRequests == {Request(Wide, NilPointer, Striped, 3, 5, 0, 2, 1, 0, 0, <<0, 0, 7, 3>>),
               Request(Wide, Small, NilPointer, 6, 0, 1, 3, 2, 1, 0, <<0, 0, 7, 3>>),
               Request(Small, Wide, NilPointer, 3, 1, 0, 3, 2, 2, 1, <<0, 0, 9, 9>>)}

MCScans == {Scan(1, 7, <<1, 2, 3>>, TRUE)}

MCExtents == {<<7, 1>>, <<4, 3>>}

MCCursors == {{<<0, 0>>, <<1, 0>>, <<2, 2>>}}

MCMousePositions == {<<0, 0>>, <<5, 2>>, <<9, 9>>}
=============================================================================

------------------------------- MODULE Display -------------------------------
(***************************************************************************)
(* The display: the primitives of the interpreter that copy bits, scan     *)
(* characters and choose the display and the cursor, and the part of the   *)
(* virtual machine that brings the display form to the screen once per     *)
(* frame (smalltalk.cpp).                                                  *)
(*                                                                         *)
(* Pixels on the screen are counted from its upper left corner.  The main  *)
(* loop computes the offset of the display on the screen at the start of a *)
(* frame; Render does it at its end, as nothing happens in between.        *)
(*                                                                         *)
(* The image is external: it makes the requests of its session, and        *)
(* resizes a form by storing first its extent and then its bits.           *)
(***************************************************************************)
EXTENDS BitBlt

CONSTANTS Forms,            \* forms of the image
          InitialForms,     \* what they are when the machine starts
          AllRequests,      \* bound: the BitBlt requests, of which one may be made
          Requests, Scans,  \* bound: or requests and scans of which several may be made
          Extents,          \* extents to which the image resizes a form
          Cursors,          \* cursor images: sets of pixels of a square of W by W
          MousePositions,   \* where the mouse may be on the screen
          MaxEvents,        \* bound: events
          XTable,           \* the x coordinates of the characters in a font
          StopCharacters,   \* characters with a stop condition
          SnapshotHeight,   \* 100: the height of a display shrunk for a snapshot
          ScreenWidth, ScreenHeight

ASSUME DisplayConstantsOK ==
  /\ NilPointer \notin Forms
  /\ \A f \in Forms : GoodForm(InitialForms[f])
  /\ {SnapshotHeight, ScreenWidth, ScreenHeight} \subseteq Nat

VARIABLES forms,          \* forms of the image
          interpreter,    \* its currentDisplay, with the width and height it was shown with
          vm,             \* the display fields of VirtualMachine
          screen,         \* m_Screen: the colour of each pixel
          drawn,          \* history: the black pixels the image has asked for, per form
          painted,        \* history: the pixels of the display copied to since it was set or resized
          events          \* bound: events so far

vars == <<forms, interpreter, vm, screen, drawn, painted, events>>

Rect(x, y, w, h) == [x |-> x, y |-> y, w |-> w, h |-> h]

RectPixels(r) == (r.x .. r.x + r.w - 1) \X (r.y .. r.y + r.h - 1)

Shifted(p, by) == <<p[1] + by[1], p[2] + by[2]>>

Contents(form) == IF GoodForm(form) THEN BlackPixels(form) ELSE {}

Form(f) == IF f = NilPointer THEN NilPointer ELSE forms[f]

ScreenPixels == (0 .. ScreenWidth - 1) \X (0 .. ScreenHeight - 1)

(***************************************************************************)
(* The virtual machine.                                                    *)
(***************************************************************************)

set_display_size(v, width, height) ==
    IF v.display_width = width /\ v.display_height = height THEN v
    ELSE [v EXCEPT !.display_width = width, !.display_height = height,
                   !.dirty_rect = Rect(0, 0, width, height),
                   !.screen_initialized = TRUE]

\* A bug: a second change in a frame takes the place of the first.
M_display_changedReplaces(v, r) ==
    [v EXCEPT !.texture_needs_update = TRUE, !.dirty_rect = r]

display_changed(v, r) ==
    LET d  == v.dirty_rect
        x1 == Min({d.x, r.x})
        y1 == Min({d.y, r.y})
        x2 == Max({d.x + d.w, r.x + r.w})
        y2 == Max({d.y + d.h, r.y + r.h})
    IN  [v EXCEPT !.texture_needs_update = TRUE,
                  !.dirty_rect = IF d.w = 0 \/ d.h = 0 THEN r
                                 ELSE Rect(x1, y1, x2 - x1, y2 - y1)]

\* The bits to show, or NilPointer when there are none or their number does not fit.
getDisplayBits(i, fs) ==
    IF i.currentDisplay = NilPointer THEN NilPointer
    ELSE IF i.currentDisplayHeight * rasterOf(i.currentDisplayWidth)
              # wordLength(fs[i.currentDisplay]) THEN NilPointer
    ELSE fs[i.currentDisplay].bits

\* The colour of pixel p of the display, given its words.
ColourOf(words, v, p) ==
    IF W - 1 - (p[1] % W) \in words[p[2] * rasterOf(v.display_width) + p[1] \div W]
    THEN "black" ELSE "normal"

\* The screen with the pixels of the display in the domain of colour set to it.
SetPixels(scr, v, colour) ==
    [q \in ScreenPixels |->
       LET p == <<q[1] - v.off_x, q[2] - v.off_y>>
       IN  IF p \in DOMAIN colour THEN colour[p] ELSE scr[q]]

\* The columns that are drawn for a rectangle: whole words that start on the display.
wordsOfRect(v, r) ==
    {p \in (r.x \div W) * W .. ((r.x + r.w - 1) \div W) * W + W - 1 :
       (p \div W) * W < v.display_width}

update_texture(scr, v, words) ==
    LET r == v.dirty_rect
    IN  SetPixels(scr, v,
          [p \in wordsOfRect(v, r) \X {y \in r.y .. r.y + r.h - 1 : y < v.display_height} |->
             ColourOf(words, v, p)])

\* The words that a cursor at x touches, in pixels.
wordsUnder(v, x) ==
    {p \in (x \div W) * W .. ((x + W - 1) \div W) * W + W - 1 : p < v.display_width}

cursorPixels(v, x, y) ==
    {p \in {Shifted(c, <<x, y>>) : c \in v.MyCursorSymbol} :
       p[1] < v.display_width /\ p[2] < v.display_height}

update_cursor(scr, v, words, x, y) ==
    LET background ==
          SetPixels(scr, v,
            [p \in wordsUnder(v, v.prev_x)
                   \X {r \in v.prev_y .. v.prev_y + W - 1 : r < v.display_height} |->
               ColourOf(words, v, p)])
    IN  SetPixels(background, v, [p \in cursorPixels(v, x, y) |-> "cursor"])

Clamped(m, extent) ==
    LET below == IF m >= extent THEN extent - 1 ELSE m
    IN  IF below < 0 THEN 0 ELSE below

offset(screenExtent, displayExtent) ==
    LET middle == (screenExtent - displayExtent) \div 2
    IN  IF middle > displayExtent \div 2 THEN 0 ELSE middle

(***************************************************************************)
(* Initial states.  screen_initialized and dirty_rect have no initial      *)
(* value in the code.                                                      *)
(***************************************************************************)
Init ==
    /\ forms = InitialForms
    /\ interpreter = [currentDisplay |-> NilPointer, currentDisplayWidth |-> 0,
                      currentDisplayHeight |-> 0, currentCursor |-> NilPointer]
    /\ \E initialized \in BOOLEAN, dirty \in {Rect(0, 0, 0, 0), Rect(5, 1, 9, 7)} :
         vm = [display_width |-> 0, display_height |-> 0, dirty_rect |-> dirty,
               texture_needs_update |-> FALSE, screen_initialized |-> initialized,
               MyCursorSymbol |-> {}, prev_x |-> 0, prev_y |-> 0, off_x |-> 0, off_y |-> 0]
    /\ screen = [p \in ScreenPixels |-> "normal"]
    /\ drawn = [f \in Forms |-> Contents(InitialForms[f])]
    /\ painted = {}
    /\ events = 0

\* Bounds: one request of many, or several events.
OnlyEvent == events = 0 /\ events' = MaxEvents

Event == events < MaxEvents /\ events' = events + 1

(***************************************************************************)
(* The primitives.                                                         *)
(***************************************************************************)

\* The interpreter's side of a change of the display form.
Shows(i, form) ==
    \/ i.currentDisplayWidth = form.width /\ i.currentDisplayHeight = form.height
    \/ form.height > SnapshotHeight

updateDisplay(form, r) ==
    IF ~Shows(interpreter, form) THEN UNCHANGED <<interpreter, vm>>
    ELSE /\ interpreter' = [interpreter EXCEPT !.currentDisplayWidth = form.width,
                                               !.currentDisplayHeight = form.height]
         /\ LET v == IF /\ interpreter.currentDisplayWidth = form.width
                        /\ interpreter.currentDisplayHeight = form.height
                     THEN vm ELSE set_display_size(vm, form.width, form.height)
            IN  vm' = IF r.w > 0 /\ r.h > 0 THEN display_changed(v, r) ELSE v

\* Is the screen drawn where the display will be in the next frames?
InPlace(form) == /\ vm.off_x = offset(ScreenWidth, form.width)
                 /\ vm.off_y = offset(ScreenHeight, form.height)

\* The one-word copies to the right within a line, which the code does not do; see Asks.
OneWordToTheRight(r, dest, sameForm) ==
    LET c == clipRange(r, dest, dest)
    IN  sameForm /\ c.dy = c.sy /\ c.dx > c.sx /\ c.w <= W - (c.dx % W)

\* What the image asks to be in dest by r: nothing if a form has the wrong number
\* of words.  For a copy of OneWordToTheRight it is what the code leaves.
Asks(r, dest, source, sameForm, result) ==
    IF ~GoodForm(dest) \/ (source # NilPointer /\ ~GoodForm(source))
         \/ OneWordToTheRight(r, dest, sameForm)
    THEN Contents(result)
    ELSE Asked(r, dest, source, r.halftone)

\* The history variables after copies into form d that covered the pixels cover.
Paints(d, before, cover) ==
    painted' = IF d = interpreter.currentDisplay /\ Shows(interpreter, before)
                    /\ InPlace(before) /\ GoodForm(before)
               THEN painted \cup cover ELSE painted

\* The result of a request r: done is what copyBits answers.
Copied(r, dest, source, done) ==
    LET result == [dest EXCEPT !.bits = done.bits]
    IN  /\ forms' = [forms EXCEPT ![r.destForm] = result]
        /\ drawn' = [drawn EXCEPT ![r.destForm] =
                       Asks(r, dest, source, r.sourceForm = r.destForm, result)]
        /\ IF r.destForm = interpreter.currentDisplay /\ done.updated.w > 0 /\ done.updated.h > 0
           THEN updateDisplay(dest, done.updated)
           ELSE UNCHANGED <<interpreter, vm>>
        /\ Paints(r.destForm, dest, Covered(r, dest, source))

primitiveCopyBits(r) ==
    /\ Copied(r, forms[r.destForm], Form(r.sourceForm),
              copyBits(r, forms[r.destForm], Form(r.sourceForm),
                       r.sourceForm = r.destForm, r.halftone))
    /\ UNCHANGED screen

\* The copies of the characters of a text, up to a stop or to the right margin.
scanCharacters(r) ==
    LET Glyph(q, c) == [q EXCEPT !.sourceX = XTable[c], !.width = XTable[c + 1] - XTable[c]]
        Drawn(s, g, form) ==
          [s EXCEPT !.form  = form,
                    !.asked = Asks(g, s.form, Form(r.sourceForm), FALSE, form),
                    !.cover = @ \cup Covered(g, s.form, Form(r.sourceForm))]
        Draw(s, g) ==
          IF r.displaying
          THEN Drawn(s, g, [s.form EXCEPT !.bits =
                              copyBits(g, s.form, Form(r.sourceForm), FALSE, r.halftone).bits])
          ELSE s
        Advance(s, g) == [s EXCEPT !.r = [g EXCEPT !.destX = @ + g.width]]
        Step(s, c) ==
          IF \/ s.stopped \/ c \in StopCharacters
             \/ s.r.destX + XTable[c + 1] - XTable[c] > r.rightX
          THEN [s EXCEPT !.stopped = TRUE]
          ELSE Advance(Draw(s, Glyph(s.r, c)), Glyph(s.r, c))
    IN  FoldLeft(Step, [r |-> r, form |-> forms[r.destForm], asked |-> drawn[r.destForm],
                        cover |-> {}, stopped |-> FALSE], r.text)

Scanned(r, done) ==
    /\ forms' = [forms EXCEPT ![r.destForm] = done.form]
    /\ drawn' = [drawn EXCEPT ![r.destForm] = done.asked]
    /\ IF r.destForm = interpreter.currentDisplay /\ r.displaying
       THEN updateDisplay(forms[r.destForm], Rect(r.clipX, r.clipY, r.clipWidth, r.clipHeight))
       ELSE UNCHANGED <<interpreter, vm>>
    /\ Paints(r.destForm, forms[r.destForm], done.cover)

\* Assumed of the image: it scans with a clipping rectangle that lies on the form.
\* The primitive reports the rectangle as changed without clipping it.
ClipOnForm(r, form) ==
    RectPixels(Rect(r.clipX, r.clipY, r.clipWidth, r.clipHeight)) \subseteq Pixels(form)

primitiveScanCharacters(r) ==
    /\ Event
    /\ ClipOnForm(r, forms[r.destForm])
    /\ Scanned(r, scanCharacters(r))
    /\ UNCHANGED screen

primitiveBeDisplay(f) ==
    /\ Event
    /\ f # interpreter.currentDisplay
    /\ IF forms[f].height > SnapshotHeight
       THEN /\ vm' = set_display_size(vm, forms[f].width, forms[f].height)
            /\ interpreter' = [interpreter EXCEPT !.currentDisplay = f,
                                                  !.currentDisplayWidth = forms[f].width,
                                                  !.currentDisplayHeight = forms[f].height]
       ELSE /\ interpreter' = [interpreter EXCEPT !.currentDisplay = NilPointer]
            /\ UNCHANGED vm
    /\ painted' = {}
    /\ UNCHANGED <<forms, screen, drawn>>

primitiveBeCursor(c) ==
    /\ Event
    /\ c # interpreter.currentCursor
    /\ interpreter' = [interpreter EXCEPT !.currentCursor = c]
    /\ vm' = [vm EXCEPT !.MyCursorSymbol = c]
    /\ UNCHANGED <<forms, screen, drawn, painted>>

(***************************************************************************)
(* External: the image resizes a form.                                     *)
(***************************************************************************)
Resized(f, form) ==
    /\ Event
    /\ forms' = [forms EXCEPT ![f] = form]
    /\ drawn' = [drawn EXCEPT ![f] = Contents(form)]
    /\ painted' = IF f = interpreter.currentDisplay THEN {} ELSE painted
    /\ UNCHANGED <<interpreter, vm, screen>>

storeExtent(f, e) ==
    /\ GoodForm(forms[f])
    /\ <<forms[f].width, forms[f].height>> # e
    /\ Resized(f, [forms[f] EXCEPT !.width = e[1], !.height = e[2]])

storeBits(f) ==
    /\ ~GoodForm(forms[f])
    /\ Resized(f, [forms[f] EXCEPT !.bits =
                     [i \in 0 .. formWordCount(forms[f].width, forms[f].height) - 1 |-> {}]])

(***************************************************************************)
(* A frame ends.                                                           *)
(***************************************************************************)
\* words are the bits to show, x and y the place of the mouse on the display.
Rendered(words, x, y) ==
    LET shown == vm.screen_initialized /\ words # NilPointer
    IN  /\ screen' =
             IF shown
             THEN update_cursor(IF vm.texture_needs_update THEN update_texture(screen, vm, words)
                                ELSE screen, vm, words, x, y)
             ELSE screen
        /\ vm' = [vm EXCEPT
                    !.texture_needs_update = IF vm.screen_initialized THEN FALSE ELSE @,
                    !.dirty_rect = IF vm.screen_initialized THEN Rect(0, 0, 0, 0) ELSE @,
                    !.prev_x = IF shown THEN x ELSE @,
                    !.prev_y = IF shown THEN y ELSE @,
                    !.off_x  = offset(ScreenWidth, vm.display_width),
                    !.off_y  = offset(ScreenHeight, vm.display_height)]

render(mouse) ==
    /\ Event
    /\ Rendered(getDisplayBits(interpreter, forms),
                Clamped(mouse[1] - vm.off_x, vm.display_width),
                Clamped(mouse[2] - vm.off_y, vm.display_height))
    /\ UNCHANGED <<forms, interpreter, drawn, painted>>

-----------------------------------------------------------------------------
Next == \/ OnlyEvent /\ \E r \in AllRequests : primitiveCopyBits(r)
        \/ Event /\ \E r \in Requests : primitiveCopyBits(r)
        \/ \E r \in Scans : primitiveScanCharacters(r)
        \/ \E f \in Forms : primitiveBeDisplay(f)
        \/ \E c \in Cursors : primitiveBeCursor(c)
        \/ \E f \in Forms, e \in Extents : storeExtent(f, e)
        \/ \E f \in Forms : storeBits(f)
        \/ \E m \in MousePositions : render(m)

Spec == Init /\ [][Next]_vars

-----------------------------------------------------------------------------
(* Properties *)

\* Every field keeps its type, and what is to be drawn lies on the display, as
\* display_changed asserts.
TypeOK ==
    /\ \A f \in Forms : \A i \in DOMAIN forms[f].bits : forms[f].bits[i] \subseteq Bits
    /\ interpreter.currentDisplay \in Forms \cup {NilPointer}
    /\ screen \in [ScreenPixels -> {"normal", "black", "cursor"}]
    /\ \A f \in Forms : drawn[f] \subseteq Pixels(forms[f])
    /\ vm.prev_x \in 0 .. ScreenWidth - 1 /\ vm.prev_y \in 0 .. ScreenHeight - 1
    /\ {vm.texture_needs_update, vm.screen_initialized} \subseteq BOOLEAN
    /\ vm.texture_needs_update =>
         RectPixels(vm.dirty_rect) \subseteq
           (0 .. vm.display_width - 1) \X (0 .. vm.display_height - 1)

\* copyBits works on words, with a shifter, edge masks, a direction per overlap and a
\* halftone; what it leaves is, pixel by pixel, the combination of what source and
\* destination were, inside the clipped rectangle and nowhere else.
DrawnAsAsked ==
    \A f \in Forms : GoodForm(forms[f]) => BlackPixels(forms[f]) = drawn[f]

\* A pixel that the image has copied to is on the screen as it is in the display form,
\* or lies under the cursor as last drawn, or will be drawn at the end of this frame:
\* no change is lost between copyBits, the union of the dirty rectangles, the words
\* drawn and the background the cursor leaves behind.
PaintedReachesScreen ==
    LET words == getDisplayBits(interpreter, forms)
    IN  \A p \in painted :
          \/ vm.texture_needs_update /\ p \in RectPixels(vm.dirty_rect)
          \/ screen[Shifted(p, <<vm.off_x, vm.off_y>>)] = ColourOf(words, vm, p)
          \/ /\ screen[Shifted(p, <<vm.off_x, vm.off_y>>)] = "cursor"
             /\ p[1] \in vm.prev_x .. vm.prev_x + W - 1
             /\ p[2] \in vm.prev_y .. vm.prev_y + W - 1

\* No change of the display is lost, and none is to be drawn outside of it.
CopiesReachScreen == TypeOK /\ PaintedReachesScreen

=============================================================================

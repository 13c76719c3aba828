------------------------------- MODULE BitBlt -------------------------------
(***************************************************************************)
(* BitBlt::copyBits: a rectangle of one form is combined, word by word,    *)
(* with a rectangle of another or of the same form.                        *)
(*                                                                         *)
(* A word is the set of the numbers of its bits that are 1; the leftmost   *)
(* of its pixels is bit W - 1.  A form is a record of its width, its       *)
(* height and its words, numbered from 0.  The instance variables of the   *)
(* C++ object are the fields of a record b, which each of its methods      *)
(* extends.                                                                *)
(***************************************************************************)
EXTENDS Integers, SequencesExt, TLC

CONSTANTS W,           \* bits in a word, 16 in the code
          NilPointer   \* a form that is not there

ASSUME WAssumption == W \in Nat \ {0, 1}

Bits == 0 .. W - 1

Word == SUBSET Bits

AllOnes == Bits

RightMasks(n) == 0 .. n - 1

bitInvert(w) == Bits \ w

rotateLeft(w, n) == {(b + n) % W : b \in w}

rasterOf(width) == (width + W - 1) \div W

formWordCount(width, height) == rasterOf(width) * height

wordLength(form) == Cardinality(DOMAIN form.bits)

GoodForm(form) == formWordCount(form.width, form.height) = wordLength(form)

merge_with(combinationRule, source, dest) ==
    CASE combinationRule = 0  -> {}
      [] combinationRule = 1  -> source \cap dest
      [] combinationRule = 2  -> source \ dest
      [] combinationRule = 3  -> source
      [] combinationRule = 4  -> dest \ source
      [] combinationRule = 5  -> dest
      [] combinationRule = 6  -> (source \ dest) \cup (dest \ source)
      [] combinationRule = 7  -> source \cup dest
      [] combinationRule = 8  -> bitInvert(source) \ dest
      [] combinationRule = 9  -> bitInvert((source \ dest) \cup (dest \ source))
      [] combinationRule = 10 -> bitInvert(dest)
      [] combinationRule = 11 -> source \cup bitInvert(dest)
      [] combinationRule = 12 -> bitInvert(source)
      [] combinationRule = 13 -> bitInvert(source) \cup dest
      [] combinationRule = 14 -> bitInvert(source) \cup bitInvert(dest)
      [] combinationRule = 15 -> AllOnes

-----------------------------------------------------------------------------
(* Clipping.  clipRange treats x and y alike: on each axis a is the place d *)
(* in the destination, the place s in the source and the extent n.         *)

fromStart(a, start) ==
    IF a.d >= start THEN a
    ELSE [d |-> start, s |-> a.s + (start - a.d), n |-> a.n - (start - a.d)]

upTo(a, end) == IF a.d + a.n > end THEN [a EXCEPT !.n = end - a.d] ELSE a

intoSource(a) ==
    IF a.s < 0 THEN [d |-> a.d - a.s, s |-> 0, n |-> a.n + a.s] ELSE a

withinSource(a, size) == IF a.s + a.n > size THEN [a EXCEPT !.n = size - a.s] ELSE a

\* The clipping range, from clip, is cut to the destination; a source of extent
\* sourceSize cuts the copy further.
clipAxis(a, clip, clipExtent, destSize, hasSource, sourceSize) ==
    LET inClip == upTo(fromStart(a, Max({clip, 0})), Min({clip + clipExtent, destSize}))
    IN  IF hasSource THEN withinSource(intoSource(inClip), sourceSize) ELSE inClip

\* The clipped rectangle of request r on the form dest from the form source (or NilPointer).
clipRange(r, dest, source) ==
    LET Rectangle(x, y) == [dx |-> x.d, sx |-> x.s, w |-> x.n, dy |-> y.d, sy |-> y.s, h |-> y.n]
        hasSource == source # NilPointer
    IN  Rectangle(clipAxis([d |-> r.destX, s |-> r.sourceX, n |-> r.width],
                           r.clipX, r.clipWidth, dest.width,
                           hasSource, IF hasSource THEN source.width ELSE 0),
                  clipAxis([d |-> r.destY, s |-> r.sourceY, n |-> r.height],
                           r.clipY, r.clipHeight, dest.height,
                           hasSource, IF hasSource THEN source.height ELSE 0))

-----------------------------------------------------------------------------
(* Skew, edge masks, direction and offsets.                                *)

\* A bug: the book's formula, whose -1 // 16 is 0 in C: a first word that is filled
\* exactly is followed by another.
M_wordsAsInBook(w, startBits) ==
    IF w < startBits THEN 1
    ELSE IF w = startBits THEN 2 ELSE (w - startBits - 1) \div W + 2

\* The words of one line of the destination, of which the first has startBits bits.
wordsPerLine(w, startBits) ==
    IF w < startBits THEN 1 ELSE (w - startBits + W - 1) \div W + 1

computeMasks(b) ==
    LET skew      == (b.sx - b.dx) % W
        startBits == W - (b.dx % W)
        endBits   == W - 1 - ((b.dx + b.w - 1) % W)
        first     == RightMasks(startBits)
        last      == bitInvert(RightMasks(endBits))
        single    == b.w < startBits
    IN  [skew     |-> skew,
         skewMask |-> IF skew = 0 THEN {} ELSE RightMasks(W - skew),
         mask1    |-> IF single THEN first \cap last ELSE first,
         mask2    |-> IF single THEN {} ELSE last,
         nWords   |-> wordsPerLine(b.w, startBits)]

\* A copy within one form starts at the end that is not overwritten too early.
checkOverlap(b, m, sameForm) ==
    LET up       == sameForm /\ b.dy > b.sy
        backward == sameForm /\ b.dy = b.sy /\ b.dx > b.sx
    IN  [hDir |-> IF backward THEN -1 ELSE 1,
         vDir |-> IF up THEN -1 ELSE 1,
         sy   |-> IF up THEN b.sy + b.h - 1 ELSE b.sy,
         dy   |-> IF up THEN b.dy + b.h - 1 ELSE b.dy,
         sx   |-> IF backward THEN b.sx + b.w - 1 ELSE b.sx,
         dx   |-> IF backward THEN b.dx + b.w - 1 ELSE b.dx,
         h    |-> b.h, skew |-> m.skew, nWords |-> m.nWords,
         skewMask |-> IF backward THEN bitInvert(m.skewMask) ELSE m.skewMask,
         mask1    |-> IF backward THEN m.mask2 ELSE m.mask1,
         mask2    |-> IF backward THEN m.mask1 ELSE m.mask2]

calculateOffsets(b, dest, source) ==
    LET hasSource    == source # NilPointer
        sourceRaster == IF hasSource THEN rasterOf(source.width) ELSE 0
        destRaster   == rasterOf(dest.width)
        needed       == hasSource /\ b.skew # 0 /\ b.skew <= b.sx % W
        preload      == IF b.hDir < 0 THEN ~needed ELSE needed
    IN  [preload      |-> preload,
         sourceRaster |-> sourceRaster,
         sourceIndex  |-> b.sy * sourceRaster + b.sx \div W,
         destIndex    |-> b.dy * destRaster + b.dx \div W,
         sourceDelta  |-> sourceRaster * b.vDir - (b.nWords + (IF preload THEN 1 ELSE 0)) * b.hDir,
         destDelta    |-> destRaster * b.vDir - b.nWords * b.hDir]

-----------------------------------------------------------------------------
(* The copy.  st holds the words of the destination so far and the local   *)
(* variables of copyLoop; stopped stands for its return.                   *)

copyWord(b, r, hasSource, source, halftoneWord, st, word) ==
    LET thisWord ==
          IF word <= b.sourceRaster /\ st.sourceIndex \in DOMAIN source
          THEN source[st.sourceIndex] ELSE st.thisWord
        skewWord ==
          IF hasSource
          THEN rotateLeft((st.prevWord \cap b.skewMask) \cup (thisWord \ b.skewMask), b.skew)
          ELSE halftoneWord
        mergeMask == CASE word = 1 -> b.mask1
                       [] word > 1 /\ word = b.nWords -> b.mask2
                       [] OTHER -> AllOnes
        destWord  == st.words[st.destIndex]
        mergeWord == merge_with(r.combinationRule, skewWord \cap halftoneWord, destWord)
    IN  IF st.stopped \/ st.destIndex >= Cardinality(DOMAIN st.words)
        THEN [st EXCEPT !.stopped = TRUE]
        ELSE [st EXCEPT
               !.words[st.destIndex] = (mergeMask \cap mergeWord) \cup (destWord \ mergeMask),
               !.thisWord    = IF hasSource THEN thisWord ELSE @,
               !.prevWord    = IF hasSource THEN thisWord ELSE @,
               !.sourceIndex = @ + b.hDir,
               !.destIndex   = @ + b.hDir]

\* The halftone pattern repeats every W lines, which are words of its form.
halftoneAt(halftone, y) == IF halftone = NilPointer THEN AllOnes ELSE halftone[y % W]

\* sourceWords answers the words of the source, which change when it is the destination.
copyLine(b, r, halftone, hasSource, sameForm, sourceWords, st, i) ==
    LET Source(words) == IF sameForm THEN words ELSE sourceWords
        loaded == IF b.preload
                  THEN [st EXCEPT !.prevWord = Source(st.words)[st.sourceIndex],
                                  !.sourceIndex = @ + b.hDir]
                  ELSE [st EXCEPT !.prevWord = {}]
        WordStep(s, word) ==
          copyWord(b, r, hasSource, Source(s.words), halftoneAt(halftone, b.dy + (i - 1) * b.vDir), s, word)
        line == FoldLeft(WordStep, loaded, [word \in 1 .. b.nWords |-> word])
    IN  [line EXCEPT !.sourceIndex = @ + b.sourceDelta, !.destIndex = @ + b.destDelta]

\* The words of dest after the copy loop.
copyLoop(b, r, dest, source, sameForm, halftone) ==
    LET hasSource == source # NilPointer
        start == [words |-> dest.bits, sourceIndex |-> b.sourceIndex, destIndex |-> b.destIndex,
                  prevWord |-> {}, thisWord |-> {}, stopped |-> FALSE]
        LineStep(st, i) ==
          copyLine(b, r, halftone, hasSource, sameForm,
                   IF hasSource THEN source.bits ELSE <<>>, st, i)
    IN  FoldLeft(LineStep, start, [i \in 1 .. b.h |-> i]).words

\* The words that copyBits leaves in dest, and the bounds that it reports.
copyBits(r, dest, source, sameForm, halftone) ==
    LET Bad == (source # NilPointer /\ ~GoodForm(source)) \/ ~GoodForm(dest)
        Loop(o) == copyLoop(calculateOffsets(o, dest, source) @@ o, r, dest, source, sameForm, halftone)
        Copy(c) ==
          IF c.w > 0 /\ c.h > 0
          THEN [updated |-> [x |-> c.dx, y |-> c.dy, w |-> c.w, h |-> c.h],
                bits    |-> IF Bad THEN dest.bits
                            ELSE Loop(checkOverlap(c, computeMasks(c), sameForm))]
          ELSE [updated |-> [x |-> 0, y |-> 0, w |-> 0, h |-> 0], bits |-> dest.bits]
    IN  Copy(clipRange(r, dest, source))

-----------------------------------------------------------------------------
(* What a copy means, pixel by pixel.                                      *)

Pixels(form) == (0 .. form.width - 1) \X (0 .. form.height - 1)

\* Is the pixel at p of a form black?
Black(form, p) ==
    W - 1 - (p[1] % W) \in form.bits[p[2] * rasterOf(form.width) + p[1] \div W]

BlackPixels(form) == {p \in Pixels(form) : Black(form, p)}

\* The pixels of dest that lie in the rectangle asked for, in the clipping
\* rectangle and, moved there, in the source.
Covered(r, dest, source) ==
    {p \in Pixels(dest) :
       /\ p[1] \in r.destX .. r.destX + r.width - 1
       /\ p[2] \in r.destY .. r.destY + r.height - 1
       /\ p[1] \in r.clipX .. r.clipX + r.clipWidth - 1
       /\ p[2] \in r.clipY .. r.clipY + r.clipHeight - 1
       /\ \/ source = NilPointer
          \/ /\ p[1] - r.destX + r.sourceX \in 0 .. source.width - 1
             /\ p[2] - r.destY + r.sourceY \in 0 .. source.height - 1}

\* A combination rule is the truth table of source and destination.
Combined(rule, source, dest) ==
    LET row == CASE  source /\  dest -> 1
                 []  source /\ ~dest -> 2
                 [] ~source /\  dest -> 4
                 [] OTHER            -> 8
    IN  (rule \div row) % 2 = 1

\* The black pixels that a copy is to leave in dest.
Asked(r, dest, source, halftone) ==
    LET cover == Covered(r, dest, source)
        Paint(p) ==
          /\ source # NilPointer =>
               Black(source, <<p[1] - r.destX + r.sourceX, p[2] - r.destY + r.sourceY>>)
          /\ W - 1 - (p[1] % W) \in halftoneAt(halftone, p[2])
    IN  {p \in Pixels(dest) :
           IF p \in cover THEN Combined(r.combinationRule, Paint(p), Black(dest, p))
                          ELSE Black(dest, p)}

=============================================================================

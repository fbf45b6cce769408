------------------------------ MODULE Picture ------------------------------
(***************************************************************************)
(* The picture of rmosdlib/rmimage256.c.  It is one block of memory: the   *)
(* entries of the palette, then the pixels, row after row.  Every drawing  *)
(* call takes coordinates that may lie outside of the picture, and has its *)
(* own tests to draw only what lies inside; a point that passes them by    *)
(* mistake lands in the next row, or in the palette.  `plane' is what the  *)
(* same calls draw on a plane without edges.                               *)
(***************************************************************************)
EXTENDS Integers, Sequences

CONSTANTS W, H,          \* the size of the picture
          NPal,          \* entries of the palette (256)
          Colours,       \* what is asked for, 256 among it
          PicXs, PicYs, PicLs,      \* arguments: positions and lengths
          Bits,          \* bitmaps: rows, bottom first, of bits
          RealWidths,
          Texts,         \* strings: sequences of glyphs, rows of bits
          Bwid,          \* width of a border
          MaxDraws       \* bound on the calls

VARIABLES mem,           \* the block: palette and pixels
          plane,         \* history: the drawing without edges
          entries,       \* history: the palette as it was set
          nearEdge,      \* history: a border was drawn at a glyph outside of the picture
          draws

picvars == <<mem, plane, entries, nearEdge, draws>>

Valid(c) == c >= 0 /\ c <= 255
Inside(x, y) == x >= 0 /\ x < W /\ y >= 0 /\ y < H
At(x, y) == NPal + x + y * W
Around == (-4 .. W + 3) \X (-4 .. H + 3)

Draw == draws < MaxDraws /\ draws' = draws + 1

\* f is the colour of each point drawn: by the code, and on the plane.
Paint(f, pts) ==
    mem' = [m \in DOMAIN mem |->
        IF \E p \in pts : At(p[1], p[2]) = m
        THEN f[CHOOSE p \in pts : At(p[1], p[2]) = m] ELSE mem[m]]
OnPlane(f) == plane' = [p \in Around |-> IF p \in DOMAIN f THEN f[p] ELSE plane[p]]
All(pts, c) == [p \in pts |-> c]

----------------------------------------------------------------------------
\* (int) of a quotient.
Trunc(a, b) == IF a >= 0 THEN a \div b ELSE -((-a) \div b)

\* A line that is wider than high has one point in each column, another one in
\* each row; the end is left out, and a negative extent draws nothing.
LinePoints(x, y, xl, yl) ==
    IF xl >= yl THEN {<<x + j, Trunc(yl * j, xl) + y>> : j \in 0 .. xl - 1}
                ELSE {<<Trunc(xl * j, yl) + x, y + j>> : j \in 0 .. yl - 1}

img_line(x, y, xl, yl, c) ==
    LET pts == IF Valid(c) THEN LinePoints(x, y, xl, yl) ELSE {} IN
    /\ Draw /\ Paint(All(pts, c), {p \in pts : Inside(p[1], p[2])})
    /\ OnPlane(All(pts, c)) /\ UNCHANGED <<entries, nearEdge>>

Area(x, y, xl, yl) == (x .. x + xl - 1) \X (y .. y + yl - 1)

\* The lower and the right edge lie beyond the rectangle.
Outline(x, y, xl, yl) ==
    (x .. x + xl - 1) \X {y, y + yl} \cup {x, x + xl} \X (y .. y + yl - 1)

\* Mutant: the right end of a row is not tested.
InRow(x, y) == x >= 0 /\ y >= 0 /\ y < H

\* The tests of the fill and of the four edges.
RectInside(x, y) == (y >= 0 /\ y < H) /\ (x >= 0 /\ x < W)

img_rectangle(x, y, xl, yl, c, fill) ==
    LET shape == IF fill THEN Area(x, y, xl, yl) ELSE Outline(x, y, xl, yl)
        pts == IF Valid(c) THEN shape ELSE {}
    IN
    /\ Draw /\ Paint(All(pts, c), {p \in pts : RectInside(p[1], p[2])})
    /\ OnPlane(All(pts, c)) /\ UNCHANGED <<entries, nearEdge>>

img_atob(x, y, xl, yl, a, b) ==
    LET on == {p \in Area(x, y, xl, yl) : Inside(p[1], p[2]) /\ mem[At(p[1], p[2])] = a} IN
    /\ Draw /\ Paint(All(on, b), on)
    /\ OnPlane(All({p \in Area(x, y, xl, yl) \cap Around : plane[p] = a}, b))
    /\ UNCHANGED <<entries, nearEdge>>

\* The whole of a picture, one of a colour in each row, into this one.
img_paste(x, y, xl, yl) ==
    LET f == [p \in Area(x, y, xl, yl) |-> p[2] - y] IN
    /\ Draw /\ Paint(f, {p \in DOMAIN f : Inside(p[1], p[2])})
    /\ OnPlane(f) /\ UNCHANGED <<entries, nearEdge>>

\* Points that are not of a glyph and have one at a distance of at most bw.
Near(p) == {q \in (p[1] - Bwid .. p[1] + Bwid) \X (p[2] - Bwid .. p[2] + Bwid) :
               LET d == (IF q[1] > p[1] THEN q[1] - p[1] ELSE p[1] - q[1])
                      + (IF q[2] > p[2] THEN q[2] - p[2] ELSE p[2] - q[2])
               IN d > 0 /\ d <= Bwid}

\* What is outside of the picture has no border around it.
img_border(x, y, xl, yl, fc, bc) ==
    LET edge(p) == /\ mem[At(p[1], p[2])] \notin {fc, bc}
                   /\ \E q \in Near(p) : Inside(q[1], q[2]) /\ mem[At(q[1], q[2])] = fc
        on == {p \in Area(x, y, xl, yl) : Inside(p[1], p[2]) /\ edge(p)}
        ideal == {p \in Area(x, y, xl, yl) \cap Around :
                     /\ plane[p] \notin {fc, bc}
                     /\ \E q \in Near(p) \cap Around : plane[q] = fc}
    IN
    /\ Draw /\ fc # bc /\ Paint(All(on, bc), on) /\ OnPlane(All(ideal, bc))
    /\ nearEdge' = (nearEdge \/ \E p \in Around : ~Inside(p[1], p[2]) /\ plane[p] = fc)
    /\ UNCHANGED entries

\* The bits of a bitmap, the last of its rows on top.  One column more than
\* its real width is drawn.
img_packedBitmap(x, y, c, b, bits, rw) ==
    LET n == Len(bits)
        cols == {k \in 0 .. Len(bits[1]) - 1 : k <= rw}
        f == [p \in {<<x + k, y + r>> : k \in cols, r \in 0 .. n - 1} |->
                 IF bits[n - (p[2] - y)][p[1] - x + 1] = 1 THEN c ELSE b]
    IN
    /\ Draw /\ Paint(f, {p \in DOMAIN f : Inside(p[1], p[2])})
    /\ OnPlane(f) /\ UNCHANGED <<entries, nearEdge>>

\* Where the glyphs of a text begin: each takes its width and the space.
Offset(text, scale, space) ==
    LET at[i \in 1 .. Len(text)] ==
            IF i = 1 THEN 0 ELSE at[i - 1] + Len(text[i - 1][1]) * scale + space
    IN at

\* Every bit of a glyph is a square of scale by scale points.
img_drawText(x, y, c, b, scale, space, text) ==
    LET off == Offset(text, scale, space)
        square(i, r, k) ==
            Area(x + off[i] + (k - 1) * scale, y + (r - 1) * scale, scale, scale)
        cells == UNION {{<<i, r, k>> : r \in DOMAIN text[i], k \in DOMAIN text[i][1]} :
                           i \in DOMAIN text}
        pts == UNION {square(t[1], t[2], t[3]) : t \in cells}
        f == [p \in pts |->
                 LET t == CHOOSE t \in cells : p \in square(t[1], t[2], t[3])
                 IN IF text[t[1]][t[2]][t[3]] = 1 THEN c ELSE b]
    IN
    /\ Draw /\ Paint(f, {p \in DOMAIN f : Inside(p[1], p[2])})
    /\ OnPlane(f) /\ UNCHANGED <<entries, nearEdge>>

\* An entry of the palette, by colour, RGB or YUV.  It has 256 of them.
img_setPalette(e, c) ==
    /\ Draw
    /\ mem' = IF e >= 0 /\ e <= NPal - 1 THEN [mem EXCEPT ![e] = c] ELSE mem
    /\ entries' = [k \in DOMAIN entries |-> IF k = e THEN c ELSE entries[k]]
    /\ UNCHANGED <<plane, nearEdge>>

img_loadPalette(pal) ==
    /\ Draw
    /\ mem' = [m \in DOMAIN mem |-> IF m < NPal THEN pal[m] ELSE mem[m]]
    /\ entries' = pal /\ UNCHANGED <<plane, nearEdge>>

----------------------------------------------------------------------------
PicInit ==
    /\ mem = [m \in 0 .. NPal + W * H - 1 |-> 0]
    /\ plane = [p \in Around |-> 0] /\ entries = [e \in 0 .. NPal - 1 |-> 0]
    /\ nearEdge = FALSE /\ draws = 0

PicNext ==
    \/ \E x \in PicXs, y \in PicYs, xl \in PicLs, yl \in PicLs :
           \/ \E c \in Colours : \/ img_line(x, y, xl, yl, c)
                                 \/ \E fill \in BOOLEAN : img_rectangle(x, y, xl, yl, c, fill)
           \/ img_atob(x, y, xl, yl, 1, 2) \/ img_border(x, y, xl, yl, 1, 3)
           \/ xl > 0 /\ yl > 0 /\ img_paste(x, y, xl, yl)
    \/ \E x \in PicXs, y \in PicYs :
           \/ \E bits \in Bits, rw \in RealWidths : img_packedBitmap(x, y, 1, 0, bits, rw)
           \/ \E text \in Texts, scale \in {1, 2}, space \in {0, 1} :
                  img_drawText(x, y, 1, 0, scale, space, text)
    \/ \E e \in {-1, 0, NPal - 1, NPal}, c \in Colours : img_setPalette(e, c)
    \/ img_loadPalette([e \in 0 .. NPal - 1 |-> e])

----------------------------------------------------------------------------
\* Whatever has been drawn, the picture is the part of the drawing that lies on
\* it, and the palette is as it was set: no call writes past an edge.
Clipped ==
    /\ ~nearEdge => \A x \in 0 .. W - 1, y \in 0 .. H - 1 : mem[At(x, y)] = plane[<<x, y>>]
    /\ \A e \in 0 .. NPal - 1 : mem[e] = entries[e]
=============================================================================

------------------------------- MODULE Lyrics -------------------------------
(***************************************************************************)
(* The lyrics on the screen (lyrics_osd/lyrics_osd.c): the song file       *)
(* (koklib/koklib.c), the thread that draws it and the picture it draws    *)
(* into (rmosdlib/rmimage256.c, rmosdlib/rmosdlib.c).  Two rows show one   *)
(* sentence each; a sentence is drawn, then coloured from the left as it   *)
(* is sung, syllable by syllable, and erased before the next one or after  *)
(* a while.  A row of the picture is one line of pixels: blank, glyph and  *)
(* border, the latter two before and after they are sung.                  *)
(***************************************************************************)
EXTENDS Integers, Sequences

CONSTANTS Songs,        \* the files: sequences of sentences
          Realsizes,    \* the height of a character; it is half as wide
          Width,        \* of the picture, in pixels
          Delays,       \* milliseconds an iteration may take
          ClearTime,    \* iterations after which a sung sentence goes (20)
          MaxTm,        \* bound: the clock stands still at it
          MaxLyrCalls   \* bound on the calls of the control thread

VARIABLES lptr,         \* the sentences in memory, or none
          lineNo,       \* header.lyricspara
          kidx,         \* koklib's position for each row
          row,          \* what the thread keeps of each row
          img,          \* the picture: pixels of each row
          screen,       \* "off", "banner" or the picture that is shown
          tm, update, clear, tcnt,
          turn,         \* where the thread is
          terminate, thrwait, have_thr, can_restart,
          ctl,          \* the call of the control thread that waits
          lyrcalls,
          stale,        \* the thread's sentences have been freed
          torn          \* history: it has read one of them

koklib == <<lptr, lineNo, kidx>>
picture == <<img, screen>>
clock == <<tm, update, clear, tcnt>>
control == <<thrwait, have_thr, can_restart, ctl, lyrcalls>>
history == <<stale, torn>>
lyrvars == <<koklib, row, picture, clock, turn, terminate, control, history>>

Rows == {0, 1}
NoSentence == [none |-> TRUE]
Bw == 3                                 \* border width
Fw == Realsizes \div 2                  \* font width
InitStep == Fw \div 3

----------------------------------------------------------------------------
(* The picture.  What is drawn outside of it is cut off.                   *)

Span(x, n) == {c \in x .. x + n - 1 : c \in 0 .. Width - 1}
Blank == [c \in 0 .. Width - 1 |-> "0"]

rectangle(p, x, n) == [c \in DOMAIN p |-> IF c \in Span(x, n) THEN "0" ELSE p[c]]
atob(p, x, n, a, b) ==
    [c \in DOMAIN p |-> IF c \in Span(x, n) /\ p[c] = a THEN b ELSE p[c]]

\* Bytes of a bitmap that is w pixels wide: a multiple of four.
BytesWide(w) == IF (w * 25) % 800 = 0 THEN w \div 8 ELSE ((w \div 8) \div 4 + 1) * 4

\* The first w bits are set.  One more column than w is drawn.
packedBitmap(p, x, w) ==
    [c \in DOMAIN p |-> IF c \in Span(x, w) THEN "f"
                        ELSE IF c = x + w /\ BytesWide(w) * 8 > w THEN "0"
                        ELSE p[c]]

\* What is near a glyph becomes border.
border(p, x, n) ==
    [c \in DOMAIN p |->
        IF /\ c \in Span(x, n) /\ p[c] \notin {"f", "b"}
           /\ \E d \in 1 .. Bw : \/ c + d \in DOMAIN p /\ p[c + d] = "f"
                                 \/ c - d \in DOMAIN p /\ p[c - d] = "f"
        THEN "b" ELSE p[c]]

----------------------------------------------------------------------------
(* koklib.                                                                 *)

\* An entry that was never read from the file.
Zeros == [updown |-> 0, division |-> 0, time |-> <<0, 0, 0, 0>>, jump |-> <<0, 0, 0, 0>>,
          xoffset |-> 0, length |-> 0]

\* The sentences of row i from a position on.
NextOf(i, from) == {k \in from + 1 .. lineNo : lptr[k].updown = i}

kok_get(i, from) ==
    IF lptr = <<>> \/ NextOf(i, from) = {}
    THEN [pos |-> lineNo, lyr |-> NoSentence]
    ELSE LET k == CHOOSE k \in NextOf(i, from) : \A j \in NextOf(i, from) : k <= j
         IN [pos |-> k, lyr |-> lptr[k]]

\* A file that cannot be opened leaves nothing.  One that is cut off leaves zeros
\* for the sentences it lacks, and the old header if it lacks that.
kok_load(s) ==
    \/ lptr' = <<>> /\ UNCHANGED lineNo
    \/ \E k \in DOMAIN s \cup {0} :
           /\ lptr' = [j \in DOMAIN s |-> IF j <= k THEN s[j] ELSE Zeros]
           /\ lineNo' = Len(s)
    \/ lineNo > 0 /\ lptr' = [j \in 1 .. lineNo |-> Zeros] /\ UNCHANGED lineNo

----------------------------------------------------------------------------
(* The calls of the control thread.                                        *)

Alive == turn \in {"waits", "row0", "row1", "show"}
Call == ctl = "idle" /\ lyrcalls < MaxLyrCalls /\ lyrcalls' = lyrcalls + 1

\* lyr_stop, as far as it does not wait.
Stops(begun) ==
    /\ terminate' = IF begun /\ have_thr = 1 THEN 1 ELSE terminate
    /\ thrwait' = IF begun /\ have_thr = 1 THEN 0 ELSE thrwait

\* lyr_init loads the song first, and stops the thread of the last one then.
lyr_init == \E s \in Songs :
    /\ Call /\ kok_load(s)
    /\ stale' = Alive
    /\ Stops(lptr' # <<>>)
    /\ ctl' = IF lptr' = <<>> THEN "idle" ELSE "init"
    /\ UNCHANGED <<kidx, row, picture, clock, turn, have_thr, can_restart, torn>>

Creates ==
    /\ turn' = "new" /\ thrwait' = 1 /\ have_thr' = 1 /\ terminate' = 0
    /\ stale' = FALSE
    /\ UNCHANGED <<koklib, row, picture, clock, torn>>

\* The rest of lyr_init, when the last thread has ended.
InitCreates ==
    /\ ctl = "init" /\ have_thr = 0
    /\ Creates /\ can_restart' = 1 /\ ctl' = "idle" /\ UNCHANGED lyrcalls

lyr_reinit ==
    /\ Call /\ can_restart = 1 /\ have_thr = 0
    /\ Creates /\ UNCHANGED <<can_restart, ctl>>

lyr_start ==
    /\ Call /\ thrwait = 1 /\ thrwait' = 0
    /\ UNCHANGED <<koklib, row, picture, clock, turn, terminate, have_thr, can_restart, ctl, history>>

lyr_abort ==
    /\ Call /\ terminate' = 1
    /\ UNCHANGED <<koklib, row, picture, clock, turn, thrwait, have_thr, can_restart, ctl,
                   stale, torn>>

lyr_stop ==
    /\ Call /\ have_thr = 1
    /\ Stops(TRUE) /\ ctl' = "stop"
    /\ UNCHANGED <<koklib, row, picture, clock, turn, have_thr, can_restart, stale, torn>>

StopJoins ==
    /\ ctl = "stop" /\ have_thr = 0 /\ ctl' = "idle"
    /\ UNCHANGED <<koklib, row, picture, clock, turn, terminate, thrwait, have_thr, can_restart,
                   lyrcalls, history>>

----------------------------------------------------------------------------
(* The thread, lyrsvc_main.                                                *)

NewRow(g) ==
    [st |-> 0, lyr |-> g.lyr, pos |-> g.pos, sx |-> 0, lw |-> 0, ii |-> 0, division |-> 0,
     r1 |-> 0, step |-> 0, from |-> 0, to |-> 0, cls |-> 0, lstop |-> 0]

\* It clears the picture and gets the first sentence of each row.
Prepares ==
    LET first == [i \in Rows |-> kok_get(i, 0)] IN
    /\ turn = "new" /\ turn' = "waits"
    /\ row' = [i \in Rows |-> NewRow(first[i])]
    /\ kidx' = [i \in Rows |-> first[i].pos]
    /\ img' = [i \in Rows |-> Blank]
    /\ tm' = 0 /\ update' = 0 /\ clear' = 0 /\ tcnt' = 0
    /\ UNCHANGED <<lptr, lineNo, screen, terminate, control, history>>

\* start has been called: the banner is shown.
Opens ==
    /\ turn = "waits" /\ thrwait = 0
    /\ turn' = "row0" /\ screen' = "banner"
    /\ UNCHANGED <<koklib, row, img, clock, terminate, control, history>>

Ends ==
    /\ turn = "row0" /\ terminate = 1
    /\ turn' = "ended" /\ screen' = "off" /\ have_thr' = 0 /\ terminate' = 0
    /\ UNCHANGED <<koklib, row, img, clock, thrwait, can_restart, ctl, lyrcalls, history>>

\* The turn of row i, in a round that begins with the test of terminate.
Turn(i) ==
    /\ turn = IF i = 0 THEN "row0" ELSE "row1"
    /\ i = 0 => terminate = 0
    /\ turn' = IF i = 0 THEN "row1" ELSE "show"

\* A sentence that lyr_init has freed is read.
Tears(i) ==
    /\ Turn(i) /\ stale /\ row[i].lyr # NoSentence /\ torn' = TRUE
    /\ UNCHANGED <<koklib, row, picture, clock, terminate, control, stale>>

Reads(i) ==
    /\ Turn(i) /\ row[i].lyr # NoSentence /\ ~stale
    /\ UNCHANGED <<lptr, lineNo, screen, tm, tcnt, terminate, control, stale, torn>>

\* Both rows have run out of sentences, and nothing is left to erase: the end.
RunsOut(i) ==
    LET n == IF row[i].lstop = 0 THEN tcnt + 1 ELSE tcnt IN
    /\ Turn(i) /\ row[i].lyr = NoSentence
    /\ tcnt' = n /\ row' = [row EXCEPT ![i].lstop = 1]
    /\ terminate' = IF n = 2 /\ clear = 0 THEN 1 ELSE terminate
    /\ UNCHANGED <<koklib, picture, tm, update, clear, control, history>>

\* The time, in milliseconds, of syllable k (from 0).
At(l, k) == l.time[k + 1] * 100

Erased(i) == rectangle(img[i], row[i].sx - Bw, row[i].lw)

\* Mutant: the rectangle to erase is as wide as the glyphs, without their border.
AppearsNarrow(i) ==
    LET l == row[i].lyr
        w == (l.length * Realsizes) \div 2
        x == 4 + l.xoffset
        p == IF row[i].cls = 1 THEN Erased(i) ELSE img[i]
    IN
    /\ Reads(i) /\ row[i].st = 0 /\ At(l, 0) - 2500 <= tm
    /\ img' = [img EXCEPT ![i] = border(packedBitmap(p, x, w), x - Bw, w + 2 * Bw)]
    /\ row' = [row EXCEPT ![i] = [@ EXCEPT !.st = 1, !.cls = 0, !.sx = x, !.lw = w,
                                           !.division = l.division, !.ii = 0, !.r1 = 0,
                                           !.from = 0, !.to = 0]]
    /\ update' = 1
    /\ UNCHANGED <<kidx, clear>>

\* State 0: the sentence is drawn 2.5 seconds ahead, in place of the last one.
Appears(i) ==
    LET l == row[i].lyr
        w == (l.length * Realsizes) \div 2
        x == 4 + l.xoffset
        p == IF row[i].cls = 1 THEN Erased(i) ELSE img[i]
    IN
    /\ Reads(i) /\ row[i].st = 0 /\ At(l, 0) - 2500 <= tm
    /\ img' = [img EXCEPT ![i] = border(packedBitmap(p, x, w), x - Bw, w + 2 * Bw)]
    /\ row' = [row EXCEPT ![i] = [@ EXCEPT !.st = 1, !.cls = 0, !.sx = x, !.lw = w + 2 * Bw,
                                           !.division = l.division, !.ii = 0, !.r1 = 0,
                                           !.from = 0, !.to = 0]]
    /\ update' = 1
    /\ UNCHANGED <<kidx, clear>>

\* Its time, or that of its next syllable, has not come.
Early(i) ==
    /\ Reads(i)
    /\ \/ row[i].st = 0 /\ At(row[i].lyr, 0) - 2500 > tm
       \/ row[i].st = 1 /\ row[i].ii < row[i].division /\ At(row[i].lyr, row[i].ii) - 280 > tm
    /\ UNCHANGED <<kidx, row, img, update, clear>>

\* State 1, after the last syllable: on to the next sentence of the row.
Passes(i) ==
    LET g == kok_get(i, kidx[i]) IN
    /\ Reads(i) /\ row[i].st = 1 /\ row[i].ii >= row[i].division
    /\ row' = [row EXCEPT ![i] = [@ EXCEPT !.st = 0, !.cls = 1, !.lyr = g.lyr, !.pos = g.pos]]
    /\ kidx' = [kidx EXCEPT ![i] = g.pos]
    /\ clear' = 1
    /\ UNCHANGED <<img, update>>

\* Pixels per iteration: d pixels in t tenths of a second, by osd_constant 3.1.
Pace(d, t) ==
    LET round(n, m) == (20 * n + 31 * m) \div (62 * m)
        p == IF t > 0 THEN round(d, t) ELSE IF t < 0 THEN round(-d, -t) ELSE 0
    IN IF p < 1 THEN 1 ELSE p
More(a, b) == IF a > b THEN a ELSE b

\* The syllables of no length after syllable ii are passed over.
Stepping(r) ==
    LET t == r.lyr.time
        over == {j \in 2 .. Len(t) : ~(r.ii + j < r.division /\ t[r.ii + j + 1] <= t[r.ii + 1])}
    IN (CHOOSE j \in over : \A k \in over : j <= k) - 1

\* State 1, a syllable begins: from is its left edge, to where it is coloured to.
Begun(r) ==
    LET t == r.lyr.time
        left(k) == r.lyr.jump[k + 1] * Fw
        k == IF t[r.ii + 2] > t[r.ii + 1] THEN r.ii ELSE r.ii + Stepping(r)
        pace == Pace(left(k + 1) - left(k), t[k + 2] - t[k + 1])
    IN [r EXCEPT !.st = 2, !.ii = k, !.r1 = left(k + 1), !.step = pace, !.from = left(r.ii),
                 !.to = left(k) + More(pace, InitStep)]

\* A step goes no further than the syllable.
Reach(r) == IF r.to > r.r1 THEN r.r1 ELSE r.to

\* State 2: a step of the colouring, or the syllable is done.
Swept(i, r) ==
    LET to == Reach(r)
        x == r.sx - Bw + r.from
        n == to - r.from
        more == r.from < r.r1
    IN
    /\ img' = IF more THEN [img EXCEPT ![i] = atob(atob(@, x, n, "f", "F"), x, n, "b", "B")]
              ELSE img
    /\ update' = IF more THEN 1 ELSE update
    /\ row' = [row EXCEPT ![i] = [r EXCEPT !.from = to, !.to = to + r.step,
                                           !.st = IF more THEN 2 ELSE 1,
                                           !.ii = IF more THEN @ ELSE @ + 1]]
    /\ UNCHANGED <<kidx, clear>>

Sweeps(i) ==
    /\ Reads(i)
    /\ \/ /\ row[i].st = 1 /\ row[i].ii < row[i].division
          /\ At(row[i].lyr, row[i].ii) - 280 <= tm
          /\ Swept(i, Begun(row[i]))
       \/ row[i].st = 2 /\ Swept(i, row[i])

\* The end of a round: the picture is shown, or old sentences are erased.
Shows ==
    LET erase == update = 0 /\ clear # 0 /\ clear + 1 >= ClearTime IN
    /\ turn = "show" /\ turn' = "row0"
    /\ screen' = IF update = 1 THEN "img" ELSE screen
    /\ update' = IF erase THEN 1 ELSE 0
    /\ clear' = IF update = 1 \/ clear = 0 \/ erase THEN 0 ELSE clear + 1
    /\ img' = [i \in Rows |-> IF erase /\ row[i].cls = 1 THEN Erased(i) ELSE img[i]]
    /\ row' = [i \in Rows |-> IF erase THEN [row[i] EXCEPT !.cls = 0] ELSE row[i]]
    /\ \E d \in Delays : tm' = IF tm + d > MaxTm THEN MaxTm ELSE tm + d
    /\ UNCHANGED <<koklib, tcnt, terminate, control, history>>

----------------------------------------------------------------------------
LyrInit ==
    /\ lptr = <<>> /\ lineNo = 0 /\ kidx = [i \in Rows |-> 0]
    /\ row = [i \in Rows |-> NewRow([pos |-> 0, lyr |-> NoSentence])]
    /\ img = [i \in Rows |-> Blank] /\ screen = "off"
    /\ tm = 0 /\ update = 0 /\ clear = 0 /\ tcnt = 0
    /\ turn = "ended" /\ terminate = 0 /\ thrwait = 0 /\ have_thr = 0 /\ can_restart = 0
    /\ ctl = "idle" /\ lyrcalls = 0
    /\ stale = FALSE /\ torn = FALSE

LyrNext ==
    \/ lyr_init \/ InitCreates \/ lyr_reinit \/ lyr_start \/ lyr_abort \/ lyr_stop \/ StopJoins
    \/ Prepares \/ Opens \/ Ends \/ Shows
    \/ \E i \in Rows : Tears(i) \/ RunsOut(i) \/ Appears(i) \/ Early(i) \/ Passes(i) \/ Sweeps(i)

----------------------------------------------------------------------------
\* A row has nothing on it but the sentence it shows: what is drawn lies in the
\* rectangle that will be erased.
CleanRows == \A i \in Rows :
    (Alive /\ ~torn) =>
        \A c \in 0 .. Width - 1 :
            img[i][c] # "0" => /\ row[i].st # 0 \/ row[i].cls = 1
                               /\ c \in Span(row[i].sx - Bw, row[i].lw)

=============================================================================

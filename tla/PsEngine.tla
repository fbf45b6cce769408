------------------------------ MODULE PsEngine ------------------------------
(***************************************************************************)
(* The PostScript engine (ttpseng/ttpseng.c).  Files are scanned line by   *)
(* line: text and the commands between it become cells of a chain of       *)
(* buffers (tte_scan_file, tte_push); then the chain is read once and set  *)
(* in lines and pages (tte_showpage).                                      *)
(*                                                                         *)
(* A document is a sequence of files, a file a sequence of items: words    *)
(* (characters, and wide characters of the Big5 or EUDC sets), ends of     *)
(* line, and commands with the character that leads them.  Lengths are     *)
(* whole numbers, lines are shorter than MAXLINE, and a document fits      *)
(* LPP rows of CPL columns to the page.  What a glyph looks like, margins, *)
(* and the choice of paper are left out.                                   *)
(***************************************************************************)
EXTENDS Integers, Sequences, FiniteSets

CONSTANTS Documents,        \* the documents that are set
          PER_BUFFER_LEN,   \* cells of a buffer
          MAX_FACE,         \* MAX_NUMBER_OF_TT_FACE
          CPL, LPP,         \* char_per_line and line_per_page
          TabStop,          \* columns between tabulator stops (8)
          Stale             \* what the type of a cell never written may be

VARIABLES document,   \* what is still to be scanned
          lineat,     \* where in a line the scanner is: head, text, direct, skip
          tocells,    \* the cells that the item just scanned still pushes
          tte,        \* the engine's settings
          faces,      \* the fonts that are open, and the ones in use
          fontdict,   \* dict: the wide characters in use
          txtbuf,     \* the chain of buffers
          psphase,    \* scan, show, done, stuck, crashed
          page,       \* tte_showpage's variables
          paper,      \* what has been written to the file, in order
          worded,     \* history: what the items ask for
          pshist      \* history: what excuses the engine

scanvars == <<document, lineat, tte, faces, fontdict>>
showvars == <<page, paper>>
psvars   == <<document, lineat, tocells, tte, faces, fontdict, txtbuf, psphase, page, paper, worded, pshist>>

TAB == 9
NL  == 10
FF  == 12
CR  == 13
Backslash == 92
Escaped   == {40, 41, Backslash}

\* layout's font_size, char_space and line_space.
FontSize  == 2
CharSpace == 1
LineSpace == 1

Cell(tp, v) == [tp |-> tp, v |-> v, w |-> 0]

-----------------------------------------------------------------------------
(* The chain of buffers.                                                   *)

\* txtbuf_allocate: the chain, with a new buffer when the last one is full.
txtbuf_allocate(chain) ==
    IF chain = <<>> \/ Len(chain[Len(chain)]) >= PER_BUFFER_LEN THEN Append(chain, <<>>) ELSE chain

Stored(chain, cell) ==
    LET c == txtbuf_allocate(chain) IN [c EXCEPT ![Len(c)] = Append(@, cell)]

tte_push ==
    /\ psphase = "scan" /\ tocells # <<>>
    /\ txtbuf' = Stored(txtbuf, Head(tocells).cell)
    /\ tocells' = Tail(tocells)
    /\ UNCHANGED <<scanvars, psphase, showvars, worded, pshist>>

\* tte_push_float has "txtbuf_current->code[(idx = txtbuf_allocate ())].type
\* = sel": the pointer may be read before the call changes it, and the type
\* then goes to the first cell of the buffer that was full, or through NULL.
PointerReadFirst ==
    /\ psphase = "scan" /\ tocells # <<>> /\ Head(tocells).float
    /\ txtbuf_allocate(txtbuf) # txtbuf
    /\ IF txtbuf = <<>>
       THEN psphase' = "crashed" /\ UNCHANGED <<txtbuf, tocells, pshist>>
       ELSE /\ \E tp \in Stale :
                 txtbuf' = Stored([txtbuf EXCEPT ![Len(txtbuf)][1].tp = Head(tocells).cell.tp],
                                  [Head(tocells).cell EXCEPT !.tp = tp])
            /\ tocells' = Tail(tocells)
            /\ pshist' = [pshist EXCEPT !.torn = TRUE]
            /\ UNCHANGED psphase
    /\ UNCHANGED <<scanvars, showvars, worded>>

Push(tp, v)  == [cell |-> Cell(tp, v), float |-> FALSE]
Pushf(tp, v) == [cell |-> Cell(tp, v), float |-> TRUE]

-----------------------------------------------------------------------------
(* Fonts, and the dictionary of wide characters.                           *)

\* tte_new_FontFace: the number of the font, or -1 when there is no room or
\* the file cannot be opened.
NewFace(f, opens) == IF opens /\ f.count < MAX_FACE THEN f.count ELSE -1
Faces(f, opens)   == IF opens /\ f.count < MAX_FACE THEN f.count + 1 ELSE f.count

tte_set_fontfile(f, opens)      == [f EXCEPT !.big5 = NewFace(f, opens), !.count = Faces(f, opens)]
tte_set_eudc_fontfile(f, opens) == [f EXCEPT !.eudc = NewFace(f, opens), !.count = Faces(f, opens)]

\* font_file_autoload, when a word needs a font and none is set.  (An EUDC
\* font is looked for in two places.)
font_file_autoload(f, set, opens) ==
    CASE set = "big5" /\ f.big5 = -1 -> tte_set_fontfile(f, opens)
      [] set = "eudc" /\ f.eudc = -1 -> tte_set_eudc_fontfile(f, opens)
      [] OTHER -> f

\* cmd_usefn: the n-th font that is not the EUDC font, if there is one.
cmd_usefn(f, n) ==
    LET others == {i \in 0 .. f.count - 1 : i # f.eudc}
        nth == {i \in others : Cardinality({k \in others : k <= i}) = n}
    IN  [f EXCEPT !.big5 = IF nth = {} THEN @ ELSE CHOOSE i \in nth : TRUE]

\* tte_add2dict: where the character stands, counted from 0, and the
\* dictionary with one use more.
Same(fid, code) == {k \in DOMAIN fontdict : fontdict[k].fontid = fid /\ fontdict[k].code = code}
Place(fid, code) ==
    IF Same(fid, code) = {} THEN Len(fontdict) ELSE (CHOOSE k \in Same(fid, code) : TRUE) - 1
tte_add2dict(fid, code) ==
    IF Same(fid, code) = {} THEN Append(fontdict, [fontid |-> fid, code |-> code, refcnt |-> 1])
    ELSE [fontdict EXCEPT ![Place(fid, code) + 1].refcnt = @ + 1]

-----------------------------------------------------------------------------
(* Commands.                                                               *)

Switch(old, v) == IF v \in {0, 1} THEN v ELSE old

\* cmd_print: an empty field (-1) has the layout's value, and the height of
\* a character its width.  vprint differs in the direction.
cmd_print(old, arg, vdir) ==
    LET field(k, default) == IF arg[k] = -1 THEN default ELSE arg[k]
        fs == field(3, FontSize)
    IN  IF arg = <<>> THEN [old EXCEPT ![7] = vdir]
        ELSE <<field(1, 0), field(2, 0), fs, field(4, fs), field(5, CharSpace), field(6, LineSpace), vdir>>

\* cmd_line, cmd_box: sscanf leaves the fields that are not given as they were.
Coordinates(old, arg) == [k \in 1 .. 5 |-> IF k <= Len(arg) THEN arg[k] ELSE old[k]]

\* read_and_do_cmd: the settings after a command.
read_and_do_cmd(t, it) ==
    CASE it.op = "setrgb" -> [t EXCEPT !.rgb = it.arg[1]]
      [] it.op = "rgb-save" -> [t EXCEPT !.saved = t.rgb]
      [] it.op = "rgb-restore" -> [t EXCEPT !.rgb = t.saved]
      [] it.op = "wrap" -> [t EXCEPT !.wrap = Switch(@, it.arg[1])]
      [] it.op = "inlinecmd" -> [t EXCEPT !.inline = Switch(@, it.arg[1])]
      [] it.op = "lineheadcmd" -> [t EXCEPT !.linehead = Switch(@, it.arg[1])]
      [] it.op = "chgcmd" -> [t EXCEPT !.lead = it.arg[1]]
      [] it.op = "print" -> [t EXCEPT !.direct = cmd_print(@, it.arg, 0)]
      [] it.op = "vprint" -> [t EXCEPT !.direct = cmd_print(@, it.arg, 1)]
      [] it.op \in {"line", "box"} -> [t EXCEPT !.dg = Coordinates(@, it.arg)]
      [] it.op = "setfont" /\ it.arg # <<>> /\ it.arg[1] > 0 ->
             [t EXCEPT !.efont = it.arg[1], !.esize = IF Len(it.arg) = 2 THEN it.arg[2] ELSE 0]
      [] OTHER -> t

\* The fonts after a command.
FontsAfter(f, it, opens) ==
    CASE it.op = "fn" -> tte_set_fontfile(f, opens)
      [] it.op = "eudc" -> tte_set_eudc_fontfile(f, opens)
      [] it.op = "usefn" -> cmd_usefn(f, it.arg[1])
      [] OTHER -> f

DirectFields == <<"dx", "dy", "fs", "fsy", "cs", "ls">>
DgFields     == <<"sx", "sy", "ex", "ey", "width">>

\* What a command at the head of a line pushes (the switch of tte_scan_file);
\* t holds the settings after it.
Commanded(t, it) ==
    CASE it.op \in {"setrgb", "rgb-restore"} -> <<Push("rgb", t.rgb)>>
      [] it.op = "formfeed" -> <<Push("ascii", FF)>>
      [] it.op \in {"print", "vprint"} /\ it.arg # <<>> ->
             [k \in 1 .. 6 |-> Pushf(DirectFields[k], t.direct[k])]
                 \o <<Push("vdir", t.direct[7]), Push("use", 1)>>
      [] it.op \in {"line", "box"} /\ t.dg[5] > 0 ->
             [k \in 1 .. 5 |-> Pushf(DgFields[k], t.dg[k])]
                 \o << [Push(it.op, 0) EXCEPT !.cell.w = Len(worded) + 1] >>
      [] it.op = "setfont" /\ it.arg = <<>> -> <<Push("sefont", 1)>>
      [] it.op = "setfont" /\ it.arg # <<>> /\ it.arg[1] > 0 ->
             IF t.esize = 0 THEN <<Push("sefont", t.efont)>>
             ELSE <<Pushf("efsize", t.esize), Push("efont", t.efont)>>
      [] OTHER -> <<>>

-----------------------------------------------------------------------------
(* tte_scan_file.                                                          *)

Scanning == psphase = "scan" /\ tocells = <<>> /\ document # <<>> /\ Head(document) # <<>>
It       == Head(Head(document))
Scanned  == document' = [document EXCEPT ![1] = Tail(@)]
InLine   == lineat' = IF lineat = "head" THEN "text" ELSE lineat

IsCommand(it) == it.lead = tte.lead
AtHead   == lineat = "head" /\ tte.linehead = 1 /\ IsCommand(It)
Inline   == lineat # "skip" /\ ~AtHead /\ tte.inline = 1 /\ IsCommand(It)
AsText   == lineat # "skip" /\ ~AtHead /\ ~Inline

\* History: the next word asked for, in the colour and font in force.
Asks(what) ==
    worded' = Append(worded, [what |-> what, ink |-> tte.rgb, face |-> pshist.face, direct |-> lineat = "direct"])

\* push_word, for a character of one byte.  A command that is not taken for
\* one is text like any other.
ScanChar ==
    /\ Scanning /\ AsText /\ It.op \notin {"big5", "ext", "nl"}
    /\ Scanned /\ InLine
    /\ LET c == IF It.op = "ascii" THEN It.arg[1] ELSE It.lead
           shows == lineat = "direct" \/ c \notin {TAB, CR, FF}
       IN  /\ tocells' = << [Push("ascii", c) EXCEPT !.cell.w = IF shows THEN Len(worded) + 1 ELSE 0] >>
           /\ IF shows THEN Asks(<<c>>) ELSE UNCHANGED worded
    /\ UNCHANGED <<tte, faces, fontdict, txtbuf, psphase, showvars, pshist>>

\* push_word, for a wide character ("ext": of the EUDC set).
push_word ==
    /\ Scanning /\ AsText /\ It.op \in {"big5", "ext"}
    /\ Scanned /\ InLine
    /\ \E opens \in BOOLEAN :
         LET f == font_file_autoload(faces, IF It.op = "big5" THEN "big5" ELSE "eudc", opens)
             fid == IF It.op = "big5" THEN f.big5 ELSE f.eudc
         IN  /\ faces' = f
             /\ fontdict' = tte_add2dict(fid, It.arg[1])
             /\ tocells' = << [Push("big5", Place(fid, It.arg[1])) EXCEPT !.cell.w = Len(worded) + 1] >>
             /\ Asks(<<fid, It.arg[1]>>)
    /\ UNCHANGED <<tte, txtbuf, psphase, showvars, pshist>>

\* The end of a line: the line of a command has none, and a text printed
\* directly ends the use of its own position.
ScanNewline ==
    /\ Scanning /\ It.op = "nl"
    /\ Scanned /\ lineat' = "head"
    /\ tocells' = CASE lineat = "skip" -> <<>>
                    [] lineat = "direct" -> <<Push("use", 0)>>
                    [] OTHER -> <<Push("ascii", NL)>>
    /\ UNCHANGED <<tte, faces, fontdict, txtbuf, psphase, showvars, worded, pshist>>

\* A command at the head of a line.  What follows it in the line is the text
\* of a print and is otherwise ignored.
HeadCommand ==
    /\ Scanning /\ AtHead
    /\ Scanned
    /\ \E opens \in BOOLEAN : faces' = FontsAfter(faces, It, opens)
    /\ tte' = read_and_do_cmd(tte, It)
    /\ tocells' = Commanded(tte', It)
    /\ lineat' = IF It.op \in {"print", "vprint"} /\ It.arg # <<>> THEN "direct" ELSE "skip"
    /\ worded' = IF It.op \in {"line", "box"} /\ tte'.dg[5] > 0
                 THEN Append(worded, [what |-> tte'.dg, ink |-> tte.rgb, face |-> 0, direct |-> TRUE])
                 ELSE worded
    /\ pshist' = [pshist EXCEPT !.face = CASE It.op # "setfont" -> @
                                           [] It.arg = <<>> -> 1
                                           [] It.arg[1] > 0 -> It.arg[1]
                                           [] OTHER -> @]
    /\ UNCHANGED <<fontdict, txtbuf, psphase, showvars>>

\* A command in the text is done twice, and only a colour has an effect on
\* the text.
InlineCommand ==
    /\ Scanning /\ Inline
    /\ Scanned /\ InLine
    /\ \E opens, again \in BOOLEAN : faces' = FontsAfter(FontsAfter(faces, It, opens), It, again)
    /\ tte' = read_and_do_cmd(read_and_do_cmd(tte, It), It)
    /\ tocells' = IF It.op \in {"setrgb", "rgb-restore"} THEN <<Push("rgb", tte'.rgb)>> ELSE <<>>
    /\ UNCHANGED <<fontdict, txtbuf, psphase, showvars, worded, pshist>>

SkipRest ==
    /\ Scanning /\ lineat = "skip" /\ It.op # "nl"
    /\ Scanned
    /\ UNCHANGED <<lineat, tocells, tte, faces, fontdict, txtbuf, psphase, showvars, worded, pshist>>

\* The end of a file; the last line may have no end.
FileEnds ==
    /\ psphase = "scan" /\ tocells = <<>> /\ document # <<>> /\ Head(document) = <<>>
    /\ document' = Tail(document)
    /\ lineat' = "head"
    /\ tocells' = IF lineat = "direct" THEN <<Push("use", 0)>> ELSE <<>>
    /\ pshist' = [pshist EXCEPT !.joined = @ \/ (lineat = "text" /\ Tail(document) # <<>>)]
    /\ UNCHANGED <<tte, faces, fontdict, txtbuf, psphase, showvars, worded>>

-----------------------------------------------------------------------------
(* tte_showpage.                                                           *)

\* The characters used more than once are defined first.  A character without
\* a font has no glyph: ttf2ps reads what stands before the table of fonts.
StartShow ==
    /\ psphase = "scan" /\ tocells = <<>> /\ document = <<>>
    /\ psphase' = IF \E k \in DOMAIN fontdict : fontdict[k].refcnt > 1 /\ fontdict[k].fontid = -1
                  THEN "crashed" ELSE "show"
    /\ UNCHANGED <<scanvars, tocells, txtbuf, showvars, worded, pshist>>

\* What stands in the buffer of the line, as it is written: a backslash that
\* protects a character takes no column.
Entry(p, w, at, what, face) ==
    [w |-> w, page |-> p.count, at |-> at, ink |-> p.ink, what |-> what, face |-> face]

write_ascii_string(p) ==
    LET width(j) == Cardinality({k \in 1 .. j - 1 : p.str[k] # <<0, Backslash>>})
        all == [j \in DOMAIN p.str |-> Entry(p, p.str[j][1], <<p.yy, p.xx + width(j)>>, <<p.str[j][2]>>, p.face)]
    IN  SelectSeq(all, LAMBDA e : e.w > 0)

Emptied(p) == [p EXCEPT !.str = <<>>, !.slash = 0]

\* Mutant: the protecting backslash takes a column.
FlushedCounting(p) == Emptied([p EXCEPT !.xx = @ + Len(p.str)])

Flushed(p) == Emptied([p EXCEPT !.xx = @ + Len(p.str) - p.slash])

\* write_next_page: PostScript's showpage also sets the colour back to black.
write_next_page(p) == [p EXCEPT !.count = @ + 1, !.yy = 0, !.fresh = TRUE, !.ink = 0]

NewLine(p) ==
    LET q == [Emptied(p) EXCEPT !.yy = @ + 1, !.xx = 0, !.rx = 0]
    IN  IF q.yy >= LPP THEN write_next_page(q) ELSE q

Showing == psphase = "show" /\ page.b <= Len(txtbuf)
C       == txtbuf[page.b][page.i]

\* The page as it is when the cell is looked at, and after the cell.
Begun == IF page.fresh THEN [page EXCEPT !.fresh = FALSE, !.opened = Append(@, page.count)] ELSE page
Step(p) ==
    page' = IF p.i < Len(txtbuf[p.b]) THEN [p EXCEPT !.i = @ + 1] ELSE [p EXCEPT !.b = @ + 1, !.i = 1]
Writes(entries) == paper' = paper \o entries
ShownOnly == UNCHANGED <<scanvars, tocells, txtbuf, worded>>

Column == page.xx + Len(page.str) - page.slash
Wraps ==
    /\ page.use = 0 /\ tte.wrap = 1 /\ C.v \notin {CR, NL}
    /\ \/ C.tp = "ascii" /\ Column > CPL - 1
       \/ C.tp = "big5" /\ Column >= CPL - 1

\* A character that does not fit: a line ends, and the cell is looked at again.
ShowWrap ==
    /\ Showing /\ C.tp = "ascii" /\ Wraps
    /\ Writes(write_ascii_string(Begun))
    /\ page' = NewLine(Begun)
    /\ UNCHANGED <<psphase, pshist>> /\ ShownOnly

\* A wide character that does not fit is taken for the tenth of the
\* dictionary, and the cell is looked at again, for ever.
ShowStuck ==
    /\ Showing /\ C.tp = "big5" /\ Wraps
    /\ psphase' = "stuck"
    /\ UNCHANGED <<showvars, pshist>> /\ ShownOnly

\* Cells that set a variable and write nothing of the text.
ShowSetting ==
    /\ Showing /\ C.tp \notin {"ascii", "big5", "rgb", "line", "box"}
    /\ Step(CASE C.tp = "use" -> [Begun EXCEPT !.use = C.v]
              [] C.tp = "dx" -> [Begun EXCEPT !.dx = C.v, !.dxsave = C.v]
              [] C.tp = "dy" -> [Begun EXCEPT !.dy = C.v]
              [] C.tp = "fs" -> [Begun EXCEPT !.fs = C.v, !.fsy = C.v, !.fontsz = C.v]
              [] C.tp = "fsy" -> [Begun EXCEPT !.fsy = C.v]
              [] C.tp = "cs" -> [Begun EXCEPT !.cs = C.v]
              [] C.tp = "ls" -> [Begun EXCEPT !.ls = C.v]
              [] C.tp = "vdir" -> [Begun EXCEPT !.vdir = C.v]
              [] C.tp = "efsize" -> [Begun EXCEPT !.fontsz = C.v]
              [] C.tp \in {"sefont", "efont"} -> [Begun EXCEPT !.efont = C.v, !.face = C.v]
              [] OTHER -> [Begun EXCEPT !.g = [k \in 1 .. 5 |-> IF DgFields[k] = C.tp THEN C.v ELSE @[k]]])
    /\ UNCHANGED <<psphase, paper, pshist>> /\ ShownOnly

ShowDrawing ==
    /\ Showing /\ C.tp \in {"line", "box"}
    /\ Writes(<<Entry(Begun, C.w, <<0, 0>>, page.g, 0)>>)
    /\ Step(Begun)
    /\ UNCHANGED <<psphase, pshist>> /\ ShownOnly

ShowColour ==
    /\ Showing /\ C.tp = "rgb"
    /\ Writes(write_ascii_string(Begun))
    /\ Step([Flushed(Begun) EXCEPT !.ink = C.v])
    /\ UNCHANGED <<psphase, pshist>> /\ ShownOnly

\* write_dict_char: the glyph of the dictionary's entry.
Glyph(idx) == <<fontdict[idx + 1].fontid, fontdict[idx + 1].code>>

ShowWide ==
    /\ Showing /\ C.tp = "big5" /\ ~Wraps
    /\ fontdict[C.v + 1].fontid # -1
    /\ LET p == Flushed(Begun)
           q == IF p.vdir = 1 /\ p.dx # p.dxsave
                THEN [p EXCEPT !.dx = p.dxsave, !.dy = @ - (p.fs + p.ls)] ELSE p
       IN  IF page.use = 1
           THEN /\ Writes(write_ascii_string(Begun) \o <<Entry(q, C.w, <<q.dx, q.dy>>, Glyph(C.v), 0)>>)
                /\ Step(IF q.vdir = 1 THEN [q EXCEPT !.dy = @ - (q.fs + q.ls)]
                        ELSE [q EXCEPT !.dx = @ + q.fs + q.cs])
           ELSE /\ Writes(write_ascii_string(Begun) \o <<Entry(p, C.w, <<p.yy, p.xx>>, Glyph(C.v), 0)>>)
                /\ Step([p EXCEPT !.xx = @ + 2, !.rx = @ + 2])
    /\ UNCHANGED <<psphase, pshist>> /\ ShownOnly

ShowWithoutFont ==
    /\ Showing /\ C.tp = "big5" /\ ~Wraps
    /\ fontdict[C.v + 1].fontid = -1
    /\ psphase' = "crashed"
    /\ UNCHANGED <<showvars, pshist>> /\ ShownOnly

\* A character at a position of its own.
ShowDirect ==
    /\ Showing /\ C.tp = "ascii" /\ page.use = 1
    /\ Writes(<<Entry(Begun, C.w, <<page.dx, page.dy>>, <<C.v>>, page.efont)>>)
    /\ Step([Begun EXCEPT !.dx = @ + (page.fontsz \div 2) + page.cs])
    /\ UNCHANGED <<psphase, pshist>> /\ ShownOnly

InText == Showing /\ C.tp = "ascii" /\ page.use = 0 /\ ~Wraps

ShowNewline ==
    /\ InText /\ C.v = NL
    /\ Writes(write_ascii_string(Begun))
    /\ Step(NewLine(Begun))
    /\ UNCHANGED <<psphase, pshist>> /\ ShownOnly

\* A form feed: what stands in the buffer of the line is not written.
ShowFormFeed ==
    /\ InText /\ C.v = FF
    /\ Step(write_next_page([Emptied(Begun) EXCEPT !.xx = 0, !.rx = 0]))
    /\ pshist' = [pshist EXCEPT !.cut = @ \cup {page.str[k][1] : k \in DOMAIN page.str}]
    /\ UNCHANGED <<psphase, paper>> /\ ShownOnly

\* The columns up to the next stop, at least one.
Spaces == TabStop - (page.rx % TabStop)

ShowChar ==
    /\ InText /\ C.v \notin {NL, FF}
    /\ Step(CASE C.v = CR -> Begun
              [] C.v = TAB -> [Begun EXCEPT !.rx = @ + Spaces, !.str = @ \o [k \in 1 .. Spaces |-> <<0, 32>>]]
              [] C.v \in Escaped -> [Begun EXCEPT !.rx = @ + 1, !.slash = @ + 1,
                                                  !.str = @ \o <<<<0, Backslash>>, <<C.w, C.v>>>>]
              [] OTHER -> [Begun EXCEPT !.rx = @ + 1, !.str = Append(@, <<C.w, C.v>>)])
    /\ UNCHANGED <<psphase, paper, pshist>> /\ ShownOnly

\* The end of the chain.  A page with nothing in the buffer of the line and
\* no line ended is not given out.
EndShow ==
    /\ psphase = "show" /\ page.b > Len(txtbuf)
    /\ Writes(write_ascii_string(page))
    /\ page' = IF page.str # <<>> \/ page.yy > 0 THEN write_next_page(page) ELSE page
    /\ psphase' = "done"
    /\ pshist' = IF page.str # <<>> \/ page.yy > 0 THEN pshist
                 ELSE [pshist EXCEPT !.cut = @ \cup {paper[k].w : k \in {j \in DOMAIN paper : paper[j].page = page.count}}]
    /\ ShownOnly

-----------------------------------------------------------------------------
PsInit ==
    /\ document \in Documents
    /\ lineat = "head" /\ tocells = <<>>
    /\ tte = [rgb |-> 0, saved |-> 0, wrap |-> 0, inline |-> 0, linehead |-> 1, lead |-> 126,
              direct |-> <<0, 0, 0, 0, 0, 0, 0>>, dg |-> <<0, 0, 0, 0, 0>>, efont |-> 0, esize |-> 0]
    /\ faces = [count |-> 0, big5 |-> -1, eudc |-> -1]
    /\ fontdict = <<>> /\ txtbuf = <<>>
    /\ psphase = "scan"
    /\ page = [b |-> 1, i |-> 1, xx |-> 0, yy |-> 0, rx |-> 0, str |-> <<>>, slash |-> 0, count |-> 0,
               fresh |-> TRUE, opened |-> <<>>, use |-> 0, dx |-> 0, dxsave |-> 0, dy |-> 0, fs |-> 0,
               fsy |-> 0, cs |-> 0, ls |-> 0, vdir |-> 0, g |-> <<0, 0, 0, 0, 0>>, fontsz |-> 1,
               efont |-> 1, face |-> 1, ink |-> 0]
    /\ paper = <<>> /\ worded = <<>>
    /\ pshist = [torn |-> FALSE, joined |-> FALSE, face |-> 1, cut |-> {}]

PsNext ==
    \/ tte_push \/ PointerReadFirst
    \/ ScanChar \/ push_word \/ ScanNewline \/ HeadCommand \/ InlineCommand \/ SkipRest \/ FileEnds
    \/ StartShow \/ ShowWrap \/ ShowStuck \/ ShowSetting \/ ShowDrawing \/ ShowColour \/ ShowWide
    \/ ShowWithoutFont \/ ShowDirect \/ ShowNewline \/ ShowFormFeed \/ ShowChar \/ EndShow

-----------------------------------------------------------------------------
\* Entry e stands before entry f in the text: a page, a row or at least its
\* own width of columns earlier.
Before(e, f) ==
    \/ e.page < f.page
    \/ e.page = f.page /\ e.at[1] < f.at[1]
    \/ e.page = f.page /\ e.at[1] = f.at[1] /\ e.at[2] + Len(e.what) <= f.at[2]

Accounted(w) == w \in pshist.cut \/ \E k \in DOMAIN paper : paper[k].w = w

\* What the engine writes is what the files ask for (tte_scan_file,
\* tte_showpage): every word of the text once, in reading order and beside
\* the words before it, within the rows, and when lines are wrapped the
\* columns, of a page that has been begun; every word as the character, in the
\* font and in the colour that were in force where it stands, though a new
\* page is begun in black; the tabulator's stops counted where the text
\* stands; and in the end no word missing but those that a form feed or the
\* last page has cut off.  (Excepted: a type stored through the old pointer,
\* and the font of a line that one file begins and the next one ends.)
Printed ==
    ~pshist.torn =>
        /\ \A k \in DOMAIN paper :
             LET e == paper[k]
                 m == worded[e.w]
             IN  /\ e.what = m.what
                 /\ e.ink = m.ink \/ (e.page > 0 /\ e.ink = 0)
                 /\ e.face \in {0, m.face} \/ pshist.joined
                 /\ e.page < Len(page.opened)
                 /\ ~m.direct => /\ e.at[1] < LPP
                                 /\ tte.wrap = 1 => e.at[2] + Len(e.what) <= CPL
                 /\ \A j \in 1 .. k - 1 :
                      LET d == paper[j]
                      IN  /\ d.w # e.w
                          /\ worded[d.w].direct = m.direct => d.w < e.w
                          /\ ~worded[d.w].direct /\ ~m.direct => Before(d, e)
        /\ psphase = "show" => page.rx = Column
        /\ psphase = "done" => \A w \in DOMAIN worded : Accounted(w)
=============================================================================

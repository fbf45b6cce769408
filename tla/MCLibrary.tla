----------------------------- MODULE MCLibrary ------------------------------
(***************************************************************************)
(* Parts of the library that have no thread in common, one of them under   *)
(* test in each behaviour: "volume", the volumes of the set-top box (songs *)
(* of three types, two volumes); "lyrics", the lyrics (songs of two and    *)
(* three sentences); "picture", pictures of three by two; "object", two    *)
(* objects of three nodes; "cron", a timetable at the turn of the year;    *)
(* "machines", a table of two machines; "playlist", a list of films;       *)
(* "simconf", a configuration of two variables; "redblack", a red-black    *)
(* tree of six elements; "splay", a splay tree of five; "decrypt", two     *)
(* encrypted films of a word of two bits; "digest", messages of up to 21   *)
(* words in pieces, in blocks of four; "partitions", drives with chains of *)
(* up to three logical partitions; "command", the command loop of the box, *)
(* with two commands and a table of one; "settings", configuration files   *)
(* with conditions; "typeset", documents of a few words on pages of two    *)
(* rows of four columns.                                                   *)
(***************************************************************************)
EXTENDS Integers, Sequences

VARIABLES
    under,
    setting, mask, pend, level, fd, in_close_lock, nopen, vtodo, varg, prefer_vocal, in_fade,
    close_fader, fpc, vtype, vocal, sel, audio, playing, vprepared, songs, calls, odd,
    lptr, lineNo, kidx, row, img, screen, tm, update, clear, tcnt, turn, terminate, thrwait,
    have_thr, can_restart, ctl, lyrcalls, stale, torn,
    mem, plane, entries, nearEdge, draws,
    obj, node, heap, want, broken, xcalls,
    tbl, findptr, ckmin, timeslot, on_the_run, cterm, callback, now, cpc, stime, wake, ccall,
    started, since, missed, cdead, croncalls,
    ipmac, macusecnt, have_changed, macfile, base, macloaded, maccalls,
    start, stop, list, pointer, loop_mode, round, skipped, plcalls,
    data, meant, confcalls,
    rb, members, rbret,
    sp, inside, spret,
    opened, reel, fpos, repeat_cnt, fp_pos, read_plugin, new_file, hol_idx, hol_header, rc4key,
    md5rc4key, have_key, fmt, last, place, sync, deccalls,
    hashed, total, buffer, fed, finished,
    drive, device, ptes, partitions, extended_offset, ext_index, geo, hpc, hi, hp, headpos,
    hopens, misread,
    cmdlist, pre_function, post_function, idle_function, cpath, datagram, rpdu, sender, slot,
    msec, stray, nregists, narrivals, promised, arrived, did,
    sysconf_entry, key_pointer, sstru, iftrue, ifevertrue, sw_value, sw_tf, gstk, intstk, ctx,
    unread, loads, written, before, spoilt, lucky,
    document, lineat, tocells, tte, faces, fontdict, txtbuf, psphase, page, paper, worded,
    pshist

SV == INSTANCE StbVolume WITH
    Types <- {1, 3, 4}, Volumes <- {2, 3}, FadeStep <- 1, MaxSongs <- 1, MaxCalls <- 2

\* A sentence of a song: its row, its syllables' ends in time and in pixels, its place and width.
Sentence(u, d, t, j, x, l) ==
    [updown |-> u, division |-> d, time |-> t, jump |-> j, xoffset |-> x, length |-> l]

Song1 == << Sentence(0, 2, <<1, 4, 5, 0>>, <<0, 1, 2, 0>>, 6, 2),
            Sentence(1, 1, <<3, 9, 0, 0>>, <<0, 3, 0, 0>>, 2, 3),
            Sentence(0, 2, <<6, 6, 8, 0>>, <<0, 1, 3, 0>>, 0, 3) >>

Song2 == << Sentence(1, 1, <<30, 31, 0, 0>>, <<0, 2, 0, 0>>, 0, 2),
            Sentence(0, 2, <<2, 3, 3, 0>>, <<0, 1, 2, 0>>, 0, 2) >>

LY == INSTANCE Lyrics WITH
    Songs <- {Song1, Song2}, Realsizes <- 8, Width <- 24, Delays <- {100, 2000}, ClearTime <- 3,
    MaxTm <- 3000, MaxLyrCalls <- 3

PI == INSTANCE Picture WITH
    W <- 3, H <- 2, NPal <- 2, Colours <- {0, 1, 256}, PicXs <- {-1, 2}, PicYs <- {-1, 1},
    PicLs <- {0, 1, 3}, Bits <- {<<<<1, 0, 1, 1>>, <<0, 1, 1, 0>>>>}, RealWidths <- {1, 4},
    Texts <- {<< <<<<1, 0>>, <<0, 1>>>>, <<<<1>>, <<1>>>> >>}, Bwid <- 1, MaxDraws <- 2

XO == INSTANCE XObject WITH
    Objs <- {1, 2}, Words <- {<<"a">>, <<"a", "b">>}, Keys <- {"k", "l"}, NNodes <- 3, MaxXCalls <- 4

\* Fields, lines and minutes of a timetable: four minutes around the turn of the year.
Field(kind, nums, width) == [kind |-> kind, nums |-> nums, width |-> width]
Star == Field("star", <<>>, 1)
CronLine(min, hour, day, mon, wday, bracketed) ==
    [fields |-> <<min, hour, day, mon, wday>>, cmd |-> [given |-> TRUE, bracketed |-> bracketed]]

CronLines ==
    { CronLine(Field("step", <<2>>, 3), Star, Star, Star, Star, FALSE),
      CronLine(Field("list", <<0, 59>>, 4), Field("step", <<23>>, 4), Field("list", <<1, 31>>, 4),
               Field("list", <<1>>, 1), Field("list", <<0, 6>>, 3), TRUE),
      CronLine(Field("list", <<0, 1, 2, 3, 58, 59>>, 14), Field("list", <<0, 1, 22, 23>>, 9),
               Field("list", <<1, 31>>, 4), Field("step", <<6>>, 3), Star, FALSE),
      CronLine(Star, Field("dash", <<2, 3>>, 3), Star, Star, Star, FALSE),
      CronLine(Field("step", <<0>>, 3), Star, Star, Star, Star, FALSE),
      [fields |-> <<Field("bad", <<>>, 1)>>, cmd |-> [given |-> FALSE]] }

Moment(min, hour, mday, mon, wday) ==
    [min |-> min, hour |-> hour, mday |-> mday, mon |-> mon, wday |-> wday]
CronTimes == << Moment(58, 23, 31, 11, 6), Moment(59, 23, 31, 11, 6),
                Moment(0, 0, 1, 0, 0), Moment(1, 0, 1, 0, 0) >>

\* A line of the file of machines; 16 is a colon.
PairLine(ip, text) == [kind |-> "pair", ip |-> ip, text |-> text, short |-> FALSE]

TimeText(wellformed, month, hour) ==
    [wellformed |-> wellformed, year |-> 2003, month |-> month, day |-> 31, hour |-> hour, min |-> 59]

ConfValue(kind, val) == [kind |-> kind, val |-> val]

TB == INSTANCE Tables WITH
    Lines <- CronLines, Times <- CronTimes, Starts <- {50}, Slots <- {2, 61}, Delays <- {0, 20},
    MaxCronCalls <- 3,
    Num <- 2, NBytes <- 2, Ips <- {"a", "b"}, Macs <- {<<1, 2>>, <<16, 33>>}, MaxMacCalls <- 4,
    MacFiles <- {<< PairLine("a", <<1, 16, 2>>), [kind |-> "none"], PairLine("b", <<1, 0, 16, 2, 1>>) >>,
                 << [PairLine("a", <<1, 0, 16>>) EXCEPT !.short = TRUE], PairLine("b", <<0, 1, 16, 2>>),
                    PairLine("b", <<1, 16, 0, 2>>) >>},
    Films <- {"a", "b"}, MaxPlCalls <- 5,
    TimeTexts <- {TimeText(TRUE, 12, 23), TimeText(TRUE, 12, 24)},
    ListFiles <- {<<[kind |-> "film", name |-> "a"]>>,
                  << [kind |-> "time", time |-> TimeText(TRUE, 1, 0)],
                     [kind |-> "time", time |-> TimeText(FALSE, 1, 0)],
                     [kind |-> "film", name |-> "a"], [kind |-> "film", name |-> "b"] >>},
    Words <- {"v", "w"}, Cases <- {1, 2}, IntBits <- 4, MaxConfCalls <- 4,
    ConfValues <- {ConfValue("int", 7), ConfValue("int", 8), ConfValue("ip", 0), ConfValue("str", 0)},
    ConfFiles <- {<< [kind |-> "null"],
                     [kind |-> "var", name |-> <<"v", 1>>, value |-> ConfValue("int", 3)],
                     [kind |-> "var", name |-> <<"v", 2>>, value |-> ConfValue("str", 0)] >>}

TR == INSTANCE SysTree WITH
    NElms <- 6,
    NSplay <- 5

Reel(lock, skip, body) == [lock |-> lock, skip |-> skip, fmt |-> 2, body |-> body]

DE == INSTANCE Decrypt WITH
    N <- 4, FileHead <- <<1, 3>>, Checks <- 1, Lens <- {2, 6}, Places <- {3}, Repeats <- {-1, 1}, MaxDecCalls <- 6,
    Reels <- {Reel(<<1, 2>>, 1, <<2, 0, 3, 1>>), Reel(<<3, 1, 1>>, 0, <<1>>)}, RcKeys <- {<<1, 2>>, <<3, 1, 1>>},
    Junk <- {[x |-> 0, y |-> 0, d |-> [n \in 0 .. 3 |-> 0]]},
    B <- 4, W <- 4, Shift <- 1, Pieces <- {0, 1, 3, 4, 5, 9}, MaxMessage <- 21

\* Drives: an extended partition at sector 10 with tables at 10, 12 and 14.
Entry(sys, from, nr) == [sys |-> sys, start |-> from, nr |-> nr]
\* A table with data in one entry and a link in another (0 for none).
LinkTable(atdata, atlink, to) ==
    [k \in 1 .. 4 |-> IF k = atdata THEN Entry("data", 1, 1)
                      ELSE IF k = atlink THEN Entry("ext", to, 2) ELSE Entry("none", 0, 0)]
LinkTables(to) ==
    {LinkTable(1, 2, to), LinkTable(2, 1, to), LinkTable(3, 4, to), LinkTable(0, 1, to), LinkTable(0, 2, to),
     LinkTable(1, 0, 0), LinkTable(0, 0, 0), LinkTable(1, 3, 0),
     [LinkTable(1, 3, to) EXCEPT ![2] = Entry("ext", to, 0), ![4] = Entry("ext", 0, 2)]}
MBRs == {[LinkTable(1, 2, 10) EXCEPT ![2] = Entry("ext", 10, 9)],
         [LinkTable(2, 1, 10) EXCEPT ![1] = Entry("ext", 0, 9), ![4] = Entry("ext", 10, 9)]}
TheDrive(mbr, a, b, c) ==
    [s \in {0, 10, 12, 14} |-> CASE s = 0 -> mbr [] s = 10 -> a [] s = 12 -> b [] s = 14 -> c]

Heads(h, s) == [heads |-> h, sectors |-> s]

HD == INSTANCE Hdllio WITH
    Drives <- {TheDrive(m, a, b, c) : m \in MBRs, a \in LinkTables(2), b \in {LinkTable(2, 1, 4), LinkTable(0, 2, 4), LinkTable(1, 3, 0)},
               c \in {LinkTable(1, 0, 0), LinkTable(2, 1, 5)}},
    Spare <- TheDrive(CHOOSE m \in MBRs : TRUE, LinkTable(1, 2, 0), LinkTable(2, 1, 0), LinkTable(1, 0, 0)),
    Noise <- {LinkTable(2, 1, 3)}, MaxParts <- 7,
    Geometries <- {[size |-> 5000, big |-> Heads(-1, -1), small |-> Heads(4, 16), secsize |-> 512],
                   [size |-> 5000, big |-> Heads(-1, -1), small |-> Heads(0, 0), secsize |-> 1024]}

Order(c, e, s) == [cmd |-> c, echo |-> e, song |-> s]

HC == INSTANCE HktvCmd WITH
    Hosts <- {"a", "b"}, Afar <- "c", Cmds <- {3, 4}, Orders <- {Order(3, 1, <<5>>), Order(4, 0, <<>>), Order(6, 1, <<5>>)},
    Fns <- {1, 2}, Text <- <<<<>>, <<5, 5>>>>, HookFns <- {7},
    MaxCmdList <- 1, Modulus <- 8, MaxSong <- 1, Junk <- {1}, Strays <- {0, 6}, MaxRegists <- 2, MaxArrivals <- 2

\* Items of a configuration file, and files made of them.
Piece(t, x, n, l) == [t |-> t, x |-> x, n |-> n, l |-> l]
Mark(t) == Piece(t, <<"c", 0>>, 1, <<>>)
Set(t, n) == Piece(t, <<"y", 1>>, n, <<7, 8, 9>>)
On(t, x) == Piece(t, x, 0, <<>>)
Case(n) == Piece("case", <<"c", 0>>, n, <<>>)

SettingFiles ==
    LET x == <<"x", 1>>
        y == <<"y", 1>>
        xOff == On("number", <<"x", 2>>)
        three == <<Set("ints", 0), Set("string", 5), Set("on", 0)>>
        else == <<Mark("else"), three[3], Mark("close"), Set("strs", 0)>>
    IN  {<<On("if", n), b, On("elif", IF n = x THEN y ELSE x), three[2]>> \o else :
             n \in {x, y}, b \in {three[1], xOff}}
            \cup {<<Set("number", 1), On("if", y), Mark("exit")>> \o else, <<On("if", x), three[2], Mark("close")>>}
            \cup {<<On("switch", x), Case(0), three[1], xOff>> \o b \o <<Case(1)>> \o c \o
                     <<Mark("default"), three[3], Mark("break"), Mark("close"), Mark("print")>> :
                     b \in {<<>>, <<Mark("break")>>}, c \in {<<>>, <<Set("off", 0), Mark("break")>>}}
            \cup {<<On("switch", y), Case(3)>> \o b \o <<Mark("close")>> : b \in {<<three[2]>>, <<Mark("break"), three[3]>>}}
            \cup {<<xOff, Mark("special"), Mark("tag"), Mark("tag"), Mark("close"), three[1], Mark("exit")>>}
            \cup {<<On("if", x), three[1], On("if", x), three[2]>>}

SY == INSTANCE SysConf WITH
    Names <- {<<"x", 1>>, <<"x", 2>>, <<"y", 1>>}, Presets <- {<<<<"x", 1>>, 0>>, <<<<"x", 2>>, 1>>},
    Files <- SettingFiles, SpecTags <- {<<"c", 0>>}, MAX_INT_STK_LEN <- 2, MaxLoads <- 2

\* Items of a document, and documents made of them.
Word(kind, c) == [op |-> kind, arg |-> <<c>>, lead |-> 0]
Ask(kind, arg) == [op |-> kind, arg |-> arg, lead |-> 126]

PsDocuments ==
    LET a == Word("ascii", 97)
        nl == Word("nl", 0)
        wide == Word("big5", 7)
        items == {a, nl, wide, Word("ext", 8), Word("ascii", 40), Word("ascii", 9), Word("ascii", 12), Ask("setrgb", <<5>>)}
        print(vdir) == <<Ask(vdir, <<1, 9, -1, -1, -1, 2>>), a, wide, wide, a, nl>>
        on(cmd) == <<Ask(cmd, <<1>>), nl>>
    IN  {<<d>> : d \in [1 .. 3 -> items]}
            \cup {<<on("inlinecmd") \o d \o <<Ask("rgb-restore", <<>>), a>> >> : d \in [1 .. 3 -> items]}
            \cup {<<on("wrap") \o <<a, a, a>> \o d>> : d \in [1 .. 2 -> items \ {wide}] \cup {<<wide>>, <<Word("ascii", 13), wide>>}}
            \cup {<<d \o print(v) \o <<a>> >> : v \in {"print", "vprint"}, d \in {<<>>, <<a>>, <<Word("ext", 8), nl>>}}
            \cup {<< <<a, b>>, <<c, nl, wide, a, nl>> >> : b \in items,
                    c \in {Ask("setfont", <<2>>), Ask("setfont", <<0>>), Ask("setfont", <<3, 4>>), Ask("line", <<1, 2, 3, 4, 5>>),
                           Ask("formfeed", <<>>), Ask("fn", <<>>), Ask("eudc", <<>>), Ask("usefn", <<1>>), Ask("chgcmd", <<64>>)}}
            \cup {<< <<Ask("line", <<1, 2>>), nl, Ask("box", <<1, 2, 3, 4, 5>>), nl, Ask("line", <<6>>), nl, a,
                      Ask("setfont", <<>>), nl, Ask("setfont", <<>>), a, nl, Ask("print", <<>>), a>> >>,
                  << <<Ask("fn", <<>>), nl, wide, Ask("usefn", <<2>>), nl, wide, nl, Ask("eudc", <<>>), nl, Ask("usefn", <<2>>), nl, wide>> >>,
                  << <<Ask("setrgb", <<5>>), nl, Ask("rgb-save", <<>>), nl, a, nl, Ask("setrgb", <<6>>), nl, a, nl,
                      Ask("lineheadcmd", <<0>>), nl, Ask("rgb-restore", <<>>), a>> >>}

PS == INSTANCE PsEngine WITH
    Documents <- PsDocuments, PER_BUFFER_LEN <- 3, MAX_FACE <- 2, CPL <- 4, LPP <- 2, TabStop <- 3,
    Stale <- {"ascii", "line"}

vVars == <<setting, mask, pend, level, fd, in_close_lock, nopen, vtodo, varg, prefer_vocal,
           in_fade, close_fader, fpc, vtype, vocal, sel, audio, playing, vprepared, songs,
           calls, odd>>
lVars == <<lptr, lineNo, kidx, row, img, screen, tm, update, clear, tcnt, turn, terminate,
           thrwait, have_thr, can_restart, ctl, lyrcalls, stale, torn>>
pVars == <<mem, plane, entries, nearEdge, draws>>
oVars == <<obj, node, heap, want, broken, xcalls>>
cVars == <<tbl, findptr, ckmin, timeslot, on_the_run, cterm, callback, now, cpc, stime,
           wake, ccall, started, since, missed, cdead, croncalls>>
mVars == <<ipmac, macusecnt, have_changed, macfile, base, macloaded, maccalls>>
yVars == <<start, stop, list, pointer, loop_mode, round, skipped, plcalls>>
nVars == <<data, meant, confcalls>>
rVars == <<rb, members, rbret>>
tVars == <<sp, inside, spret>>
dVars == <<opened, reel, fpos, repeat_cnt, fp_pos, read_plugin, new_file, hol_idx,
           hol_header, rc4key, md5rc4key, have_key, fmt, last, place, sync, deccalls>>
hVars == <<hashed, total, buffer, fed, finished>>
kVars == <<drive, device, ptes, partitions, extended_offset, ext_index, geo, hpc, hi, hp,
           headpos, hopens, misread>>
hcVars == <<cmdlist, pre_function, post_function, idle_function, cpath, datagram, rpdu,
            sender, slot, msec, stray, nregists, narrivals, promised, arrived, did>>
syVars == <<sysconf_entry, key_pointer, sstru, iftrue, ifevertrue, sw_value, sw_tf, gstk,
            intstk, ctx, unread, loads, written, before, spoilt, lucky>>
psVars == <<document, lineat, tocells, tte, faces, fontdict, txtbuf, psphase, page, paper,
            worded, pshist>>

\* The variables of a part that is not under test have no meaning and are 0.
NoVVars == setting = 0 /\ mask = 0 /\ pend = 0 /\ level = 0 /\ fd = 0 /\ in_close_lock = 0
    /\ nopen = 0 /\ vtodo = 0 /\ varg = 0 /\ prefer_vocal = 0 /\ in_fade = 0 /\ close_fader = 0
    /\ fpc = 0 /\ vtype = 0 /\ vocal = 0 /\ sel = 0 /\ audio = 0 /\ playing = 0 /\ vprepared = 0
    /\ songs = 0 /\ calls = 0 /\ odd = 0
NoLVars == lptr = 0 /\ lineNo = 0 /\ kidx = 0 /\ row = 0 /\ img = 0 /\ screen = 0 /\ tm = 0
    /\ update = 0 /\ clear = 0 /\ tcnt = 0 /\ turn = 0 /\ terminate = 0 /\ thrwait = 0
    /\ have_thr = 0 /\ can_restart = 0 /\ ctl = 0 /\ lyrcalls = 0 /\ stale = 0 /\ torn = 0
NoPVars == mem = 0 /\ plane = 0 /\ entries = 0 /\ nearEdge = 0 /\ draws = 0
NoOVars == obj = 0 /\ node = 0 /\ heap = 0 /\ want = 0 /\ broken = 0 /\ xcalls = 0
NoCVars == tbl = 0 /\ findptr = 0 /\ ckmin = 0 /\ timeslot = 0 /\ on_the_run = 0 /\ cterm = 0
    /\ callback = 0 /\ now = 0 /\ cpc = 0 /\ stime = 0 /\ wake = 0 /\ ccall = 0 /\ started = 0
    /\ since = 0 /\ missed = 0 /\ cdead = 0 /\ croncalls = 0
NoMVars == ipmac = 0 /\ macusecnt = 0 /\ have_changed = 0 /\ macfile = 0 /\ base = 0
    /\ macloaded = 0 /\ maccalls = 0
NoYVars == start = 0 /\ stop = 0 /\ list = 0 /\ pointer = 0 /\ loop_mode = 0 /\ round = 0
    /\ skipped = 0 /\ plcalls = 0
NoNVars == data = 0 /\ meant = 0 /\ confcalls = 0
NoRVars == rb = 0 /\ members = 0 /\ rbret = 0
NoTVars == sp = 0 /\ inside = 0 /\ spret = 0
NoDVars == opened = 0 /\ reel = 0 /\ fpos = 0 /\ repeat_cnt = 0 /\ fp_pos = 0 /\ read_plugin = 0
    /\ new_file = 0 /\ hol_idx = 0 /\ hol_header = 0 /\ rc4key = 0 /\ md5rc4key = 0
    /\ have_key = 0 /\ fmt = 0 /\ last = 0 /\ place = 0 /\ sync = 0 /\ deccalls = 0
NoHVars == hashed = 0 /\ total = 0 /\ buffer = 0 /\ fed = 0 /\ finished = 0
NoKVars == drive = 0 /\ device = 0 /\ ptes = 0 /\ partitions = 0 /\ extended_offset = 0
    /\ ext_index = 0 /\ geo = 0 /\ hpc = 0 /\ hi = 0 /\ hp = 0 /\ headpos = 0 /\ hopens = 0
    /\ misread = 0
NoHcVars == cmdlist = 0 /\ pre_function = 0 /\ post_function = 0 /\ idle_function = 0
    /\ cpath = 0 /\ datagram = 0 /\ rpdu = 0 /\ sender = 0 /\ slot = 0 /\ msec = 0 /\ stray = 0
    /\ nregists = 0 /\ narrivals = 0 /\ promised = 0 /\ arrived = 0 /\ did = 0
NoSyVars == sysconf_entry = 0 /\ key_pointer = 0 /\ sstru = 0 /\ iftrue = 0 /\ ifevertrue = 0
    /\ sw_value = 0 /\ sw_tf = 0 /\ gstk = 0 /\ intstk = 0 /\ ctx = 0 /\ unread = 0 /\ loads = 0
    /\ written = 0 /\ before = 0 /\ spoilt = 0 /\ lucky = 0
NoPsVars == document = 0 /\ lineat = 0 /\ tocells = 0 /\ tte = 0 /\ faces = 0 /\ fontdict = 0
    /\ txtbuf = 0 /\ psphase = 0 /\ page = 0 /\ paper = 0 /\ worded = 0 /\ pshist = 0

MCInit ==
    /\ under \in {"volume", "lyrics", "picture", "object", "cron", "machines", "playlist",
                  "simconf", "redblack", "splay", "decrypt", "digest",
                  "partitions", "command", "settings", "typeset"}
    /\ IF under = "volume" THEN SV!VolInit ELSE NoVVars
    /\ IF under = "lyrics" THEN LY!LyrInit ELSE NoLVars
    /\ IF under = "picture" THEN PI!PicInit ELSE NoPVars
    /\ IF under = "object" THEN XO!XoInit ELSE NoOVars
    /\ IF under = "cron" THEN TB!CronInit ELSE NoCVars
    /\ IF under = "machines" THEN TB!MacInit ELSE NoMVars
    /\ IF under = "playlist" THEN TB!PlInit ELSE NoYVars
    /\ IF under = "simconf" THEN TB!ConfInit ELSE NoNVars
    /\ IF under = "redblack" THEN TR!RbInit ELSE NoRVars
    /\ IF under = "splay" THEN TR!SpInit ELSE NoTVars
    /\ IF under = "decrypt" THEN DE!DecInit ELSE NoDVars
    /\ IF under = "digest" THEN DE!Md5Init ELSE NoHVars
    /\ IF under = "partitions" THEN HD!HdInit ELSE NoKVars
    /\ IF under = "command" THEN HC!HcInit ELSE NoHcVars
    /\ IF under = "settings" THEN SY!SysInit ELSE NoSyVars
    /\ IF under = "typeset" THEN PS!PsInit ELSE NoPsVars

MCNext ==
    \/ /\ under = "volume" /\ SV!VolNext
       /\ UNCHANGED <<lVars, pVars, oVars, cVars, mVars, yVars, nVars, rVars, tVars, dVars,
                        hVars, kVars, hcVars, syVars, psVars>>
    \/ /\ under = "lyrics" /\ LY!LyrNext
       /\ UNCHANGED <<vVars, pVars, oVars, cVars, mVars, yVars, nVars, rVars, tVars, dVars,
                        hVars, kVars, hcVars, syVars, psVars>>
    \/ /\ under = "picture" /\ PI!PicNext
       /\ UNCHANGED <<vVars, lVars, oVars, cVars, mVars, yVars, nVars, rVars, tVars, dVars,
                        hVars, kVars, hcVars, syVars, psVars>>
    \/ /\ under = "object" /\ XO!XoNext
       /\ UNCHANGED <<vVars, lVars, pVars, cVars, mVars, yVars, nVars, rVars, tVars, dVars,
                        hVars, kVars, hcVars, syVars, psVars>>
    \/ /\ under = "cron" /\ TB!CronNext
       /\ UNCHANGED <<vVars, lVars, pVars, oVars, mVars, yVars, nVars, rVars, tVars, dVars,
                        hVars, kVars, hcVars, syVars, psVars>>
    \/ /\ under = "machines" /\ TB!MacNext
       /\ UNCHANGED <<vVars, lVars, pVars, oVars, cVars, yVars, nVars, rVars, tVars, dVars,
                        hVars, kVars, hcVars, syVars, psVars>>
    \/ /\ under = "playlist" /\ TB!PlNext
       /\ UNCHANGED <<vVars, lVars, pVars, oVars, cVars, mVars, nVars, rVars, tVars, dVars,
                        hVars, kVars, hcVars, syVars, psVars>>
    \/ /\ under = "simconf" /\ TB!ConfNext
       /\ UNCHANGED <<vVars, lVars, pVars, oVars, cVars, mVars, yVars, rVars, tVars, dVars,
                        hVars, kVars, hcVars, syVars, psVars>>
    \/ /\ under = "redblack" /\ TR!RbNext
       /\ UNCHANGED <<vVars, lVars, pVars, oVars, cVars, mVars, yVars, nVars, tVars, dVars,
                        hVars, kVars, hcVars, syVars, psVars>>
    \/ /\ under = "splay" /\ TR!SpNext
       /\ UNCHANGED <<vVars, lVars, pVars, oVars, cVars, mVars, yVars, nVars, rVars, dVars,
                        hVars, kVars, hcVars, syVars, psVars>>
    \/ /\ under = "decrypt" /\ DE!DecNext
       /\ UNCHANGED <<vVars, lVars, pVars, oVars, cVars, mVars, yVars, nVars, rVars, tVars,
                        hVars, kVars, hcVars, syVars, psVars>>
    \/ /\ under = "digest" /\ DE!Md5Next
       /\ UNCHANGED <<vVars, lVars, pVars, oVars, cVars, mVars, yVars, nVars, rVars, tVars,
                        dVars, kVars, hcVars, syVars, psVars>>
    \/ /\ under = "partitions" /\ HD!HdNext
       /\ UNCHANGED <<vVars, lVars, pVars, oVars, cVars, mVars, yVars, nVars, rVars, tVars,
                        dVars, hVars, hcVars, syVars, psVars>>
    \/ /\ under = "command" /\ HC!HcNext
       /\ UNCHANGED <<vVars, lVars, pVars, oVars, cVars, mVars, yVars, nVars, rVars, tVars,
                        dVars, hVars, kVars, syVars, psVars>>
    \/ /\ under = "settings" /\ SY!SysNext
       /\ UNCHANGED <<vVars, lVars, pVars, oVars, cVars, mVars, yVars, nVars, rVars, tVars,
                        dVars, hVars, kVars, hcVars, psVars>>
    \/ /\ under = "typeset" /\ PS!PsNext
       /\ UNCHANGED <<vVars, lVars, pVars, oVars, cVars, mVars, yVars, nVars, rVars, tVars,
                        dVars, hVars, kVars, hcVars, syVars>>

MCSpec == MCInit /\ [][MCNext /\ UNCHANGED under]_<<under, vVars, lVars, pVars, oVars, cVars, mVars, yVars, nVars, rVars, tVars,
                            dVars, hVars, kVars, hcVars, syVars,
                            psVars>>

----------------------------------------------------------------------------
\* What is heard of a song is what the preference and the volumes ask for.
VocalFollows == under = "volume" => SV!VocalFollows

\* A row of lyrics shows its sentence or nothing.
CleanRows == under = "lyrics" => LY!CleanRows

\* A picture shows of every drawing what falls inside it, and nothing else
\* changes.
Clipped == under = "picture" => PI!Clipped

\* An object holds what has been put into it.
Holds == under = "object" => XO!Holds

\* A job is started once in each minute its line names, and in no other.
RunsWhenDue == under = "cron" => TB!RunsWhenDue

\* A table of machines that says it has not changed holds what was loaded and
\* added.
KeptUnlessChanged == under = "machines" => TB!KeptUnlessChanged

\* A round of a playlist gives every entry once.
WholeRounds == under = "playlist" => TB!WholeRounds

\* A variable has the first value it was given.
FirstWins == under = "simconf" => TB!FirstWins

\* A red-black tree stays balanced and holds its elements in order.
RedBlack == under = "redblack" => TR!RedBlack

\* A splay tree holds its elements in order.
Splayed == under = "splay" => TR!Splayed

\* A film is decrypted as a whole, however it is read.
Plain == under = "decrypt" => DE!Plain

\* A digest does not depend on the pieces of its message.
Digest == under = "digest" => DE!Digest

\* The logical partitions of a drive are found.
LogicalsFound == under = "partitions" => HD!LogicalsFound

\* A command that arrives whole is carried out once and answered; a damaged
\* one does nothing.
Obeyed == under = "command" => HC!Obeyed

\* A configuration file takes effect as its structure says.
ReadAsWritten == under = "settings" => SY!ReadAsWritten

\* What the PostScript engine writes is what the files ask for.
Printed == under = "typeset" => PS!Printed

=============================================================================

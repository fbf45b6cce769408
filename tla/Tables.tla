------------------------------- MODULE Tables -------------------------------
(***************************************************************************)
(* Four parts of the library that keep a table: the jobs of cron, the      *)
(* machines of mactable, the films of playlist and the variables of        *)
(* simconf. They share no state.                                           *)
(***************************************************************************)
EXTENDS Integers, Sequences, FiniteSets, FiniteSetsExt, SequencesExt

-----------------------------------------------------------------------------
(***************************************************************************)
(* The timetable of cron: cron/cronjob.c, which keeps the jobs and finds   *)
(* those of a minute, and cron/cron.c, whose thread starts them.           *)
(*                                                                         *)
(* A line of a timetable is five fields and a command.  A field is a star, *)
(* a step ("*/n"), a list of numbers, or a dash ("a-b", which the parser   *)
(* takes for the number whose digits are a and b); "bad" is any other.     *)
(* Masks are the sets of their bits.  Times is what localtime gives for    *)
(* the minutes of the model; now counts seconds.                           *)
(***************************************************************************)
CONSTANTS Lines,        \* lines that are added
          Times,        \* sequence of [min, hour, mday, mon, wday], one per minute
          Starts,       \* seconds at which the model begins
          Slots,        \* arguments of set_timeslot
          Delays,       \* seconds the thread is late, or slow
          MaxCronCalls

VARIABLES tbl,          \* the jobs, newest first
          findptr,      \* those that check_next has yet to look at
          ckmin,        \* cktbl: the minute that is looked for
          timeslot, on_the_run, cterm,
          callback,     \* the caller's function, or 0
          now,
          cpc,          \* where the thread is
          stime, wake,  \* the rest of its sleep, and when that ends
          ccall,        \* where the caller is
          started,      \* history: <<job, minute, what its thread does>>
          since,        \* history: the minute at which the thread began
          missed,       \* history: a minute may have been slept through
          cdead,        \* the process has been killed
          croncalls

table == <<tbl, findptr, ckmin>>
settings == <<timeslot, callback>>
flags == <<on_the_run, cterm>>
sleeping == <<stime, wake>>
cronhistory == <<started, since, missed>>
cronvars == <<table, settings, flags, now, cpc, sleeping, ccall, cronhistory, cdead,
              croncalls>>

Minute(t) == t \div 60
LastSecond == Len(Times) * 60 - 1
Tm(t) == Times[Minute(t) + 1]

----------------------------------------------------------------------------
\* parse_cron_string.

\* The place in the line of the blank behind the k-th field.
Column(line, k) == FoldLeft(LAMBDA n, f : n + f.width, k - 1, SubSeq(line.fields, 1, k))

Number(f) == f.nums[1] * 10 + f.nums[2]         \* a dash is passed over
Bits(f) ==
    CASE f.kind = "star" -> 0 .. 62
      [] f.kind = "step" -> {j \in 0 .. 62 : j % f.nums[1] = 0}
      [] f.kind = "list" -> {n \in Range(f.nums) : n < 63}
      [] f.kind = "dash" -> {Number(f)} \cap 0 .. 62

\* i32: a step is entered as long as the place in the line is below 32.
Mask(line, k) ==
    LET f == line.fields[k] IN
    IF f.kind = "step" /\ k > 1 /\ Column(line, k) >= 32 THEN {}
    ELSE IF k = 1 THEN Bits(f) ELSE Bits(f) \cap 0 .. 31

\* The first field that ends the parsing, if there is one.
Troubles(line) ==
    {k \in DOMAIN line.fields :
        line.fields[k].kind = "bad" \/ (line.fields[k].kind = "step" /\ line.fields[k].nums[1] = 0)}
Outcome(line) ==
    IF Troubles(line) # {}
    THEN IF line.fields[Min(Troubles(line))].kind = "bad" THEN "error" ELSE "division by 0"
    ELSE IF Len(line.fields) < 5 \/ ~line.cmd.given THEN "error" ELSE "job"

\* cronjob_add, also by load_crontable.  at is for the properties.
cronjob_add(line) ==
    /\ ccall = "idle" /\ croncalls < MaxCronCalls /\ croncalls' = croncalls + 1
    /\ tbl' = IF Outcome(line) = "job"
              THEN <<[mask |-> [k \in 1 .. 5 |-> Mask(line, k)], line |-> line,
                      at |-> Minute(now), id |-> Len(tbl)]>> \o tbl
              ELSE tbl
    /\ cdead' = (Outcome(line) = "division by 0")
    /\ UNCHANGED <<findptr, ckmin, settings, flags, now, cpc, sleeping, ccall, cronhistory>>

----------------------------------------------------------------------------
\* cron.c: the calls.

cron_set_timeslot(min) ==
    /\ ccall = "idle" /\ croncalls < MaxCronCalls /\ croncalls' = croncalls + 1
    /\ timeslot' = IF min > 60 \/ min <= 0 THEN timeslot ELSE min
    /\ missed' = (missed \/ (cpc # "none" /\ timeslot' # timeslot))
    /\ UNCHANGED <<table, callback, flags, now, cpc, sleeping, ccall, started, since, cdead>>

cron_set_callback ==
    /\ ccall = "idle" /\ croncalls < MaxCronCalls /\ croncalls' = croncalls + 1
    /\ callback = 0 /\ callback' = 1
    /\ UNCHANGED <<table, timeslot, flags, now, cpc, sleeping, ccall, cronhistory, cdead>>

cron_run ==
    /\ ccall = "idle" /\ on_the_run = 0 /\ croncalls < MaxCronCalls /\ croncalls' = croncalls + 1
    /\ cpc' = "start" /\ ccall' = "created"
    /\ since' = Minute(now)
    /\ UNCHANGED <<table, settings, flags, now, sleeping, started, missed, cdead>>

RunReturns ==
    /\ ccall = "created" /\ ccall' = "idle" /\ on_the_run' = 1
    /\ UNCHANGED <<table, settings, cterm, now, cpc, sleeping, cronhistory, cdead, croncalls>>

\* SIGUSR2 ends the process until the thread has set its handler, and a sleep
\* before its time.  The second sleep of the loop does not look at terminate.
Signalled(term) ==
    /\ \/ now' = now
       \/ cpc \in {"sleep", "nap"} /\ now' \in {wake - 30} \cap now .. LastSecond
    /\ cdead' = (cpc = "start")
    /\ cpc' = IF cpc = "sleep" THEN (IF term = 1 THEN "test" ELSE "nap")
              ELSE IF cpc = "nap" THEN "sleep" ELSE cpc
    /\ stime' = IF cpc = "sleep" THEN wake - now' ELSE stime
    /\ wake' = IF cpc \in {"sleep", "nap"} THEN now' + stime' ELSE wake
    /\ missed' = (missed \/ (cpc \in {"sleep", "nap"} /\ term = 0))

cron_stop ==
    /\ ccall = "idle" /\ on_the_run = 1 /\ ccall' = "join"
    /\ cterm' = 1 /\ Signalled(1)
    /\ UNCHANGED <<table, settings, on_the_run, started, since, croncalls>>

StopReturns ==
    /\ ccall = "join" /\ cpc = "out" /\ ccall' = "idle" /\ cpc' = "none" /\ on_the_run' = 0
    /\ UNCHANGED <<table, settings, cterm, now, sleeping, cronhistory, cdead, croncalls>>

----------------------------------------------------------------------------
\* cron.c: the thread.

SetsHandler ==
    /\ cpc = "start" /\ cpc' = "test"
    /\ UNCHANGED <<table, settings, flags, now, sleeping, ccall, cronhistory, cdead, croncalls>>

\* cron_main up to check_first, which takes the whole table.
CronLooks ==
    /\ cpc = "test" /\ cterm = 0
    /\ IF Tm(now).min % timeslot = 0
       THEN cpc' = "check" /\ ckmin' = Minute(now) /\ findptr' = tbl
       ELSE cpc' = "rest" /\ UNCHANGED <<ckmin, findptr>>
    /\ UNCHANGED <<tbl, settings, flags, now, sleeping, ccall, cronhistory, cdead, croncalls>>

CronEnds ==
    /\ cpc = "test" /\ cterm = 1 /\ cpc' = "out" /\ on_the_run' = 0
    /\ UNCHANGED <<table, settings, cterm, now, sleeping, ccall, cronhistory, cdead, croncalls>>

\* Mutant: the month is counted from 0, as localtime does.
CheckTableFrom0(tm) == <<tm.min, tm.hour, tm.mday, tm.mon, tm.wday>>

\* cktbl, field by field, as check_first fills it.
CheckTable(tm) == <<tm.min, tm.hour, tm.mday, tm.mon + 1, tm.wday>>

Due(job, m) == \A k \in 1 .. 5 : CheckTable(Times[m + 1])[k] \in job.mask[k]

\* A command in brackets is for the function that is set when its thread is
\* created; any other is for the shell.
default_callback(cmd) ==
    IF cmd.bracketed THEN (IF callback # 0 THEN "function" ELSE "nothing") ELSE "shell"

\* cronjob_check_next, and the thread that cron_main creates for what it finds.
cronjob_check_next ==
    /\ cpc = "check" /\ findptr # <<>> /\ findptr' = Tail(findptr)
    /\ started' = IF Due(Head(findptr), ckmin)
                  THEN Append(started, <<Head(findptr).id, ckmin,
                                         default_callback(Head(findptr).line.cmd)>>)
                  ELSE started
    /\ UNCHANGED <<tbl, ckmin, settings, flags, now, cpc, sleeping, ccall, since, missed, cdead,
                   croncalls>>

\* The time is read again, and the thread sleeps to where the next slot begins.
Pause(tm, sec) == ((59 - tm.min) % timeslot) * 60 + (60 - sec)

CronRests ==
    /\ (cpc = "check" /\ findptr = <<>>) \/ cpc = "rest"
    /\ \E d \in Delays : now' = now + d
    /\ now' <= LastSecond
    /\ stime' = Pause(Tm(now'), now' % 60) /\ wake' = now' + stime' /\ cpc' = "sleep"
    /\ missed' = (missed \/ Minute(now') # Minute(now))
    /\ UNCHANGED <<table, settings, flags, ccall, started, since, cdead, croncalls>>

\* sleep returns, some seconds late.
SleepEnds ==
    /\ cpc \in {"sleep", "nap"}
    /\ \E d \in Delays : now' = wake + d
    /\ now' <= LastSecond
    /\ IF cpc = "sleep" THEN cpc' = "test" /\ UNCHANGED wake
                        ELSE cpc' = "sleep" /\ wake' = now' + stime
    /\ UNCHANGED <<table, settings, flags, stime, ccall, cronhistory, cdead, croncalls>>

\* A signal that is not from cron_stop, some seconds before the sleep is over.
Interrupted ==
    /\ cpc \in {"sleep", "nap"} /\ croncalls < MaxCronCalls /\ croncalls' = croncalls + 1
    /\ Signalled(cterm)
    /\ UNCHANGED <<table, settings, flags, ccall, started, since>>

----------------------------------------------------------------------------
CronInit ==
    /\ tbl = <<>> /\ findptr = <<>> /\ ckmin = 0
    /\ timeslot = 1 /\ callback = 0 /\ on_the_run = 0 /\ cterm = 0
    /\ now \in Starts /\ cpc = "none" /\ stime = 0 /\ wake = 0 /\ ccall = "idle"
    /\ started = <<>> /\ since = 0 /\ missed = FALSE
    /\ cdead = FALSE /\ croncalls = 0

CronNext ==
    /\ ~cdead
    /\ \/ \E line \in Lines : cronjob_add(line)
       \/ \E min \in Slots : cron_set_timeslot(min)
       \/ cron_set_callback \/ cron_run \/ RunReturns \/ cron_stop \/ StopReturns
       \/ SetsHandler \/ CronLooks \/ CronEnds \/ cronjob_check_next \/ CronRests
       \/ SleepEnds \/ Interrupted

----------------------------------------------------------------------------
\* What a field means, and the lines that the parser reads as they are meant:
\* without a dash, and without a step behind the 32nd letter of the line.
Means(f, v) ==
    CASE f.kind = "star" -> TRUE
      [] f.kind = "step" -> v % f.nums[1] = 0
      [] f.kind = "list" -> v \in Range(f.nums)
Plain(line) ==
    \A k \in 1 .. 5 : line.fields[k].kind # "dash"
                      /\ (line.fields[k].kind = "step" /\ k > 1 => Column(line, k) < 32)
Meant(job, m) ==
    LET tm == Times[m + 1]
        date == <<tm.min, tm.hour, tm.mday, tm.mon + 1, tm.wday>>
    IN  \A k \in 1 .. 5 : Means(job.line.fields[k], date[k])

\* The thread starts a job once in each minute of its slots that the line
\* names, and in no other: across midnight and the end of a month, however
\* late it wakes, and while jobs are added.
RunsWhenDue ==
    LET plain == {i \in DOMAIN tbl : Plain(tbl[i].line)}
        job(id) == CHOOSE i \in DOMAIN tbl : tbl[i].id = id
    IN  /\ \A i, j \in DOMAIN started :
               started[i][1] = started[j][1] /\ started[i][2] = started[j][2] => i = j \/ missed
        /\ \A i \in DOMAIN started :
               job(started[i][1]) \in plain => Meant(tbl[job(started[i][1])], started[i][2])
        /\ cpc = "sleep" /\ ~missed /\ 60 % timeslot = 0 =>
               \A i \in plain, m \in since .. Minute(now) :
                   (m > tbl[i].at /\ Times[m + 1].min % timeslot = 0 /\ Meant(tbl[i], m))
                       => \E s \in DOMAIN started : started[s][1] = tbl[i].id /\ started[s][2] = m

-----------------------------------------------------------------------------
(***************************************************************************)
(* The table of machines (mactable/mactable.c): addresses and their MAC    *)
(* addresses, read from and written to a file, and verified with arp.      *)
(*                                                                         *)
(* A MAC address is NBytes numbers (6 in the code).  Its text is a         *)
(* sequence of hexadecimal digits, as numbers, and colons.  A line of the  *)
(* file is an address and such a text, or one that is passed over: a       *)
(* comment, or what the regular expression does not match (kind "none").   *)
(***************************************************************************)
CONSTANTS Num, NBytes,
          MacFiles,     \* what the file may hold at first: sequences of lines
          Ips, Macs,    \* addresses that are added, and that machines have
          MaxMacCalls

VARIABLES ipmac,        \* the slots
          macusecnt, have_changed,
          macfile,
          base,         \* history: the entries loaded and added since
          macloaded,    \* history: a file has been loaded
          maccalls

macvars == <<ipmac, macusecnt, have_changed, macfile, base, macloaded, maccalls>>

MacSlots == 1 .. Num
Colon == 16
End == 17               \* what follows the text
InUse == {i \in MacSlots : ipmac[i].inuse}
Entries == {<<ipmac[i].ip, ipmac[i].mac>> : i \in InUse}

----------------------------------------------------------------------------
\* mac_address: two digits for each byte.
mac_address(mac) ==
    FoldLeft(LAMBDA text, b : (IF text = <<>> THEN text ELSE Append(text, Colon))
                                  \o <<b \div 16, b % 16>>, <<>>, mac)

\* One byte is stored: after two digits, or after one that stands alone.
Stored(v1, v2, k) == IF k = 3 THEN v2 ELSE v2 * 16 + v1

\* One turn of the loop in macstr_pack, with the character c; nothing once all
\* bytes are there, or an error met.
PackStep(s, c) ==
    IF s.bad \/ Len(s.macv) = NBytes THEN s
    ELSE IF c = Colon /\ s.k = 0 THEN s
    ELSE IF c = End /\ ~(Len(s.macv) = NBytes - 1 /\ s.k = 1) THEN [s EXCEPT !.bad = TRUE]
    ELSE LET digit == c \notin {Colon, End}
             v1 == IF digit THEN c ELSE s.v1
             k  == IF digit THEN s.k + 1 ELSE 3
         IN  IF k = 1 THEN [s EXCEPT !.v1 = v1, !.v2 = v1, !.k = 1]
             ELSE [s EXCEPT !.macv = Append(@, Stored(v1, s.v2, k)), !.v1 = 0, !.v2 = 0, !.k = 0]

NULL == <<>>
macstr_pack(text) ==
    LET characters == [i \in 1 .. Len(text) + 1 |-> IF i <= Len(text) THEN text[i] ELSE End]
        s == FoldLeft(PackStep, [macv |-> <<>>, k |-> 0, v1 |-> 0, v2 |-> 0, bad |-> FALSE],
                      characters)
    IN  IF s.bad \/ Len(s.macv) < NBytes THEN NULL ELSE s.macv

----------------------------------------------------------------------------
Cleared ==
    [i \in MacSlots |-> [inuse |-> FALSE, verified |-> FALSE, idx |-> -1, ip |-> "0", mac |-> NULL]]

\* The slots after mctbl_add: the first free one, unless the pair is there or
\* there is no address.
Added(slots, ip, mac) ==
    LET free == {i \in MacSlots : ~slots[i].inuse}
        found == \E i \in MacSlots : slots[i].inuse /\ slots[i].ip = ip /\ slots[i].mac = mac
    IN  IF mac = NULL \/ found \/ free = {} THEN slots
        ELSE [slots EXCEPT ![CHOOSE f \in free : \A g \in free : f <= g] =
                  [inuse |-> TRUE, verified |-> FALSE, idx |-> -1, ip |-> ip, mac |-> mac]]

Used(slots) == Cardinality({i \in MacSlots : slots[i].inuse})

Call == maccalls < MaxMacCalls /\ maccalls' = maccalls + 1

mctbl_add(ip, mac) ==
    /\ Call
    /\ ipmac' = Added(ipmac, ip, mac)
    /\ macusecnt' = IF ipmac' # ipmac THEN macusecnt + 1 ELSE macusecnt
    /\ base' = IF ipmac' # ipmac THEN base \cup {<<ip, mac>>} ELSE base
    /\ UNCHANGED <<have_changed, macfile, macloaded>>

mctbl_clear_all ==
    /\ Call
    /\ ipmac' = Cleared /\ macusecnt' = 0 /\ base' = {}
    /\ UNCHANGED <<have_changed, macfile, macloaded>>

\* The reference: what a line says, its bytes being what stands between colons.
Byte(group) == FoldLeft(LAMBDA n, d : n * 16 + d, 0, group)
Says(line) ==
    LET colons == {0, Len(line.text) + 1} \cup {i \in DOMAIN line.text : line.text[i] = Colon}
        cuts == SetToSortSeq(colons, <)
    IN  <<line.ip, [b \in 1 .. Len(cuts) - 1 |->
                        Byte(SubSeq(line.text, cuts[b] + 1, cuts[b + 1] - 1))]>>

\* load_table: the lines are added one after the other.
mctbl_load_table ==
    /\ Call
    /\ LET lines == SelectSeq(macfile, LAMBDA l : l.kind = "pair")
       IN  /\ ipmac' = FoldLeft(LAMBDA slots, l : Added(slots, l.ip, macstr_pack(l.text)),
                                Cleared, lines)
           /\ base' = {Says(l) : l \in {lines[i] : i \in {i \in DOMAIN lines : ~lines[i].short}}}
    /\ macusecnt' = Used(ipmac') /\ have_changed' = FALSE /\ macloaded' = TRUE
    /\ UNCHANGED macfile

\* verify: arp answers with the MAC address the machine has, or not at all.
Answers == [Ips -> Macs \cup {NULL}]
Changed(slots, verified) == \E i \in MacSlots : verified[i].mac # slots[i].mac
Verified(slots, n, arp) ==
    IF ~slots[n].inuse \/ arp[slots[n].ip] = NULL THEN slots
    ELSE [slots EXCEPT ![n].mac = macstr_pack(mac_address(arp[slots[n].ip])), ![n].verified = TRUE]

\* Mutant: have_changed is left to whoever calls.
VerifyUnnoticed(n) ==
    /\ Call
    /\ \E arp \in Answers : ipmac' = Verified(ipmac, n, arp)
    /\ UNCHANGED <<have_changed, macusecnt, macfile, base, macloaded>>

mctbl_verify(n) ==
    /\ Call
    /\ \E arp \in Answers : ipmac' = Verified(ipmac, n, arp)
    /\ have_changed' = (have_changed \/ Changed(ipmac, ipmac'))
    /\ UNCHANGED <<macusecnt, macfile, base, macloaded>>

\* verify_all: those that are not verified.
AllVerified(arp) ==
    [i \in MacSlots |-> IF ipmac[i].verified THEN ipmac[i] ELSE Verified(ipmac, i, arp)[i]]

mctbl_verify_all ==
    /\ Call
    /\ \E arp \in Answers : ipmac' = AllVerified(arp)
    /\ have_changed' = (have_changed \/ Changed(ipmac, ipmac'))
    /\ UNCHANGED <<macusecnt, macfile, base, macloaded>>

\* save_table verifies first and writes nothing when the table is empty.
Written == LET used == SetToSortSeq({i \in MacSlots : ipmac'[i].inuse}, <)
           IN  [i \in DOMAIN used |-> [kind |-> "pair", ip |-> ipmac'[used[i]].ip, short |-> FALSE,
                                       text |-> mac_address(ipmac'[used[i]].mac)]]
mctbl_save_table ==
    /\ Call
    /\ \E arp \in Answers : ipmac' = AllVerified(arp)
    /\ have_changed' = (have_changed \/ Changed(ipmac, ipmac'))
    /\ macfile' \in IF InUse = {} THEN {macfile} ELSE {macfile, Written}     \* fopen may fail
    /\ UNCHANGED <<macusecnt, base, macloaded>>

mctbl_unset_verify_all ==
    /\ Call
    /\ ipmac' = [i \in MacSlots |-> [ipmac[i] EXCEPT !.verified = @ /\ ~ipmac[i].inuse]]
    /\ UNCHANGED <<macusecnt, have_changed, macfile, base, macloaded>>

\* external_call hands the caller every index to set.
mctbl_external_call ==
    /\ Call
    /\ ipmac' = [i \in MacSlots |-> IF ipmac[i].inuse THEN [ipmac[i] EXCEPT !.idx = i] ELSE ipmac[i]]
    /\ UNCHANGED <<macusecnt, have_changed, macfile, base, macloaded>>

mctbl_clear_change ==
    /\ Call /\ have_changed' = FALSE /\ base' = Entries
    /\ UNCHANGED <<ipmac, macusecnt, macfile, macloaded>>

MacInit ==
    /\ ipmac = Cleared /\ macusecnt = 0
    /\ have_changed \in BOOLEAN                 \* new_mac_table leaves it as it is
    /\ macfile \in MacFiles
    /\ base = {} /\ macloaded = FALSE /\ maccalls = 0

MacNext ==
    \/ \E ip \in Ips, mac \in Macs : mctbl_add(ip, mac)
    \/ \E n \in MacSlots : mctbl_verify(n)
    \/ mctbl_clear_all \/ mctbl_load_table \/ mctbl_verify_all \/ mctbl_save_table
    \/ mctbl_unset_verify_all \/ mctbl_external_call \/ mctbl_clear_change

----------------------------------------------------------------------------
\* As long as is_changed says no, the table holds what the file said when it was
\* loaded, byte for byte, and what has been added: a caller that saves the table
\* only when it has changed loses nothing.
KeptUnlessChanged == macloaded /\ ~have_changed => Entries = base

-----------------------------------------------------------------------------
(***************************************************************************)
(* The list of films (playlist/playlist.c): its times, its names and the   *)
(* pointer that walks through them.                                        *)
(*                                                                         *)
(* The text of a time is a record of its numbers and of whether its length *)
(* and its characters are right; the pointer is a position, 0 for NULL.    *)
(* A line of a file is such a text or a name; empty lines are left out of  *)
(* the files, as load_playlist leaves them.                                *)
(***************************************************************************)
CONSTANTS Films, TimeTexts, ListFiles, MaxPlCalls

VARIABLES start, stop, list, pointer, loop_mode,
          round,        \* history: the positions next has given since it began anew
          skipped,      \* history: a round has ended without an entry of the list
          plcalls

plvars == <<start, stop, list, pointer, loop_mode, round, skipped, plcalls>>

----------------------------------------------------------------------------
\* format_time: yyyymmdd-hhmm.
format_time(t) ==
    IF /\ t.wellformed
       /\ t.year >= 1900 /\ t.month \in 1 .. 12 /\ t.day \in 1 .. 31
       /\ t.hour \in 0 .. 23 /\ t.min \in 0 .. 59
    THEN t ELSE [wellformed |-> FALSE]              \* (time_t) -1

PlCall == plcalls < MaxPlCalls /\ plcalls' = plcalls + 1

pl_set_starttime(t) ==
    /\ PlCall /\ start' = format_time(t)
    /\ UNCHANGED <<stop, list, pointer, loop_mode, round, skipped>>

pl_set_stoptime(t) ==
    /\ PlCall /\ stop' = format_time(t)
    /\ UNCHANGED <<start, list, pointer, loop_mode, round, skipped>>

pl_add(fname) ==
    /\ PlCall /\ list' = Append(list, fname)
    /\ UNCHANGED <<start, stop, pointer, loop_mode, round, skipped>>

pl_clean ==
    /\ PlCall /\ list' = <<>> /\ pointer' = 0 /\ round' = <<>>
    /\ UNCHANGED <<start, stop, loop_mode, skipped>>

pl_first ==
    /\ PlCall /\ pointer' = 0 /\ round' = <<>>
    /\ UNCHANGED <<start, stop, list, loop_mode, skipped>>

pl_looping(mode) ==
    /\ PlCall /\ loop_mode' = IF mode >= 0 THEN (IF mode # 0 THEN 1 ELSE 0) ELSE loop_mode
    /\ UNCHANGED <<start, stop, list, pointer, round, skipped>>

\* Mutant: the end of the list is looked for behind the next entry.
StepsEarly ==
    LET after == IF pointer = 0 THEN 1 ELSE IF pointer + 1 >= Len(list) THEN 0 ELSE pointer + 1
    IN  IF after = 0 /\ loop_mode = 1 THEN 1 ELSE after

\* Where the pointer goes: the first entry when it is NULL, the next, or behind
\* the last one NULL, or the first again.
Steps ==
    LET after == IF pointer = Len(list) THEN 0 ELSE pointer + 1
    IN  IF pointer # 0 /\ after = 0 /\ loop_mode = 1 THEN 1 ELSE after

pl_next ==
    /\ PlCall /\ list # <<>>
    /\ pointer' = Steps
    /\ LET over == pointer' = 0 \/ (round # <<>> /\ pointer' = 1)
       IN  /\ skipped' = (skipped \/ (over /\ round # [i \in 1 .. Len(list) |-> i]))
           /\ round' = IF over THEN (IF pointer' = 0 THEN <<>> ELSE <<1>>) ELSE Append(round, pointer')
    /\ UNCHANGED <<start, stop, list, loop_mode>>

\* load_playlist: two lines of times, then the names.
AsTime(line) == IF line.kind = "time" THEN format_time(line.time) ELSE [wellformed |-> FALSE]
pl_load_playlist(file) ==
    /\ PlCall
    /\ start' = IF Len(file) >= 1 THEN AsTime(file[1]) ELSE start
    /\ stop' = IF Len(file) >= 2 THEN AsTime(file[2]) ELSE stop
    /\ list' = [i \in 1 .. (IF Len(file) > 2 THEN Len(file) - 2 ELSE 0) |-> file[i + 2].name]
    /\ pointer' = 0 /\ round' = <<>>
    /\ UNCHANGED <<loop_mode, skipped>>

PlInit ==
    /\ start = [wellformed |-> FALSE] /\ stop = start   \* not set by new_playlist
    /\ list = <<>> /\ pointer = 0 /\ loop_mode = 0
    /\ round = <<>> /\ skipped = FALSE /\ plcalls = 0

PlNext ==
    \/ \E t \in TimeTexts : pl_set_starttime(t) \/ pl_set_stoptime(t)
    \/ \E f \in Films : pl_add(f)
    \/ \E file \in ListFiles : pl_load_playlist(file)
    \/ \E mode \in {-1, 0, 1} : pl_looping(mode)
    \/ pl_clean \/ pl_first \/ pl_next

----------------------------------------------------------------------------
\* A round of next, from the first entry to NULL or to the first entry again,
\* gives every entry once and in order, those added on the way included.
WholeRounds == ~skipped

-----------------------------------------------------------------------------
(***************************************************************************)
(* Simple configuration files (simconf/simconf.c): variables and their     *)
(* types.  A name is a word and the case it is written in; a value is of   *)
(* the kind that the regular expressions of vartype tell apart: a number   *)
(* (which atoi takes modulo 2^IntBits), an address or any other text.      *)
(***************************************************************************)
CONSTANTS Words, Cases,     \* a name is a pair of these
          ConfValues,       \* records [kind, val]
          ConfFiles,        \* sequences of lines: [kind: "var", name, value] and others
          IntBits, MaxConfCalls

VARIABLES data,             \* the list, newest first
          meant,            \* history: the first value given to each word
          confcalls

confvars == <<data, meant, confcalls>>

Names == Words \X Cases
NoValue == [kind |-> "none"]

----------------------------------------------------------------------------
\* Mutant: names are compared as they are written.
SameWriting(a, b) == a = b

\* strcasecmp.
SameName(a, b) == a[1] = b[1]

\* sc_search_var: the first entry of that name.
search_var(d, var) ==
    LET at == {i \in DOMAIN d : SameName(d[i].str, var)}
    IN  IF at = {} THEN NoValue ELSE d[CHOOSE i \in at : \A j \in at : i <= j].value

variable_type(d, var) == search_var(d, var).kind

\* atoi keeps the low bits and the sign.
atoi(n) == LET m == n % 2 ^ IntBits IN IF m >= 2 ^ (IntBits - 1) THEN m - 2 ^ IntBits ELSE m

Kept(v) == IF v.kind = "int" THEN [v EXCEPT !.val = atoi(v.val)] ELSE v

Put(d, var, v) ==
    IF variable_type(d, var) # "none" THEN d ELSE <<[str |-> var, value |-> Kept(v)]>> \o d

\* What the three getters give: -1 or NULL for a variable of another type.
sc_getint(d, var) == IF variable_type(d, var) = "int" THEN search_var(d, var).val ELSE -1
sc_getip(d, var) == IF variable_type(d, var) = "ip" THEN search_var(d, var) ELSE NoValue
sc_getstr(d, var) == IF variable_type(d, var) \in {"ip", "str"} THEN search_var(d, var) ELSE NoValue

ConfCall == confcalls < MaxConfCalls /\ confcalls' = confcalls + 1
First(m, var, v) == IF m[var[1]] = NoValue THEN [m EXCEPT ![var[1]] = v] ELSE m

sc_add(var, v) ==
    /\ ConfCall
    /\ data' = Put(data, var, v) /\ meant' = First(meant, var, v)

\* sc_load: lines without a name or an equals sign are passed over; what has
\* been loaded before stays.
sc_load(file) ==
    /\ ConfCall
    /\ LET vars == SelectSeq(file, LAMBDA l : l.kind = "var")
       IN  /\ data' = FoldLeft(LAMBDA d, l : Put(d, l.name, l.value), data, vars)
           /\ meant' = FoldLeft(LAMBDA m, l : First(m, l.name, l.value), meant, vars)

sc_clean == ConfCall /\ data' = <<>> /\ meant' = [w \in Words |-> NoValue]

ConfInit == data = <<>> /\ meant = [w \in Words |-> NoValue] /\ confcalls = 0

ConfNext ==
    \/ \E var \in Names, v \in ConfValues : sc_add(var, v)
    \/ \E file \in ConfFiles : sc_load(file)
    \/ sc_clean

----------------------------------------------------------------------------
\* Whatever the case it is asked for in, and whatever has been added or loaded
\* later, a variable has the first value it was given, through the getter of
\* its type and through no other; a number that does not fit an int excepted.
FirstWins ==
    \A w \in Words, c \in Cases :
        LET m == meant[w]
            fits == m.kind = "int" => m.val < 2 ^ (IntBits - 1)
        IN  /\ fits => sc_getint(data, <<w, c>>) = (IF m.kind = "int" THEN m.val ELSE -1)
            /\ sc_getip(data, <<w, c>>) = (IF m.kind = "ip" THEN m ELSE NoValue)
            /\ sc_getstr(data, <<w, c>>) = (IF m.kind \in {"ip", "str"} THEN m ELSE NoValue)
=============================================================================

---------------------------- MODULE FileExchange ----------------------------
(***************************************************************************)
(* mini_filexchg: files fetched from and stored on a server over TCP       *)
(* (mini_filexchg.c), one client and the process the server forks for it.  *)
(* Each side is a straight program of reads and writes on two byte         *)
(* streams.  A byte is a tuple that says what it is part of; an int takes  *)
(* IntLen bytes, a digest one.  A read of an int takes what has come, up   *)
(* to IntLen (an int that was written at once comes at once); the reads of *)
(* names, files and digests that the code repeats take any part of it.     *)
(***************************************************************************)
EXTENDS Integers, Sequences

CONSTANTS Names,        \* remote names, sequences of letters
          Contents,     \* what the file that is moved may hold
          IntLen,       \* sizeof (int)
          BufLen,       \* BEST_BUFFER_SIZE
          MaxTrouble    \* bound: connections cut and files changed

Bytes(k, q) == [i \in DOMAIN q |-> <<k, q[i], i>>]
IntBytes(v) == [i \in 1 .. IntLen |-> <<"int", v, i>>]
Digest(q) == << <<"md5", q, 1>> >>
Letters(b) == [i \in DOMAIN b |-> IF b[i][1] \in {"int", "md5"} THEN "?" ELSE b[i][2]]

\* What bytes read as an int are worth: anything, unless they are one.
Worth(b) == IF \E v \in -1 .. 4 : b = IntBytes(v) THEN {b[1][2]} ELSE {-1, 0, 1, 2}

VARIABLES op, rname, lfile,     \* the call, the remote name and the local file
          store,        \* the server's file, by name
          upload,       \* TRUE: uploaddir is set
          badsign,      \* the client has the wrong request ("c"), the server the wrong response ("s")
          cl, sv,       \* the two programs
          c2s, s2c,
          trouble,
          grown         \* history: the server's file has changed while it was sent

fxvars == <<op, rname, lfile, store, upload, badsign, cl, sv, c2s, s2c, trouble, grown>>

\* pc, bytes still expected (explen, filelen, total_len), bytes read, what the
\* digest is of so far, result
Start(pc) == [pc |-> pc, left |-> 0, got |-> <<>>, sum |-> <<>>, rc |-> 0]
Ended(p) == p.pc = "end"
Min2(a, b) == IF a < b THEN a ELSE b

----------------------------------------------------------------------------
(* The client.                                                             *)

CSay(b) == c2s' = IF Ended(sv) THEN c2s ELSE c2s \o b
CGo(pc) == cl' = [cl EXCEPT !.pc = pc]
COnly == UNCHANGED <<op, rname, store, upload, badsign, sv, trouble, grown>>
CAt(pc) == cl.pc = pc /\ COnly

\* A read that ends the call when the connection is closed.
CEof(pc) ==
    /\ CAt(pc) /\ s2c = <<>> /\ Ended(sv)
    /\ CGo("end") /\ UNCHANGED <<lfile, c2s, s2c>>

CReadInt(pc, then(_)) ==
    /\ CAt(pc) /\ s2c # <<>>
    /\ LET k == Min2(IntLen, Len(s2c)) IN
       /\ s2c' = SubSeq(s2c, k + 1, Len(s2c))
       /\ \E v \in Worth(SubSeq(s2c, 1, k)) : then(v)

\* ftpget cuts the local file to nothing before it has asked for another.
mfc_connect ==
    /\ CAt("start")
    /\ lfile' = IF op = "get" THEN <<>> ELSE lfile
    /\ \/ op = "put" /\ lfile = <<>> /\ CGo("end") /\ UNCHANGED c2s
       \/ CGo("end") /\ UNCHANGED c2s               \* tcp->connect fails
       \/ /\ ~(op = "put" /\ lfile = <<>>)
          /\ CGo("response") /\ CSay(<< <<"sign", badsign = "c", 1>> >>)
    /\ UNCHANGED s2c

\* The signature of the server, then what is wanted: 0, 1 or 2.
CSign ==
    /\ CAt("response") /\ s2c # <<>> /\ s2c' = Tail(s2c)
    /\ IF Head(s2c)[2] THEN CGo("end") /\ UNCHANGED c2s
       ELSE \/ op = "get" /\ CGo("size") /\ CSay(IntBytes(0) \o IntBytes(Len(rname)) \o Bytes("name", rname))
            \/ op = "put" /\ CGo("accept") /\ CSay(IntBytes(1))
            \/ op = "time" /\ CSay(IntBytes(2)) /\ cl' = [cl EXCEPT !.pc = "time", !.left = 3]
    /\ UNCHANGED lfile

GetSize ==
    CReadInt("size", LAMBDA v :
        /\ cl' = [cl EXCEPT !.pc = IF v <= 0 THEN "end" ELSE "data", !.left = v]
        /\ UNCHANGED <<lfile, c2s>>)

\* Mutant: one read is taken for the file.
GetOnce ==
    /\ CAt("data") /\ s2c # <<>>
    /\ \E k \in 1 .. Min2(BufLen, Len(s2c)) :
        /\ s2c' = SubSeq(s2c, k + 1, Len(s2c))
        /\ lfile' = lfile \o Letters(SubSeq(s2c, 1, k))
        /\ cl' = [cl EXCEPT !.left = 0, !.pc = "result"]
        /\ CSay(Digest(lfile'))

\* ftpget's loop: it reads what there is, also past the size it was told.
GetData ==
    /\ CAt("data") /\ s2c # <<>>
    /\ \E k \in 1 .. Min2(BufLen, Len(s2c)) :
        /\ s2c' = SubSeq(s2c, k + 1, Len(s2c))
        /\ lfile' = lfile \o Letters(SubSeq(s2c, 1, k))
        /\ cl' = [cl EXCEPT !.left = @ - k, !.pc = IF cl.left > k THEN "data" ELSE "result"]
        /\ IF cl.left > k THEN UNCHANGED c2s ELSE CSay(Digest(lfile'))

GetResult ==
    CReadInt("result", LAMBDA v :
        /\ cl' = [cl EXCEPT !.pc = "end", !.rc = IF v = 1 THEN 1 ELSE 0]
        /\ UNCHANGED <<lfile, c2s>>)

\* ftpput: the length that is sent for the name is that of the answer just read.
PutAccepted ==
    CReadInt("accept", LAMBDA v :
        /\ IF v = 0 THEN CGo("end") /\ UNCHANGED c2s
           ELSE CGo("opened") /\ CSay(IntBytes(Min2(IntLen, Len(s2c))) \o Bytes("name", rname))
        /\ UNCHANGED lfile)

PutOpened ==
    CReadInt("opened", LAMBDA v :
        /\ IF v # 0 THEN CGo("end") /\ UNCHANGED c2s
           ELSE CGo("digest") /\ CSay(IntBytes(Len(lfile)) \o Bytes("byte", lfile))
        /\ UNCHANGED lfile)

\* The digest is read once, whatever comes; the end of the stream is no digest.
PutDigest ==
    /\ CAt("digest") /\ (s2c # <<>> \/ Ended(sv))
    /\ LET ok == s2c # <<>> /\ Head(s2c) = Digest(lfile)[1] IN
       /\ cl' = [cl EXCEPT !.pc = "end", !.rc = IF ok THEN 1 ELSE 0]
       /\ CSay(IntBytes(IF ok THEN 1 ELSE 0))
    /\ s2c' = IF s2c = <<>> THEN s2c ELSE Tail(s2c)
    /\ UNCHANGED lfile

\* gettimeofday: two structures and their digest.
mfc_gettimeofday ==
    /\ CAt("time") /\ s2c # <<>>
    /\ \E k \in 1 .. Min2(cl.left, Len(s2c)) :
        /\ s2c' = SubSeq(s2c, k + 1, Len(s2c))
        /\ LET all == cl.got \o SubSeq(s2c, 1, k) IN
           cl' = [cl EXCEPT !.got = all, !.left = @ - k,
                            !.pc = IF cl.left > k THEN "time" ELSE "end",
                            !.rc = IF cl.left > k THEN 0
                                   ELSE IF all[3] = Digest(Letters(SubSeq(all, 1, 2)))[1] THEN 1 ELSE 0]
    /\ UNCHANGED <<lfile, c2s>>

Client ==
    \/ mfc_connect \/ CSign \/ GetSize \/ GetData \/ GetResult
    \/ PutAccepted \/ PutOpened \/ PutDigest \/ mfc_gettimeofday
    \/ \E pc \in {"response", "size", "data", "result", "accept", "opened", "time"} : CEof(pc)

----------------------------------------------------------------------------
(* The server's process.                                                   *)

SSay(b) == s2c' = IF Ended(cl) THEN s2c ELSE s2c \o b
SGo(pc) == sv' = [sv EXCEPT !.pc = pc]
SAt(pc) == sv.pc = pc /\ UNCHANGED <<op, rname, lfile, upload, badsign, cl, trouble, grown>>

\* A read of nothing: the loop's break, and close.  The size of an upload and
\* the client's verdict are not looked at, but an upload that ends early is.
SEof(pc) ==
    /\ SAt(pc) /\ c2s = <<>> /\ Ended(cl) /\ cl.pc # "start"
    /\ SGo("end") /\ UNCHANGED <<store, c2s, s2c>>

SReadInt(pc, then(_)) ==
    /\ SAt(pc) /\ c2s # <<>>
    /\ LET k == Min2(IntLen, Len(c2s)) IN
       /\ c2s' = SubSeq(c2s, k + 1, Len(c2s))
       /\ \E v \in Worth(SubSeq(c2s, 1, k)) : then(v)

\* tcplib's accept has forked this process; the request's signature.
SSign ==
    /\ SAt("request") /\ c2s # <<>> /\ c2s' = Tail(c2s)
    /\ IF Head(c2s)[2] THEN SGo("end") /\ UNCHANGED s2c
       ELSE SGo("select") /\ SSay(<< <<"sign", badsign = "s", 1>> >>)
    /\ UNCHANGED store

\* for_gettimeofday is done at once.
fchg_server ==
    SReadInt("select", LAMBDA v :
        /\ CASE v = 0 -> SGo("dlen") /\ UNCHANGED s2c
             [] v = 1 -> SGo(IF upload THEN "ulen" ELSE "end") /\ SSay(IntBytes(IF upload THEN 1 ELSE 0))
             [] v = 2 -> SGo("end") /\ SSay(Bytes("time", <<"tv", "tz">>) \o Digest(<<"tv", "tz">>))
             [] OTHER -> SGo("end") /\ UNCHANGED s2c
        /\ UNCHANGED store)

\* The length of the name and the name, of either transfer.
SNameLen(pc, next) ==
    SReadInt(pc, LAMBDA v : sv' = [sv EXCEPT !.pc = next, !.left = v, !.got = <<>>] /\ UNCHANGED <<store, s2c>>)

SName(pc, next) ==
    /\ SAt(pc)
    /\ \/ /\ sv.left > 0 /\ c2s # <<>>
          /\ \E k \in 1 .. Min2(sv.left, Len(c2s)) :
              /\ c2s' = SubSeq(c2s, k + 1, Len(c2s))
              /\ sv' = [sv EXCEPT !.left = @ - k, !.got = @ \o Letters(SubSeq(c2s, 1, k))]
       \/ sv.left <= 0 /\ SGo(next) /\ UNCHANGED c2s
    /\ UNCHANGED <<store, s2c>>

\* for_download: open and fstat.  An empty file, and a name with two dots, or
\* of no file, end it.
DownOpen ==
    /\ SAt("dopen")
    /\ IF sv.got \notin DOMAIN store THEN SSay(IntBytes(-1)) /\ SGo("end")
       ELSE LET q == store[sv.got] IN
            /\ SSay(IntBytes(Len(q)))
            /\ IF q = <<>> THEN SGo("end")
               ELSE sv' = [sv EXCEPT !.pc = "dsend", !.left = Len(q)]
    /\ UNCHANGED <<store, c2s>>

\* The file is read by the buffer to where it ends now; the offset is what was
\* read of it.
DownSend ==
    /\ SAt("dsend")
    /\ LET q == store[sv.got]
           n == Min2(BufLen, Len(q) - Len(sv.sum))
           part == SubSeq(q, Len(sv.sum) + 1, Len(sv.sum) + n) IN
       IF n > 0
       THEN /\ SSay(Bytes("byte", part))
            /\ sv' = [sv EXCEPT !.left = @ - n, !.sum = @ \o part]
       ELSE SGo(IF sv.left = 0 THEN "dmd5" ELSE "end") /\ UNCHANGED s2c
    /\ UNCHANGED <<store, c2s>>

DownDigest ==
    /\ SAt("dmd5") /\ c2s # <<>> /\ c2s' = Tail(c2s)
    /\ SSay(IntBytes(IF Head(c2s) = Digest(sv.sum)[1] THEN 1 ELSE 0))
    /\ SGo("end")
    /\ UNCHANGED store

\* for_upload: the file is cut to nothing, and 0 says that it is open.
UpOpen ==
    /\ SAt("uopen")
    /\ store' = [n \in DOMAIN store \cup {sv.got} |-> IF n = sv.got THEN <<>> ELSE store[n]]
    /\ SSay(IntBytes(0)) /\ SGo("usize")
    /\ UNCHANGED c2s

UpSize ==
    SReadInt("usize", LAMBDA v :
        /\ sv' = [sv EXCEPT !.pc = IF v <= 0 THEN "end" ELSE "udata", !.left = v]
        /\ UNCHANGED <<store, s2c>>)

UpData ==
    /\ SAt("udata") /\ c2s # <<>>
    /\ \E k \in 1 .. Min2(Min2(sv.left, BufLen), Len(c2s)) :
        /\ c2s' = SubSeq(c2s, k + 1, Len(c2s))
        /\ store' = [store EXCEPT ![sv.got] = @ \o Letters(SubSeq(c2s, 1, k))]
        /\ sv' = [sv EXCEPT !.left = @ - k, !.pc = IF sv.left > k THEN "udata" ELSE "umd5"]
    /\ UNCHANGED s2c

\* Its digest is sent, and the verdict read for the log.
UpDigest ==
    /\ SAt("umd5") /\ SSay(Digest(store[sv.got])) /\ SGo("uend")
    /\ UNCHANGED <<store, c2s>>

UpEnds ==
    SReadInt("uend", LAMBDA v : SGo("end") /\ UNCHANGED <<store, s2c>>)

Server ==
    \/ SSign \/ fchg_server
    \/ SNameLen("dlen", "dname") \/ SName("dname", "dopen") \/ DownOpen \/ DownSend \/ DownDigest
    \/ SNameLen("ulen", "uname") \/ SName("uname", "uopen") \/ UpOpen \/ UpSize \/ UpData
    \/ UpDigest \/ UpEnds
    \/ \E pc \in {"request", "select", "dlen", "dmd5", "ulen", "usize", "udata", "uend"} : SEof(pc)
    \/ \E pc \in {"dname", "uname"} : sv.left > 0 /\ SEof(pc)

----------------------------------------------------------------------------
(* The connection is cut, and the server's file grows or is cut short while *)
(* it is sent.                                                             *)

Cut ==
    /\ trouble < MaxTrouble /\ trouble' = trouble + 1
    /\ cl.pc # "start" /\ ~Ended(cl)
    /\ cl' = [cl EXCEPT !.pc = "end"] /\ sv' = [sv EXCEPT !.pc = "end"]
    /\ UNCHANGED <<op, rname, lfile, store, upload, badsign, c2s, s2c, grown>>

FileChanges ==
    /\ trouble < MaxTrouble /\ trouble' = trouble + 1
    /\ rname \in DOMAIN store /\ op = "get"
    /\ \/ store' = [store EXCEPT ![rname] = Append(@, "z")]
       \/ store[rname] # <<>> /\ store' = [store EXCEPT ![rname] = SubSeq(@, 1, Len(@) - 1)]
    /\ grown' = 1
    /\ UNCHANGED <<op, rname, lfile, upload, badsign, cl, sv, c2s, s2c>>

FxInit ==
    /\ op \in {"get", "put", "time"} /\ rname \in Names
    /\ \E q \in Contents :
        \/ op = "get" /\ lfile = <<"old">> /\ store \in {[n \in {rname} |-> q], [n \in {} |-> q]}
        \/ op = "put" /\ lfile = q /\ store = [n \in {} |-> q]
        \/ op = "time" /\ lfile = <<>> /\ store = [n \in {} |-> q]
    /\ upload \in BOOLEAN /\ badsign \in {"none", "c", "s"}
    /\ cl = Start("start") /\ sv = Start("request")
    /\ c2s = <<>> /\ s2c = <<>> /\ trouble = 0 /\ grown = 0

FxNext == Client \/ Server \/ Cut \/ FileChanges

FxSpec == FxInit /\ [][FxNext]_fxvars

----------------------------------------------------------------------------
\* A get that says it succeeded has a copy of the whole file, and a put has
\* stored one under the name it was given, however the streams were cut into
\* reads and whenever the connection broke; unless the file changed under it.
CopiesExact ==
    (Ended(cl) /\ cl.rc = 1 /\ grown = 0 /\ op # "time") =>
        rname \in DOMAIN store /\ store[rname] = lfile

\* The server opens the file that the client names: "say file name length"
\* (mini_filexchg.c, line 620).
NameArrives == sv.pc \in {"uopen", "usize", "udata", "umd5", "uend"} => sv.got = rname
=============================================================================

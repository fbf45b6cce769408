----------------------------- MODULE StreamIOv1 -----------------------------
(***************************************************************************)
(* The first version of the streaming server (streamio_v1): the thread     *)
(* that answers the stations' packets, the table of stations with their    *)
(* files and buffers, and the threads that read and send.                  *)
(*                                                                         *)
(* The answering thread exists twice: response.c passes over a packet that *)
(* is damaged or comes while the services are stopped, server.c leaves its *)
(* loop.  A thread that streams holds the station's mutex from its read to *)
(* its last packet, which is one step here.  The stations are not part of  *)
(* the source: each may send any packet with a number it was once given,   *)
(* and asks for pieces that the file has.  The disk buffer holds PerDisk   *)
(* blocks of B bytes, a packet P of them.  The queue is that of MQueue.    *)
(***************************************************************************)
EXTENDS Integers, Sequences, FiniteSets, SequencesExt

CONSTANTS Addrs,        \* stations
          NEnt,         \* entries of the table
          Titles, SizeIn,       \* files and their sizes, -1 if there is none
          Counts,       \* file counts that stations use, above 0
          StbIds,       \* identities that stations draw
          B, P, PerDisk,
          V1Threads,
          MaxLives      \* bound on the restarts of the server

VARIABLES program,      \* "response" or "server"
          serving,      \* the answering thread is in its loop
          my_id,        \* drawn at random; a restart draws another
          stbent,       \* the table
          netqv1,       \* stations with a request
          taken,        \* the entry each streaming thread has popped, or -1
          stopped,      \* stop_services
          closer,       \* close_all: idle, or it waits for the queue
          sns,          \* numbers each station has been given
          owed,         \* history: pieces an entry was promised and not sent
          wrongly       \* history: a piece was sent with other bytes than the file's

v1vars == <<program, serving, my_id, stbent, netqv1, taken, stopped, closer, sns, owed, wrongly>>

Ents == 0 .. NEnt - 1
NoFile == "none"
Blocks(f) == {b \in 0 .. SizeIn[f] \div B : b * B < SizeIn[f]}
Pieces(f, b) == {i \in 0 .. B \div P : i * P < B /\ b * B + i * P < SizeIn[f]}

Fresh == [inuse |-> FALSE, addr |-> NoFile, fd |-> NoFile, pos |-> 0, filecount |-> 0, stbid |-> -1,
          size |-> 0, rdkio |-> 0, cdkio |-> 0, netio |-> 0, map |-> {},
          inbuf |-> NoFile, start |-> 0, buflen |-> 0]

Idle(n) == \A t \in V1Threads : taken[t] # n
Set(n, r) == stbent' = [stbent EXCEPT ![n] = r]

----------------------------------------------------------------------------
\* The answering thread.

\* A damaged packet, or any while the services are stopped.
Unheard(damaged) ==
    /\ serving /\ (damaged \/ stopped)
    /\ serving' = (program = "response")
    /\ UNCHANGED <<program, my_id, stbent, netqv1, taken, stopped, closer, sns, owed, wrongly>>

Heard == serving /\ ~stopped

\* The entry of the address, else the first one free.
stbtbl_regist(a) ==
    LET mine == {n \in Ents : stbent[n].inuse /\ stbent[n].addr = a}
        free == {n \in Ents : ~stbent[n].inuse}
        slot == IF mine # {} THEN mine ELSE free
        n == CHOOSE n \in slot : \A m \in slot : n <= m
        old == stbent[n]
    IN  /\ Heard
        /\ IF slot = {} THEN UNCHANGED <<stbent, sns>>       \* sn = -1
           ELSE /\ Set(n, IF mine # {} THEN old
                          ELSE [old EXCEPT !.inuse = TRUE, !.addr = a, !.fd = NoFile, !.size = 0,
                                           !.filecount = 0])
                /\ sns' = [sns EXCEPT ![a] = @ \cup {<<my_id, n>>}]
        /\ UNCHANGED <<program, serving, my_id, netqv1, taken, stopped, closer, owed, wrongly>>

\* A number of an earlier life is answered NEED_REGIST, and changes nothing.
check_regist(sn) == sn[1] = my_id

\* A repeated count keeps the file, an older one is an old packet; the mutex is
\* free unless close_all holds it, which is a step of its own.
stbtbl_setfile(a, sn, f, cnt, id) ==
    LET n == sn[2]
        r == stbent[n]
        new == [r EXCEPT !.stbid = id, !.filecount = cnt, !.pos = 0, !.size = SizeIn[f],
                         !.fd = IF SizeIn[f] < 0 THEN NoFile ELSE f, !.cdkio = -1]
    IN  /\ Heard /\ check_regist(sn)
        /\ r.stbid # id \/ cnt > r.filecount
        /\ Set(n, new) /\ owed' = [owed EXCEPT ![n] = {}]
        /\ UNCHANGED <<program, serving, my_id, netqv1, taken, stopped, closer, sns, wrongly>>

stbtbl_push(q, n) == IF n \in Range(q) THEN q ELSE Append(q, n)

\* setrequest and push.  The command has been overwritten with that of the answer
\* when push looks at it, so that a fast fetch goes to the slow queue as well.
stbtbl_setrequest(a, sn, cnt, block, pieces) ==
    LET n == sn[2]
        r == stbent[n]
    IN  /\ Heard /\ check_regist(sn) /\ r.filecount = cnt     \* else NEED_REOPEN
        /\ r.fd # NoFile => block \in Blocks(r.fd) /\ pieces \subseteq Pieces(r.fd, block)
        /\ Set(n, [r EXCEPT !.map = pieces, !.rdkio = block \div PerDisk, !.netio = block % PerDisk])
        /\ netqv1' = stbtbl_push(netqv1, n)
        /\ owed' = [owed EXCEPT ![n] = IF r.fd = NoFile THEN {} ELSE {<<block, i>> : i \in pieces}]
        /\ UNCHANGED <<program, serving, my_id, taken, stopped, closer, sns, wrongly>>

----------------------------------------------------------------------------
\* The streaming threads.

stbtbl_pop(t) ==
    /\ taken[t] = -1 /\ netqv1 # <<>>
    /\ taken' = [taken EXCEPT ![t] = Head(netqv1)] /\ netqv1' = Tail(netqv1)
    /\ UNCHANGED <<program, serving, my_id, stbent, stopped, closer, sns, owed, wrongly>>

Least(a, b) == IF a < b THEN a ELSE b
DiskLen == B * PerDisk

\* Mutant: the file is read on from where it is.
FromHere(r) == r.pos

From(r) == IF r.rdkio = r.cdkio + 1 THEN r.pos ELSE r.rdkio * DiskLen

\* stbtbl_read: the disk block, with a seek unless it is the next one.
stbtbl_read(r) ==
    LET from == From(r)
        left == IF r.fd = NoFile \/ from >= SizeIn[r.fd] THEN 0 ELSE SizeIn[r.fd] - from
        len == Least(left, DiskLen)
    IN  IF r.rdkio = r.cdkio THEN r
        ELSE [r EXCEPT !.cdkio = r.rdkio, !.pos = from + len, !.buflen = len,
                       !.inbuf = IF len = 0 THEN @ ELSE r.fd, !.start = IF len = 0 THEN @ ELSE from]

\* stbtbl_fill: the length of piece i is that of the whole buffer's piece i.
PieceBytes(r, i) == IF i < r.buflen \div P THEN P ELSE r.buflen % P

\* Pieces go out in order up to one that has no length.
stbtbl_fill(r) == {i \in r.map : \A j \in r.map : j <= i => PieceBytes(r, j) > 0}

\* The bytes of the piece that the file has are in the packet.
Proper(r, i) ==
    LET at == (r.rdkio * PerDisk + r.netio) * B + i * P
        len == Least(Least(P, B - i * P), SizeIn[r.fd] - at)
        off == r.netio * B + i * P
    IN  /\ r.inbuf = r.fd /\ r.start + off = at
        /\ off + len <= r.buflen /\ len <= PieceBytes(r, i)

\* lock, read, send, unlock.
streamio_main(t) ==
    LET n == taken[t]
        r == stbtbl_read(stbent[n])
        sent == stbtbl_fill(r)
        block == r.rdkio * PerDisk + r.netio
        real == IF r.fd = NoFile \/ block \notin Blocks(r.fd) THEN {}
                ELSE sent \cap Pieces(r.fd, block)
    IN  /\ n # -1
        /\ Set(n, r) /\ taken' = [taken EXCEPT ![t] = -1]
        /\ owed' = [owed EXCEPT ![n] = @ \ {<<block, i>> : i \in real}]
        /\ wrongly' = (wrongly \/ \E i \in real : ~Proper(r, i))
        /\ UNCHANGED <<program, serving, my_id, netqv1, stopped, closer, sns>>

----------------------------------------------------------------------------
\* close_all by a control thread: no more packets, an empty queue, and then the
\* entries, each under its mutex, which is one step here.
CloseAll ==
    /\ closer = "idle" /\ ~stopped
    /\ stopped' = TRUE /\ closer' = "waits"
    /\ UNCHANGED <<program, serving, my_id, stbent, netqv1, taken, sns, owed, wrongly>>

Closes ==
    /\ closer = "waits" /\ netqv1 = <<>>
    /\ stbent' = [n \in Ents |-> IF stbent[n].fd = NoFile THEN stbent[n]
                                 ELSE [stbent[n] EXCEPT !.fd = NoFile, !.filecount = 0]]
    /\ stopped' = FALSE /\ closer' = "idle"
    /\ owed' = [n \in Ents |-> {}]
    /\ UNCHANGED <<program, serving, my_id, netqv1, taken, sns, wrongly>>

\* A new process, with its table as new_stbtable makes it.
Restarts ==
    /\ my_id < MaxLives
    /\ my_id' = my_id + 1 /\ stbent' = [n \in Ents |-> Fresh] /\ netqv1' = <<>>
    /\ taken' = [t \in V1Threads |-> -1] /\ stopped' = FALSE /\ closer' = "idle" /\ serving' = TRUE
    /\ owed' = [n \in Ents |-> {}]
    /\ UNCHANGED <<program, sns, wrongly>>

V1Init ==
    /\ program \in {"response", "server"} /\ serving = TRUE /\ my_id = 1
    /\ stbent = [n \in Ents |-> Fresh] /\ netqv1 = <<>> /\ taken = [t \in V1Threads |-> -1]
    /\ stopped = FALSE /\ closer = "idle" /\ sns = [a \in Addrs |-> {}]
    /\ owed = [n \in Ents |-> {}] /\ wrongly = FALSE

V1Next ==
    \/ \E damaged \in BOOLEAN : Unheard(damaged)
    \/ \E a \in Addrs :
           \/ stbtbl_regist(a)
           \/ \E sn \in sns[a], cnt \in Counts :
                  \/ \E f \in Titles, id \in StbIds : stbtbl_setfile(a, sn, f, cnt, id)
                  \/ \E f \in Titles : \E block \in Blocks(f) :
                         \E i \in Pieces(f, block) :
                             \E pieces \in {{i}, Pieces(f, block)} :
                                 stbtbl_setrequest(a, sn, cnt, block, pieces)
    \/ \E t \in V1Threads : stbtbl_pop(t) \/ streamio_main(t)
    \/ CloseAll \/ Closes \/ Restarts

----------------------------------------------------------------------------
\* What a fetch was promised is sent, whatever is asked and opened while a thread is
\* about to send: once an entry is neither queued nor popped, every piece of its
\* last request has gone out with the bytes of the file.
FetchKept ==
    /\ ~wrongly
    /\ \A n \in Ents : n \notin Range(netqv1) /\ Idle(n) => owed[n] = {}
=============================================================================

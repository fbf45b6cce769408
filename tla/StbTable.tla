------------------------------ MODULE StbTable ------------------------------
(***************************************************************************)
(* streamio_v3/server.c and stb_table.c: the file server of the streaming  *)
(* protocol, on one channel (channels share no state but log counters).    *)
(* The main thread handles one packet at a time; service threads take      *)
(* stations from netq and send what they asked for; a control thread may   *)
(* call close_all and pause.                                               *)
(*                                                                         *)
(* A service thread holds the station's mutex while it reads the disk and  *)
(* sends the pieces, so that is one step.  The sizes 32768, 1425, 23 and   *)
(* 32 of the code are the constants below; netq is the queue of module     *)
(* MQueue, whose runs show that it holds each station once, in order.      *)
(***************************************************************************)
EXTENDS Integers, Sequences, FiniteSets, Functions

CONSTANTS
    Stations,   \* entries of the table
    Threads,    \* service threads of the channel
    Files,      \* names a client may open
    SizeOf,     \* the size of each file, -1 for one that cannot be opened
    StbIds,     \* the random identities of client processes
    Counts,     \* the file counts clients send, from 1
    BlockLen,   \* 32768, what a client reads at a time
    PieceLen,   \* 1425, the payload of a packet
    NPieces,    \* 23, pieces per block
    PerDisk     \* netio_block_per_diskio, blocks per disk read

ASSUME SizesAssumption ==
    /\ {BlockLen, PieceLen, NPieces, PerDisk} \subseteq Nat \ {0}
    /\ NPieces * PieceLen >= BlockLen      \* "23 x 1425 = 32775 > 32768"
ASSUME FilesAssumption == SizeOf \in [Files -> Nat \cup {-1}]
ASSUME StationsAssumption == Stations \subseteq Nat
ASSUME CountsAssumption == Counts \subseteq Nat \ {0} /\ StbIds \subseteq Nat

DiskLen == BlockLen * PerDisk          \* best_diskio_buffer_size
Pieces == 0 .. NPieces - 1
Closed == "closed"                     \* fd = -1
Idle == -1

CeilDiv(a, b) == (a + b - 1) \div b
Blocks(f) == CeilDiv(SizeOf[f], BlockLen)

VARIABLES
    stbid, filecount, fd, filesize,
    pos,            \* the offset of fd
    cdkio_block,    \* the disk block in the buffer
    buffer,         \* where the bytes of the buffer come from: file and offset
    buflen,
    request_block, map,
    netq,
    svc,            \* the station each service thread has popped, or Idle
    pause,          \* pd->stop_services, which the main thread looks at
    stop_services,  \* the variable of that name in stb_table.c
    closing         \* where close_all is; the stations it has yet to close

file == <<stbid, filecount, fd, filesize, pos>>
disk == <<cdkio_block, buffer, buflen>>
request == <<request_block, map>>
work == <<netq, svc>>
control == <<pause, stop_services, closing>>
vars == <<file, disk, request, work, control>>

NoCall == [at |-> "idle", todo |-> {}]

\* new_stbtable_v3, and the first regist of each station.
Init ==
    /\ stbid = [n \in Stations |-> -1]
    /\ filecount = [n \in Stations |-> 0]
    /\ fd = [n \in Stations |-> Closed]
    /\ filesize = [n \in Stations |-> 0]
    /\ pos = [n \in Stations |-> 0]
    /\ cdkio_block = [n \in Stations |-> 0]
    /\ buffer = [n \in Stations |-> [file |-> Closed, start |-> 0]]
    /\ buflen = [n \in Stations |-> 0]
    /\ request_block = [n \in Stations |-> 0]
    /\ map = [n \in Stations |-> {}]
    /\ netq = <<>> /\ svc = [t \in Threads |-> Idle]
    /\ pause = 0 /\ stop_services = 0 /\ closing = NoCall

-----------------------------------------------------------------------------
(* The main thread: streamio_v3_main drops every packet while paused. *)

\* setfile opens for a new client process, or for a count it has not seen.
Accepts(n, id, cnt) == stbid[n] # id \/ filecount[n] < cnt

\* Mutant: the buffer of the file before is taken for the new file's.
OpenKeepsBuffer(n, id, cnt, f) ==
    /\ stbid' = [stbid EXCEPT ![n] = id]
    /\ filecount' = [filecount EXCEPT ![n] = cnt]
    /\ fd' = [fd EXCEPT ![n] = IF SizeOf[f] < 0 THEN Closed ELSE f]
    /\ pos' = [pos EXCEPT ![n] = 0]
    /\ filesize' = [filesize EXCEPT ![n] = SizeOf[f]]
    /\ UNCHANGED <<disk, request, work, control>>

OpenIt(n, id, cnt, f) ==
    /\ stbid' = [stbid EXCEPT ![n] = id]
    /\ filecount' = [filecount EXCEPT ![n] = cnt]
    /\ fd' = [fd EXCEPT ![n] = IF SizeOf[f] < 0 THEN Closed ELSE f]
    /\ pos' = [pos EXCEPT ![n] = 0]
    /\ filesize' = [filesize EXCEPT ![n] = SizeOf[f]]
    /\ cdkio_block' = [cdkio_block EXCEPT ![n] = -1]
    /\ UNCHANGED <<buffer, buflen, request, work, control>>

\* An old or a repeated packet changes nothing; what it is answered is Reply.
stbtbl_setfile(n, id, cnt, f) ==
    /\ pause = 0
    /\ Accepts(n, id, cnt)
    /\ OpenIt(n, id, cnt, f)

\* The file size in the answer to OPENFILE, given the state it was handled in.
Reply(n, id, cnt, f) ==
    IF Accepts(n, id, cnt) THEN SizeOf[f]
    ELSE IF filecount[n] = cnt THEN filesize[n] ELSE -1

stbtbl_is_file_matched(n, cnt) == filecount[n] = cnt

stbtbl_push(n) == netq' = IF n \in Range(netq) THEN netq ELSE Append(netq, n)

\* FETCH: setrequest, then push.
stbtbl_setrequest(n, cnt, block, pieces) ==
    /\ pause = 0
    /\ stbtbl_is_file_matched(n, cnt)
    /\ request_block' = [request_block EXCEPT ![n] = block]
    /\ map' = [map EXCEPT ![n] = pieces]
    /\ stbtbl_push(n)
    /\ UNCHANGED <<file, disk, svc, control>>

-----------------------------------------------------------------------------
(* The service threads: streamio_v3_service. *)

stbtbl_pop(t) ==
    /\ svc[t] = Idle /\ netq # <<>>
    /\ svc' = [svc EXCEPT ![t] = Head(netq)]
    /\ netq' = Tail(netq)
    /\ UNCHANGED <<file, disk, request, control>>

\* Where the next read begins: lseek unless the next disk block is asked for.
ReadFrom(n) ==
    LET want == request_block[n] \div PerDisk
    IN  IF want = cdkio_block[n] + 1 THEN pos[n] ELSE want * DiskLen

\* What read delivers from offset from: nothing from a closed file or past its end.
Delivered(n, from) ==
    IF fd[n] = Closed \/ from >= SizeOf[fd[n]] THEN 0
    ELSE IF SizeOf[fd[n]] - from < DiskLen THEN SizeOf[fd[n]] - from ELSE DiskLen

\* stbtbl_read: the buffer, its length and the offset after it, given the request.
stbtbl_read(n) ==
    LET from == ReadFrom(n)
        got == Delivered(n, from)
    IN  IF request_block[n] \div PerDisk = cdkio_block[n]
        THEN [buffer |-> buffer[n], buflen |-> buflen[n], pos |-> pos[n]]
        ELSE [buffer |-> [file |-> fd[n], start |-> from], buflen |-> got, pos |-> from + got]

\* The length of piece i when the buffer holds len bytes, 0 if it is not sent.
PieceLength(len, i) == IF i < len \div PieceLen THEN PieceLen ELSE len % PieceLen

\* stbtbl_fill, called until it returns -1: it stops at a piece of no bytes.
stbtbl_fill(n, len) ==
    {i \in map[n] : \A j \in map[n] : j <= i => PieceLength(len, j) > 0}

\* The packets a service of station n sends, with the header of stbtbl_read.
Packets(n) ==
    LET r == stbtbl_read(n) IN
    {[filecnt |-> filecount[n], block |-> request_block[n], bid |-> i,
      len |-> PieceLength(r.buflen, i),
      file |-> r.buffer.file, have |-> r.buffer.start + r.buflen,
      at |-> r.buffer.start + (request_block[n] % PerDisk) * BlockLen + i * PieceLen] :
       i \in stbtbl_fill(n, r.buflen)}

streamio_v3_service(t) ==
    LET n == svc[t]
        r == stbtbl_read(n)
    IN
    /\ n # Idle
    /\ cdkio_block' = [cdkio_block EXCEPT ![n] = request_block[n] \div PerDisk]
    /\ buffer' = [buffer EXCEPT ![n] = r.buffer]
    /\ buflen' = [buflen EXCEPT ![n] = r.buflen]
    /\ pos' = [pos EXCEPT ![n] = r.pos]
    /\ svc' = [svc EXCEPT ![t] = Idle]
    /\ UNCHANGED <<stbid, filecount, fd, filesize, request, netq, control>>

-----------------------------------------------------------------------------
(* The control thread. *)

stiov3_pause(p) ==
    /\ pause' = p
    /\ UNCHANGED <<file, disk, request, work, stop_services, closing>>

\* stop_services here is the variable of stb_table.c, which nobody tests.
CloseAllBegin ==
    /\ closing.at = "idle"
    /\ stop_services' = 1
    /\ closing' = [at |-> "wait", todo |-> Stations]
    /\ UNCHANGED <<file, disk, request, work, pause>>

CloseAllQueueEmpty ==
    /\ closing.at = "wait" /\ netq = <<>>
    /\ closing' = [closing EXCEPT !.at = "close"]
    /\ UNCHANGED <<file, disk, request, work, pause, stop_services>>

CloseOne(n) ==
    /\ closing.at = "close" /\ n \in closing.todo
    /\ \A m \in closing.todo : n <= m
    /\ closing' = [closing EXCEPT !.todo = @ \ {n}]
    /\ filecount' = IF fd[n] = Closed THEN filecount ELSE [filecount EXCEPT ![n] = 0]
    /\ fd' = [fd EXCEPT ![n] = Closed]
    /\ UNCHANGED <<stbid, filesize, pos, disk, request, work, pause, stop_services>>

stbtbl_close_all ==
    /\ closing.at = "close" /\ closing.todo = {}
    /\ stop_services' = 0
    /\ closing' = NoCall
    /\ UNCHANGED <<file, disk, request, work, pause>>

-----------------------------------------------------------------------------
Main ==
    \E n \in Stations, cnt \in Counts :
        \/ \E id \in StbIds, f \in Files : stbtbl_setfile(n, id, cnt, f)
        \/ \E f \in Files, pieces \in SUBSET Pieces :
             \E block \in 0 .. Blocks(f) - 1 : stbtbl_setrequest(n, cnt, block, pieces)

Service(t) == stbtbl_pop(t) \/ streamio_v3_service(t)

CloseAll ==
    \/ CloseAllBegin \/ CloseAllQueueEmpty
    \/ \E n \in Stations : CloseOne(n)
    \/ stbtbl_close_all

Next ==
    \/ Main
    \/ \E t \in Threads : Service(t)
    \/ CloseAll
    \/ \E p \in {0, 1} : stiov3_pause(p)

Spec == Init /\ [][Next]_vars

-----------------------------------------------------------------------------
\* The bytes of piece i of block b that a file of that size really has.
Needed(size, b, i) ==
    LET inblock == IF size - b * BlockLen < BlockLen THEN size - b * BlockLen ELSE BlockLen
        left == inblock - i * PieceLen
    IN  IF left <= 0 THEN 0 ELSE IF left < PieceLen THEN left ELSE PieceLen

\* A packet carries the bytes its header names, of file f, and enough of them.
Truthful(p, f) ==
    LET need == Needed(SizeOf[f], p.block, p.bid) IN
    need > 0 =>
        /\ p.file = f
        /\ p.at = p.block * BlockLen + p.bid * PieceLen
        /\ need <= p.len
        /\ p.at + need <= p.have

\* What the station's buffer holds is what its file has at the disk block
\* cdkio_block names, and the offset of the file is where the next sequential
\* read expects it, however requests, reopens and other stations interleave.
BufferInStep ==
    \A n \in Stations : fd[n] # Closed =>
        LET base == cdkio_block[n] * DiskLen
            size == SizeOf[fd[n]]
        IN  \/ cdkio_block[n] = -1 /\ pos[n] = 0
            \/ /\ cdkio_block[n] >= 0 /\ base < size
               /\ buffer[n] = [file |-> fd[n], start |-> base]
               /\ buflen[n] = Delivered(n, base)
               /\ pos[n] = base + buflen[n]
            \/ /\ cdkio_block[n] >= 0 /\ base >= size
               /\ buflen[n] = 0 /\ pos[n] >= size

\* Every packet a service sends carries the bytes of the file the station has
\* open that its header (count, block, piece) names.
PacketsTruthful ==
    \A n \in Stations : fd[n] # Closed => \A p \in Packets(n) : Truthful(p, fd[n])

=============================================================================

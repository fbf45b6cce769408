----------------------------- MODULE StreamIOv2 -----------------------------
(***************************************************************************)
(* Streaming, version 2 (streamio_v2/): one channel of a client, read by   *)
(* one thread, the client's receiver thread client_main, and servers, each *)
(* with a thread streamio_v2_main that registers clients and a thread      *)
(* ce_svc_main that opens files and serves blocks.                         *)
(*                                                                         *)
(* A file is a number of pieces, one to a packet; a block is NetBuf pieces *)
(* and is fetched with one request; a server reads DiskFact blocks at a    *)
(* time.  Packets are lost, delayed, reordered and duplicated; every       *)
(* request is sent again after a timeout, and a server that does not       *)
(* answer Retries times is given up for any other that does.  Servers      *)
(* crash and come back at another port.                                    *)
(***************************************************************************)
EXTENDS Integers, Sequences, FiniteSets

CONSTANTS Servers,
          Size,         \* the number of pieces of every file; 0: not there
          Parameters,   \* pairs of NetBuf and DiskFact, of set_parameter
          Retries,
          MaxNet,       \* bound: packets on the way
          MaxDepth,     \* bound: reopens within reopens
          MaxOpens,     \* bound: opens in a behaviour
          MaxAsks,      \* bound: other calls in a behaviour
          MaxFaults     \* bound: lost, doubled and late packets, crashes, bad
                        \* packets and pauses, together

Files == DOMAIN Size
None == "none"

ASSUME V2Assumption ==
    /\ Parameters \subseteq (Nat \ {0}) \X (Nat \ {0})
    /\ Size \in [Files -> Nat] /\ None \notin Files

NoPort == [s |-> None, inc |-> 0]

VARIABLES net,          \* the packets on the way
          faults,       \* what went wrong so far
          \* servers
          param,        \* the channel's parameters, the same everywhere
          main,         \* streamio_v2_main: "up", "ended", or "down": no server
          inc,          \* stands for the port: one for every start
          stop_services,
          sl,           \* the channel's entry: fd, position, blkcnt, buffer
          \* the client
          sn_ours,      \* 1: find_server_pdu has this client's number
          server,       \* the port registered at, NoPort: ! have_server
          file, filecnt, fsize, need_filesize, need_reopen, have_file, abort,
          map, request_map, buffer, bidx, blen, ndcnt, ndtotal,
          stack, pc, count, \* the reader: sendwaits under way, place, retries
          rc,           \* the length of the block that is fetched
          copying,      \* client_main: the packet whose data it must copy
          opens, asks,
          due,          \* history: the piece the reader must get next
          wrong,        \* history: a read gave something else
          stale,        \* history: an answer to another request was taken
          early,        \* history: a block was taken before its last memcpy
          crossed       \* history: a server served another file than was asked for

serverVars == <<param, main, inc, stop_services, sl>>
fileVars == <<file, filecnt, fsize, need_filesize, need_reopen, have_file>>
blockVars == <<map, request_map, buffer, bidx, blen, ndcnt, ndtotal>>
readerVars == <<stack, pc, count, rc>>
bounds == <<opens, asks, faults>>
history == <<due, wrong, stale, early, crossed>>
v2vars == <<net, serverVars, sn_ours, server, fileVars, abort, blockVars,
            readerVars, copying, bounds, history>>

NetBuf == param[1]      \* packet_map: pieces in a block
DiskFact == param[2]    \* disknet_fact: blocks in a disk buffer
Junk == [file |-> None, at |-> 0]
NoFile == [fd |-> None, pos |-> 0, blkcnt |-> -1,
           buf |-> [i \in 0 .. NetBuf * DiskFact - 1 |-> Junk]]

V2Init ==
    /\ param \in Parameters
    /\ net = {} /\ faults = 0
    /\ main = [s \in Servers |-> "up"]
    /\ inc = [s \in Servers |-> 1]
    /\ stop_services = [s \in Servers |-> 0]
    /\ sl = [s \in Servers |-> NoFile]
    /\ sn_ours \in {0, 1}
    /\ server = NoPort
    /\ file = None /\ filecnt = 0 /\ fsize = -1
    /\ need_filesize = 0 /\ need_reopen = 0 /\ have_file = 0 /\ abort = 0
    /\ map = {} /\ request_map = 0
    /\ buffer = [i \in 0 .. NetBuf - 1 |-> Junk]
    /\ bidx = 0 /\ blen = 0 /\ ndcnt = 0 /\ ndtotal = 0
    /\ stack = <<>> /\ pc = "idle" /\ count = 0 /\ rc = 0
    /\ copying = <<>>
    /\ opens = 0 /\ asks = 0
    /\ due = 0
    /\ wrong = 0 /\ stale = 0 /\ early = 0 /\ crossed = 0

\* Whether anybody will read a packet.
Heard(m, up, ports) ==
    CASE m.cmd \in {"find", "regist"} -> up[m.s] = "up"
      [] m.cmd \in {"open", "fetch"} -> up[m.to.s] # "down" /\ m.to.inc = ports[m.to.s]
      [] OTHER -> TRUE

\* What does not fit on the net is lost, and what nobody will read.
Put(n, ms) ==
    LET heard == {m \in ms : Heard(m, main, inc)} IN
    IF Cardinality(n \cup heard) <= MaxNet THEN n \cup heard ELSE n

----------------------------------------------------------------------------
(* streamio_v2_main: a client that looks for a server gets its packet back,*)
(* and one that registers gets the port of its entry, which keeps the file *)
(* it has open.                                                            *)

MainEnds(s) ==
    /\ main' = [main EXCEPT ![s] = "ended"]
    /\ net' = {m \in net : Heard(m, main', inc)}

\* Any packet while the services are stopped ends the thread.
MainServes(s, m) ==
    IF stop_services[s] = 1
    THEN MainEnds(s)
    ELSE /\ net' = Put(net \ {m}, {IF m.cmd = "find" THEN [cmd |-> "found", s |-> s]
                                   ELSE [cmd |-> "port", s |-> s, inc |-> inc[s]]})
         /\ UNCHANGED main

MainReceives(s) ==
    \E m \in net :
        /\ m.cmd \in {"find", "regist"} /\ m.s = s
        /\ main[s] = "up"
        /\ MainServes(s, m)
        /\ UNCHANGED <<param, inc, stop_services, sl, sn_ours, server, fileVars, abort,
                       blockVars, readerVars, copying, bounds, history>>

----------------------------------------------------------------------------
(* ce_svc_main: remote_openfile and remote_fetch_file.                     *)

remote_openfile(s, m) ==
    /\ IF Size[m.file] > 0
       THEN /\ sl' = [sl EXCEPT ![s] = [NoFile EXCEPT !.fd = m.file, !.buf = sl[s].buf]]
            /\ net' = Put(net \ {m}, {[cmd |-> "opened", file |-> m.file, cnt |-> m.cnt]})
       ELSE /\ sl' = [sl EXCEPT ![s].fd = None]
            /\ net' = Put(net \ {m}, {[cmd |-> "error", cnt |-> m.cnt]})
    /\ UNCHANGED crossed

\* The disk buffer after the block blk was read at the position pos.
Filled(e, blk, pos) ==
    [e EXCEPT !.pos = IF pos + NetBuf * DiskFact < Size[e.fd]
                      THEN pos + NetBuf * DiskFact ELSE Size[e.fd],
              !.blkcnt = blk,
              !.buf = [i \in DOMAIN e.buf |->
                          IF pos + i < Size[e.fd] THEN [file |-> e.fd, at |-> pos + i]
                          ELSE e.buf[i]]]

\* Mutant: a disk buffer that holds a block is not filled again.
FilledOnce(e, nd) == IF e.blkcnt >= 0 THEN e ELSE Filled(e, nd \div DiskFact, e.pos)

Buffered(e, nd) ==
    LET blk == nd \div DiskFact IN
    IF blk = e.blkcnt THEN e
    ELSE Filled(e, blk, IF blk = e.blkcnt + 1 THEN e.pos ELSE blk * NetBuf * DiskFact)

\* Whatever file is open is served: filecnt of the packet is not looked at.
remote_fetch_file(s, m) ==
    IF sl[s].fd = None
    THEN /\ net' = Put(net \ {m}, {[cmd |-> "reopen"]})
         /\ UNCHANGED <<sl, crossed>>
    ELSE LET e == Buffered(sl[s], m.nd)
             base == (m.nd % DiskFact) * NetBuf IN
         /\ sl' = [sl EXCEPT ![s] = e]
         /\ net' = Put(net \ {m}, {[cmd |-> "data", cnt |-> m.cnt, nd |-> m.nd, i |-> i,
                                    p |-> e.buf[base + i]] : i \in m.map})
         /\ crossed' = IF e.fd # m.file THEN 1 ELSE crossed

EntryReceives(s) ==
    \E m \in net :
        /\ m.cmd \in {"open", "fetch"} /\ m.to = [s |-> s, inc |-> inc[s]]
        /\ IF stop_services[s] = 1 THEN net' = net \ {m} /\ UNCHANGED <<sl, crossed>>
           ELSE IF m.cmd = "open" THEN remote_openfile(s, m) ELSE remote_fetch_file(s, m)
        /\ UNCHANGED <<param, main, inc, stop_services, sn_ours, server, fileVars, abort,
                       blockVars, readerVars, copying, bounds, due, wrong, stale, early>>

----------------------------------------------------------------------------
(* client_main: cs_generic and response.                                   *)

cs_generic(m, n) ==
    /\ net' = IF m.cmd = "found" /\ sn_ours = 1 /\ server = NoPort
              THEN Put(n, {[cmd |-> "regist", s |-> m.s]}) ELSE n
    /\ server' = IF m.cmd = "port" /\ server = NoPort
                 THEN [s |-> m.s, inc |-> m.inc] ELSE server
    /\ UNCHANGED <<fsize, need_filesize, need_reopen, map, request_map, copying, stale>>

\* An answer to an open, of any open, is taken while one is awaited.
ResponseOpen(m) ==
    /\ need_filesize' = 0
    /\ fsize' = IF need_filesize = 0 THEN fsize
                ELSE IF m.cmd = "opened" THEN Size[m.file] ELSE 0
    /\ need_reopen' = IF need_filesize = 1 /\ m.cmd = "opened" THEN 0 ELSE need_reopen
    /\ stale' = IF need_filesize = 1 /\ m.cnt # filecnt THEN 1 ELSE stale
    /\ UNCHANGED <<map, request_map, copying>>

\* Bound: with MaxDepth reopens under way another one is lost.
ResponseReopen ==
    /\ need_reopen' = IF Len(stack) < MaxDepth THEN 1 ELSE need_reopen
    /\ UNCHANGED <<fsize, need_filesize, map, request_map, copying, stale>>

\* Neither filecnt nor ndcnt of the packet are looked at.
ResponseFetch(m) ==
    /\ IF request_map > 0 /\ m.i \in map
       THEN /\ map' = map \ {m.i}
            /\ request_map' = request_map - 1
            /\ copying' = <<m>>
            /\ stale' = IF <<m.cnt, m.nd>> # <<filecnt, ndcnt>> THEN 1 ELSE stale
       ELSE UNCHANGED <<map, request_map, copying, stale>>
    /\ UNCHANGED <<fsize, need_filesize, need_reopen>>

Response(m) ==
    \/ m.cmd \in {"opened", "error"} /\ ResponseOpen(m)
    \/ m.cmd = "reopen" /\ ResponseReopen
    \/ m.cmd = "data" /\ ResponseFetch(m)

\* A packet is taken off the net, or will come once more.
Receive(cmds) ==
    /\ copying = <<>>
    /\ \E m \in net :
        /\ m.cmd \in cmds
        /\ \E again \in {0, 1} :
            /\ faults + again <= MaxFaults
            /\ faults' = faults + again
            /\ LET n == IF again = 1 THEN net ELSE net \ {m} IN
               IF m.cmd \in {"found", "port"} THEN cs_generic(m, n)
               ELSE net' = n /\ Response(m) /\ UNCHANGED server
    /\ UNCHANGED <<serverVars, sn_ours, file, filecnt, have_file, abort, buffer, bidx,
                   blen, ndcnt, ndtotal, readerVars, opens, asks, due, wrong, early, crossed>>

\* The data is copied after the map and the count say that it was.
ResponseCopy ==
    /\ copying # <<>>
    /\ buffer' = [buffer EXCEPT ![copying[1].i] = copying[1].p]
    /\ copying' = <<>>
    /\ UNCHANGED <<net, serverVars, sn_ours, server, fileVars, abort, map, request_map,
                   bidx, blen, ndcnt, ndtotal, readerVars, bounds, history>>

----------------------------------------------------------------------------
(* The reader: internal_sendwait, called by internal_reopen ("open") and   *)
(* internal_read ("fetch"), and calling internal_reopen itself.            *)

Op == stack[Len(stack)]
Waits == IF Op = "open" THEN need_filesize = 1 ELSE request_map # 0

Packet ==
    IF Op = "open" THEN [cmd |-> "open", to |-> server, file |-> file, cnt |-> filecnt]
    ELSE [cmd |-> "fetch", to |-> server, file |-> file, cnt |-> filecnt, nd |-> ndcnt,
          map |-> map]

clientRest == <<serverVars, sn_ours, file, filecnt, copying>>

\* internal_send.
Send ==
    /\ pc = "send"
    /\ IF server # NoPort
       THEN net' = Put(net, {Packet}) /\ pc' = "wait"
       ELSE /\ net' = Put(net, {[cmd |-> "find", s |-> s] : s \in Servers})
            /\ pc' = "find"
    /\ UNCHANGED <<clientRest, server, fsize, need_filesize, need_reopen, have_file, abort,
                   blockVars, stack, count, rc, bounds, history>>

\* A timeout while a packet is on its way is one of the faults.
OnTime ==
    \/ net = {} /\ copying = <<>> /\ UNCHANGED faults
    \/ net # {} /\ faults < MaxFaults /\ faults' = faults + 1

\* The wait for a server ends with one, or after a second.
Find ==
    /\ pc = "find"
    /\ IF server = NoPort THEN OnTime ELSE UNCHANGED faults
    /\ pc' = IF abort = 1 THEN "again" ELSE "send"
    /\ UNCHANGED <<net, clientRest, server, fsize, need_filesize, need_reopen, have_file,
                   abort, blockVars, stack, count, rc, opens, asks, history>>

\* Mutant: a server that does not answer is asked for ever.
TimeoutKeepsServer ==
    /\ pc = "wait" /\ Waits /\ need_reopen = 0
    /\ OnTime
    /\ count' = IF count + 1 >= Retries THEN 0 ELSE count + 1
    /\ pc' = "send"
    /\ UNCHANGED <<net, clientRest, server, fsize, need_filesize, need_reopen, have_file,
                   abort, blockVars, stack, rc, opens, asks, history>>

Timeout ==
    /\ pc = "wait" /\ Waits /\ need_reopen = 0
    /\ OnTime
    /\ count' = IF count + 1 >= Retries THEN 0 ELSE count + 1
    /\ server' = IF count + 1 >= Retries THEN NoPort ELSE server
    /\ pc' = "send"
    /\ UNCHANGED <<net, clientRest, fsize, need_filesize, need_reopen, have_file, abort,
                   blockVars, stack, rc, opens, asks, history>>

Reopen ==
    /\ pc = "wait" /\ Waits /\ need_reopen = 1
    /\ need_reopen' = 0
    /\ fsize' = 0
    /\ need_filesize' = 1
    /\ stack' = Append(stack, "open")
    /\ count' = 0
    /\ pc' = "send"
    /\ UNCHANGED <<net, clientRest, server, have_file, abort, blockVars, rc, bounds, history>>

\* cli_openfile and cli_read go on with what internal_reopen and internal_read
\* return.
OpenDone(size) ==
    /\ have_file' = IF size > 0 THEN 1 ELSE have_file
    /\ ndtotal' = IF size > 0 THEN (size + NetBuf - 1) \div NetBuf ELSE ndtotal
    /\ UNCHANGED <<bidx, blen, ndcnt, due, wrong>>

Shorter(a, b) == IF a < b THEN a ELSE b

Due(b, l) ==
    \A i \in 0 .. l - 1 : buffer[b + i] = [file |-> file, at |-> due + i]

\* A read of l pieces of the n that the block has from b on; of none if n is
\* -1.
Gives(b, n, l0) ==
    LET l == Shorter(n, l0) IN
    IF n <= 0
    THEN /\ blen' = n /\ bidx' = b
         /\ UNCHANGED <<due, wrong>>
    ELSE /\ wrong' = IF Due(b, l) \/ abort = 1 THEN wrong ELSE 1
         /\ blen' = n - l
         /\ bidx' = b + l
         /\ due' = due + l

\* What cli_read was asked for is looked at when the block is there.
ReadDone(n) ==
    /\ \E l \in 1 .. NetBuf : Gives(0, n, l)
    /\ ndcnt' = ndcnt + 1
    /\ UNCHANGED <<have_file, ndtotal>>

\* A sendwait returns to the one that called it, or to the client's caller.
Pop(ok) ==
    /\ stack' = SubSeq(stack, 1, Len(stack) - 1)
    /\ pc' = IF Len(stack) = 1 THEN "idle" ELSE "again"
    /\ count' = 0
    /\ IF Len(stack) > 1
       THEN UNCHANGED <<have_file, ndtotal, bidx, blen, ndcnt, due, wrong, rc>>
       ELSE /\ IF Op = "open" THEN OpenDone(IF ok THEN fsize ELSE -1)
               ELSE ReadDone(IF ok THEN rc ELSE -1)
            /\ rc' = 0
    /\ UNCHANGED <<net, clientRest, server, fsize, need_filesize, need_reopen, abort, map,
                   request_map, buffer, bounds, stale, crossed>>

Answered ==
    /\ pc = "wait" /\ ~Waits
    /\ Pop(TRUE)
    /\ early' = IF Op = "fetch" /\ copying # <<>> THEN 1 ELSE early

\* The loop around a sendwait that did not return 0.
Again ==
    /\ pc = "again"
    /\ IF abort = 1
       THEN Pop(FALSE) /\ UNCHANGED early
       ELSE /\ pc' = "send" /\ count' = 0
            /\ UNCHANGED <<net, clientRest, server, fsize, need_filesize, need_reopen,
                           have_file, abort, blockVars, stack, rc, bounds, history>>

Reader == Send \/ Find \/ Timeout \/ Reopen \/ Answered \/ Again

----------------------------------------------------------------------------
(* The calls of the client's user, and abort by another thread.            *)

cli_openfile(f) ==
    /\ pc = "idle" /\ opens < MaxOpens
    /\ opens' = opens + 1
    /\ abort' = 0
    /\ filecnt' = filecnt + 1
    /\ file' = f
    /\ fsize' = 0 /\ need_filesize' = 1
    /\ ndcnt' = 0 /\ ndtotal' = 0 /\ bidx' = 0 /\ blen' = 0
    /\ stack' = <<"open">> /\ pc' = "send" /\ count' = 0
    /\ due' = 0 /\ wrong' = 0 /\ stale' = 0 /\ early' = 0 /\ crossed' = 0
    /\ UNCHANGED <<net, serverVars, sn_ours, server, need_reopen, have_file, map,
                   request_map, buffer, rc, copying, asks, faults>>

Ask == pc = "idle" /\ asks < MaxAsks /\ asks' = asks + 1

\* The rest of the block that was read last.
ReadBuffered(l) ==
    /\ Ask /\ have_file = 1 /\ blen > 0
    /\ Gives(bidx, blen, l)
    /\ UNCHANGED <<net, serverVars, sn_ours, server, fileVars, abort, map, request_map,
                   buffer, ndcnt, ndtotal, readerVars, copying, opens,
                   faults, stale, early, crossed>>

ReadEnd ==
    /\ Ask /\ have_file = 1 /\ blen <= 0 /\ ndcnt >= ndtotal
    /\ wrong' = IF abort = 1 \/ ndtotal = 0 \/ due = Size[file] THEN wrong ELSE 1
    /\ UNCHANGED <<net, serverVars, sn_ours, server, fileVars, abort, blockVars, readerVars,
                   copying, opens, faults, due, stale, early, crossed>>

\* internal_read.
ReadBlock ==
    /\ Ask /\ have_file = 1 /\ blen <= 0 /\ ndcnt < ndtotal
    /\ bidx' = 0
    /\ rc' = Shorter(NetBuf, fsize - ndcnt * NetBuf)
    /\ request_map' = rc'
    /\ map' = 0 .. rc' - 1
    /\ stack' = <<"fetch">> /\ pc' = "send" /\ count' = 0
    /\ wrong' = 0 /\ early' = 0
    /\ UNCHANGED <<net, serverVars, sn_ours, server, fileVars, abort, buffer, blen, ndcnt,
                   ndtotal, copying, opens, faults, due, stale, crossed>>

cli_reopen ==
    /\ Ask
    /\ ndcnt' = 0 /\ bidx' = 0 /\ blen' = 0
    /\ due' = 0
    /\ UNCHANGED <<net, serverVars, sn_ours, server, fileVars, abort, map, request_map,
                   buffer, ndtotal, readerVars, copying, opens, faults, wrong, stale, early,
                   crossed>>

cli_closefile ==
    /\ Ask /\ have_file = 0
    /\ have_file' = 1
    /\ UNCHANGED <<net, serverVars, sn_ours, server, file, filecnt, fsize, need_filesize,
                   need_reopen, abort, blockVars, readerVars, copying, opens, faults,
                   history>>

cli_abort ==
    /\ abort = 0 /\ pc # "idle"
    /\ abort' = 1
    /\ UNCHANGED <<net, serverVars, sn_ours, server, fileVars, blockVars, readerVars,
                   copying, bounds, history>>

Calls ==
    \/ \E f \in Files : cli_openfile(f)
    \/ \E l \in 1 .. NetBuf : ReadBuffered(l)
    \/ ReadBlock \/ ReadEnd \/ cli_reopen \/ cli_closefile \/ cli_abort

----------------------------------------------------------------------------
(* What goes wrong.                                                        *)

Fault == faults < MaxFaults /\ faults' = faults + 1
faultRest == <<param, sn_ours, server, fileVars, abort, blockVars, readerVars, copying, opens,
               asks, history>>

Lose ==
    /\ Fault
    /\ \E m \in net : net' = net \ {m}
    /\ UNCHANGED <<main, inc, stop_services, sl, faultRest>>

Crash(s) ==
    /\ Fault
    /\ main[s] # "down"
    /\ main' = [main EXCEPT ![s] = "down"]
    /\ sl' = [sl EXCEPT ![s] = NoFile]
    /\ net' = {m \in net : Heard(m, main', inc)}
    /\ UNCHANGED <<inc, stop_services, faultRest>>

Restart(s) ==
    /\ main[s] = "down"
    /\ main' = [main EXCEPT ![s] = "up"]
    /\ inc' = [inc EXCEPT ![s] = @ + 1]
    /\ stop_services' = [stop_services EXCEPT ![s] = 0]
    /\ UNCHANGED <<net, sl, faults, faultRest>>

\* A packet with a wrong sum comes to streamio_v2_main.
BadPacket(s) ==
    /\ Fault
    /\ main[s] = "up"
    /\ MainEnds(s)
    /\ UNCHANGED <<inc, stop_services, sl, faultRest>>

stiov2_pause(s, p) ==
    /\ Fault
    /\ main[s] # "down" /\ stop_services[s] # p
    /\ stop_services' = [stop_services EXCEPT ![s] = p]
    /\ UNCHANGED <<net, main, inc, sl, faultRest>>

Faults ==
    \/ Lose
    \/ \E s \in Servers :
        \/ Crash(s) \/ Restart(s) \/ BadPacket(s)
        \/ \E p \in {0, 1} : stiov2_pause(s, p)

V2Next ==
    \/ Reader \/ Calls \/ Faults \/ ResponseCopy
    \/ \E s \in Servers : MainReceives(s) \/ EntryReceives(s)
    \/ Receive({"found", "port"}) \/ Receive({"opened", "error", "reopen"})
    \/ Receive({"data"})

\* The threads run and packets arrive, but for as many faults as there may be;
\* nobody need restart a server.
V2Fair ==
    /\ WF_v2vars(Reader) /\ WF_v2vars(ResponseCopy)
    /\ \A s \in Servers : WF_v2vars(MainReceives(s)) /\ WF_v2vars(EntryReceives(s))
    /\ WF_v2vars(Receive({"found", "port"}))
    /\ WF_v2vars(Receive({"opened", "error", "reopen"}))
    /\ WF_v2vars(Receive({"data"}))

V2Spec == V2Init /\ [][V2Next]_v2vars /\ V2Fair

----------------------------------------------------------------------------
\* A read gives the pieces of the open file that follow those given before,
\* through retries, duplicates, servers that are lost and files that are opened
\* again elsewhere, and gives the end only at the end, unless since the file
\* was opened the client was aborted, took an answer to another request, whose
\* numbers it does not compare, was served by a server that has another file
\* open, or the reader found the count at zero before the last memcpy.
StreamIntact == wrong = 1 => (stale = 1 \/ early = 1 \/ crossed = 1)

\* An open or a read returns as long as some server still registers clients,
\* the packet that looks for one has the client's number, and no answer to
\* another request was taken (the open of a file that is not there may then
\* seem to succeed, and a read opens it again for ever).
CallsReturnV2 ==
    pc # "idle" ~> (pc = "idle" \/ sn_ours = 0 \/ stale = 1
                    \/ \A s \in Servers : main[s] # "up" \/ stop_services[s] = 1)

----------------------------------------------------------------------------
(* The instance that TLC checks: a song of three pieces, a tune of one and  *)
(* a file that is not there; two pieces to a block and one block to a disk  *)
(* buffer, or one piece and two blocks.                                     *)
MCSize == [song |-> 3, tune |-> 1, gone |-> 0]
MCParameters == {<<2, 1>>, <<1, 2>>}
=============================================================================

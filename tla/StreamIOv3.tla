----------------------------- MODULE StreamIOv3 -----------------------------
(***************************************************************************)
(* streamio_v3/client.c and src.client/*.c against the server of module    *)
(* StbTable: one client with one channel, one server that may be           *)
(* restarted, and UDP between them, which loses, delays and reorders       *)
(* packets (retransmissions duplicate them).                               *)
(*                                                                         *)
(* The client has two threads.  The reader calls openfile, seek and read   *)
(* and waits in send_and_wait; the response thread receives packets.  The  *)
(* response thread tests a data packet against blockwant and filecnt       *)
(* before it takes the mutex and stores it after, so that is two steps.    *)
(* Finding a server again is one step here (module VodDiscovery has the    *)
(* exchange).  A retry may come at any time: the timeouts are              *)
(* milliseconds.                                                           *)
(***************************************************************************)
EXTENDS StbTable

CONSTANTS
    MaxNet,     \* packets in flight; a further one is lost
    MaxEpoch,   \* server processes that are started one after the other
    SeekTo,     \* blocks the caller seeks to
    MayAbort    \* TRUE if another thread may call abort

ASSUME ClientAssumption ==
    /\ SeekTo \subseteq Nat   \* offsets, divided by 32768
    /\ 0 \in Stations         \* the client's own, stn

VARIABLES
    net,        \* packets in flight
    epoch,      \* the my_id of the running server
    reg,        \* the regist code the client holds, 0 if it has no server
    opened,     \* the names given to openfile; its length is pd->filecnt
    isopen,     \* 1 if the latest openfile returned a file to its caller
    cpc,        \* the reader: idle, open, reset, resp, data, reopen
    back,       \* where the reader goes on after a reopen
    need_filesize, c_filesize, blockcnt, blockwant, need_reopen, cut,
    brcvcnt,    \* pieces missing, as counted
    bufok,      \* pieces missing, as marked (also the map of the request)
    bbuf,       \* the pieces stored since the marks were set
    response,   \* pd->vodsvr_response while internal_read waits for it, 0 otherwise
    rpc,        \* the data packet the response thread has tested, or none
    stale,      \* 1 once a piece was stored that no longer passes the test
    misread     \* 1 once an OPENFILE answer was taken for another open's

server == <<file, disk, request, work, control>>
opening == <<opened, isopen, need_filesize, c_filesize, blockcnt, misread>>
reading == <<blockwant, brcvcnt, bufok, bbuf, response, rpc, stale>>
wait == <<cpc, back, need_reopen, cut>>
allvars == <<server, net, epoch, reg, opening, reading, wait>>

stn == 0
None == [cmd |-> "none"]
filecnt == Len(opened)

ClientInit ==
    /\ net = {} /\ epoch = 1 /\ reg = 0
    /\ opened = <<>> /\ isopen = 0 /\ cpc = "idle" /\ back = "idle"
    /\ need_filesize = 0 /\ c_filesize = 0 /\ blockcnt = 0 /\ blockwant = 0
    /\ need_reopen = 0 /\ cut = 0
    /\ brcvcnt = 0 /\ bufok = {} /\ bbuf = [i \in Pieces |-> None]
    /\ response = 0 /\ rpc = None /\ stale = 0 /\ misread = 0

\* A packet that is sent is lost, or joins those in flight if there is room.
Send(rest, msgs) ==
    \E s \in SUBSET msgs : Cardinality(rest \cup s) <= MaxNet /\ net' = rest \cup s

-----------------------------------------------------------------------------
(* The reader. *)

stiov3_openfile(f) ==
    /\ cpc = "idle" /\ filecnt + 1 \in Counts
    /\ opened' = Append(opened, f) /\ isopen' = 0
    /\ blockwant' = 0 /\ cut' = 0
    /\ c_filesize' = 0 /\ need_filesize' = 1
    /\ cpc' = "open"
    /\ UNCHANGED <<server, net, epoch, reg, blockcnt, misread, brcvcnt, bufok, bbuf,
                   response, rpc, stale, back, need_reopen>>

\* internal_reopen_file once send_and_wait has returned; the reader goes back
\* to the read that was interrupted.
OpenDone ==
    /\ cpc \in {"open", "reopen"} /\ need_filesize = 0
    /\ blockcnt' = IF c_filesize < 0 THEN blockcnt ELSE CeilDiv(c_filesize, BlockLen)
    /\ isopen' = IF cpc = "open" /\ c_filesize > 0 THEN 1 ELSE isopen
    /\ cpc' = IF cpc = "open" THEN "idle" ELSE back
    /\ back' = "idle"
    /\ UNCHANGED <<server, net, epoch, reg, opened, need_filesize, c_filesize, misread,
                   reading, need_reopen, cut>>

stiov3_seek(b) ==
    /\ cpc = "idle" /\ isopen = 1
    /\ blockwant' = b
    /\ UNCHANGED <<server, net, epoch, reg, opening, brcvcnt, bufok, bbuf, response, rpc,
                   stale, wait>>

\* internal_read up to its first send: the counter, then the marks.
ReadBegin ==
    /\ cpc = "idle" /\ isopen = 1
    /\ blockwant < blockcnt
    /\ brcvcnt' = NPieces
    /\ cpc' = "reset"
    /\ UNCHANGED <<server, net, epoch, reg, opening, blockwant, bufok, bbuf, response, rpc,
                   stale, back, need_reopen, cut>>

ReadReset ==
    /\ cpc = "reset"
    /\ bufok' = Pieces /\ bbuf' = [i \in Pieces |-> None]
    /\ response' = 0
    /\ cpc' = "resp"
    /\ UNCHANGED <<server, net, epoch, reg, opening, blockwant, brcvcnt, rpc, stale,
                   back, need_reopen, cut>>

ResponseSeen ==
    /\ cpc = "resp" /\ response = 1
    /\ cpc' = "data" /\ response' = 0
    /\ UNCHANGED <<server, net, epoch, reg, opening, blockwant, brcvcnt, bufok, bbuf, rpc,
                   stale, back, need_reopen, cut>>

\* internal_read hands bbuf to its caller.
internal_read ==
    /\ cpc = "data" /\ brcvcnt = 0
    /\ blockwant' = blockwant + 1
    /\ cpc' = "idle"
    /\ UNCHANGED <<server, net, epoch, reg, opening, brcvcnt, bufok, bbuf, response, rpc,
                   stale, back, need_reopen, cut>>

Waiting == cpc \in {"open", "reopen", "resp", "data"}

\* The packet sendto_vod sends, again and again.
Request ==
    IF cpc \in {"open", "reopen"}
    THEN [cmd |-> "OPENFILE", sn |-> reg, filecnt |-> filecnt, file |-> opened[filecnt]]
    ELSE [cmd |-> "FETCH", sn |-> reg, filecnt |-> filecnt, block |-> blockwant, map |-> bufok]

sendto_vod ==
    /\ Waiting /\ reg # 0
    /\ Send(net, {Request})
    /\ UNCHANGED <<server, epoch, reg, opening, reading, wait>>

\* Enough retries without an answer: unset_VODserver.
unset_VODserver ==
    /\ Waiting /\ reg # 0
    /\ reg' = 0
    /\ UNCHANGED <<server, net, epoch, opening, reading, wait>>

FindServer ==
    /\ Waiting /\ reg = 0 /\ cut = 0
    /\ reg' = epoch
    /\ UNCHANGED <<server, net, epoch, opening, reading, wait>>

\* send_and_wait finds need_reopen set while it still waits.
internal_reopen_file ==
    /\ Waiting /\ need_reopen = 1
    /\ CASE cpc \in {"open", "reopen"} -> need_filesize = 1
         [] cpc = "resp" -> response = 0
         [] cpc = "data" -> brcvcnt > 0
    /\ need_reopen' = 0
    /\ c_filesize' = 0 /\ need_filesize' = 1
    /\ IF cpc \in {"resp", "data"} THEN cpc' = "reopen" /\ back' = cpc
                                   ELSE UNCHANGED <<cpc, back>>
    /\ UNCHANGED <<server, net, epoch, reg, opened, isopen, blockcnt, misread, reading, cut>>

\* A wait ends with cut set: at once between two waits for data, otherwise when
\* sendto_vod finds no server.
CutReturns ==
    /\ Waiting /\ cut = 1
    /\ cpc = "data" \/ reg = 0
    /\ cpc' = "idle" /\ back' = "idle" /\ response' = 0
    /\ UNCHANGED <<server, net, epoch, reg, opening, blockwant, brcvcnt, bufok, bbuf, rpc,
                   stale, need_reopen, cut>>

stiov3_abort ==
    /\ MayAbort /\ filecnt > 0
    /\ cut' = 1
    /\ UNCHANGED <<server, net, epoch, reg, opening, reading, cpc, back, need_reopen>>

-----------------------------------------------------------------------------
(* The response thread: streamio_v3_response. *)

AwaitsResponse == cpc = "resp" \/ back = "resp"

\* Mutant: the block is not compared.
MatchesCount(m) == m.filecnt = filecnt

Matches(m) == m.block = blockwant /\ m.filecnt = filecnt

\* It names the server, not the registration that server does not know.
NeedRegist(m) ==
    /\ m.cmd = "NEED_REGIST"
    /\ reg' = 0
    /\ UNCHANGED <<opening, reading, wait>>

OpenfileAnswer(m) ==
    /\ m.cmd = "OPENFILE_ANSWER"
    /\ IF need_filesize = 1
       THEN /\ c_filesize' = IF m.filesize = 0 THEN -1 ELSE m.filesize
            /\ need_filesize' = 0 /\ need_reopen' = 0
            /\ misread' = IF m.filecnt = filecnt THEN misread ELSE 1
       ELSE UNCHANGED <<c_filesize, need_filesize, need_reopen, misread>>
    /\ UNCHANGED <<reg, opened, isopen, blockcnt, reading, cpc, back, cut>>

FetchResponse(m) ==
    /\ m.cmd = "FETCH_RESPONSE"
    /\ response' = IF Matches(m) /\ AwaitsResponse THEN 1 ELSE response
    /\ UNCHANGED <<reg, opening, blockwant, brcvcnt, bufok, bbuf, rpc, stale, wait>>

NeedReopen(m) ==
    /\ m.cmd = "NEED_REOPEN"
    /\ need_reopen' = IF Matches(m) THEN 1 ELSE need_reopen
    /\ UNCHANGED <<reg, opening, reading, cpc, back, cut>>

FetchData(m) ==
    /\ m.cmd = "DATA"
    /\ response' = IF Matches(m) /\ AwaitsResponse THEN 1 ELSE response
    /\ rpc' = IF Matches(m) THEN m ELSE None
    /\ UNCHANGED <<reg, opening, blockwant, brcvcnt, bufok, bbuf, stale, wait>>

Receive(m) ==
    /\ m \in net /\ m.cmd \notin {"OPENFILE", "FETCH"} /\ rpc = None
    /\ net' = net \ {m}
    /\ NeedRegist(m) \/ OpenfileAnswer(m) \/ FetchResponse(m) \/ NeedReopen(m) \/ FetchData(m)
    /\ UNCHANGED <<server, epoch>>

\* Under the mutex.
StoreData ==
    /\ rpc # None
    /\ IF rpc.bid \in bufok
       THEN /\ bufok' = bufok \ {rpc.bid} /\ brcvcnt' = brcvcnt - 1
            /\ bbuf' = [bbuf EXCEPT ![rpc.bid] = rpc]
            /\ stale' = IF Matches(rpc) /\ cpc # "reset" THEN stale ELSE 1
       ELSE UNCHANGED <<bufok, brcvcnt, bbuf, stale>>
    /\ rpc' = None
    /\ UNCHANGED <<server, net, epoch, reg, opening, blockwant, response, wait>>

-----------------------------------------------------------------------------
(* The server. *)

client == <<reg, opening, reading, wait>>

\* check_regist
Registered(m) == m.sn = epoch

HandleUnregistered(m) ==
    /\ ~Registered(m)
    /\ Send(net \ {m}, {[cmd |-> "NEED_REGIST"]})
    /\ UNCHANGED server

HandleOpenfile(m) ==
    /\ m.cmd = "OPENFILE" /\ Registered(m)
    /\ IF Accepts(stn, 1, m.filecnt) THEN stbtbl_setfile(stn, 1, m.filecnt, m.file)
                                     ELSE UNCHANGED server
    /\ Send(net \ {m}, {[cmd |-> "OPENFILE_ANSWER", filecnt |-> m.filecnt,
                         filesize |-> Reply(stn, 1, m.filecnt, m.file)]})

HandleFetch(m) ==
    /\ m.cmd = "FETCH" /\ Registered(m)
    /\ \/ /\ stbtbl_setrequest(stn, m.filecnt, m.block, m.map)
          /\ Send(net \ {m},
                  {[cmd |-> "FETCH_RESPONSE", filecnt |-> m.filecnt, block |-> m.block]})
       \/ /\ ~stbtbl_is_file_matched(stn, m.filecnt)
          /\ Send(net \ {m},
                  {[cmd |-> "NEED_REOPEN", filecnt |-> m.filecnt, block |-> m.block]})
          /\ UNCHANGED server

streamio_v3_main(m) ==
    /\ m \in net /\ m.cmd \in {"OPENFILE", "FETCH"}
    /\ HandleUnregistered(m) \/ HandleOpenfile(m) \/ HandleFetch(m)
    /\ UNCHANGED <<epoch, client>>

ServerPop(t) == stbtbl_pop(t) /\ UNCHANGED <<net, epoch, client>>

DataPacket(p) ==
    [cmd |-> "DATA", filecnt |-> p.filecnt, block |-> p.block, bid |-> p.bid,
     len |-> p.len, file |-> p.file, have |-> p.have, at |-> p.at]

ServerSend(t) ==
    /\ streamio_v3_service(t)
    /\ Send(net, {DataPacket(p) : p \in Packets(svc[t])})
    /\ UNCHANGED <<epoch, client>>

\* The server process dies and another one takes over, with a table of its own.
ServerRestart ==
    /\ epoch < MaxEpoch
    /\ epoch' = epoch + 1
    /\ stbid' = [stbid EXCEPT ![stn] = -1]
    /\ filecount' = [filecount EXCEPT ![stn] = 0]
    /\ fd' = [fd EXCEPT ![stn] = Closed]
    /\ filesize' = [filesize EXCEPT ![stn] = 0]
    /\ pos' = [pos EXCEPT ![stn] = 0]
    /\ cdkio_block' = [cdkio_block EXCEPT ![stn] = 0]
    /\ buffer' = [buffer EXCEPT ![stn] = [file |-> Closed, start |-> 0]]
    /\ buflen' = [buflen EXCEPT ![stn] = 0]
    /\ request_block' = [request_block EXCEPT ![stn] = 0]
    /\ map' = [map EXCEPT ![stn] = {}]
    /\ netq' = <<>> /\ svc' = [t \in Threads |-> Idle]
    /\ UNCHANGED <<control, net, client>>

-----------------------------------------------------------------------------
Reader ==
    \/ \E f \in Files : stiov3_openfile(f)
    \/ \E b \in SeekTo : stiov3_seek(b)
    \/ ReadBegin \/ stiov3_abort \/ unset_VODserver \/ CutReturns

Progress ==
    OpenDone \/ ReadReset \/ ResponseSeen \/ internal_read \/ FindServer \/ internal_reopen_file

NetNext ==
    \/ Reader \/ Progress \/ sendto_vod
    \/ (\E m \in net : Receive(m)) \/ StoreData
    \/ \E m \in net : streamio_v3_main(m)
    \/ \E t \in Threads : ServerPop(t) \/ ServerSend(t)
    \/ ServerRestart

NetSpec == Init /\ ClientInit /\ [][NetNext]_allvars

-----------------------------------------------------------------------------
\* Every variable of the client keeps its type.
ClientTypeOK ==
    /\ Cardinality(net) <= MaxNet
    /\ epoch \in 1 .. MaxEpoch /\ reg \in 0 .. epoch
    /\ cpc \in {"idle", "open", "reset", "resp", "data", "reopen"}
    /\ back \in {"idle", "resp", "data"}
    /\ {need_filesize, need_reopen, cut, response, stale, misread} \subseteq {0, 1}
    /\ brcvcnt \in -NPieces .. NPieces /\ bufok \subseteq Pieces

Current == opened[filecnt]

\* The pieces the reader has collected are those of the block it wants of the
\* file it opened, unless a packet was stored that had ceased to match.
BlockIntactUnlessStale ==
    stale = 0 /\ cpc \in {"resp", "data"} =>
        \A i \in Pieces \ bufok :
            bbuf[i] # None /\ Truthful(bbuf[i], Current) /\ bbuf[i].block = blockwant

=============================================================================

------------------------------ MODULE SendFile ------------------------------
(***************************************************************************)
(* Handing a file from one machine to another by udpcmdrcv                 *)
(* (udpcmdrcv/udpcmdrcv.c and sendfile.c over udplib.c, genpdu.c and       *)
(* tcplib.c).  Each node has a command socket with a listen thread and a   *)
(* table of commands, and a table of addresses to send to.  The sender's   *)
(* thread asks for a port (SENDREQ) and waits for the answer (SENDACK);    *)
(* the receiver opens a TCP port and answers; the sender connects to it.   *)
(* UDP loses, delays, reorders and duplicates.                             *)
(***************************************************************************)
EXTENDS Integers, Sequences, FiniteSets

CONSTANTS Nodes, Ids,   \* the ids nodes may draw; two may draw the same
          NSlots,       \* listcnt of udplib
          MaxUCalls, MaxUNet    \* bounds

ASSUME SendAssumption == NSlots \in Nat \ {0}

Slots == 0 .. NSlots - 1
Addrs == [ip : Nodes, port : {1, 2}]      \* nodes listen on port 1
NoAddr == [ip |-> "none", port |-> 0]
Home(n) == [ip |-> n, port |-> 1]

VARIABLES addruse, addrlist,    \* of udplib
          rmaddr,               \* where the last packet came from
          udpfd,                \* TRUE: the command socket is open
          hdr,                  \* genpdu's commands
          services, uterm, lpc, ucpc,   \* udpcmdrcv: the listen thread, its caller
          inftp, rmid, sid, tcpport, udpslot, transfer_completed, spc,
          tport, tpc,           \* tcplib: the receiver's port and its thread
          got,                  \* who connected to it
          unet, ucalls,
          answered,             \* history: the node that has answered this send
          udup,                 \* history: a packet came twice
          moved                 \* history: a slot was changed during a send

udpVars == <<addruse, addrlist, rmaddr, udpfd>>
rcvVars == <<hdr, services, uterm, lpc, ucpc>>
sndVars == <<inftp, rmid, sid, tcpport, udpslot, transfer_completed, spc>>
tcpVars == <<tport, tpc, got>>
uhist == <<answered, udup, moved>>
sfvars == <<udpVars, rcvVars, sndVars, tcpVars, unet, ucalls, uhist>>

----------------------------------------------------------------------------
(* genpdu.c: a table of at most num commands, each once.                   *)

FtpCmd == 9
App(c) == [cmd |-> c, func |-> "app"]
Ftp == [cmd |-> FtpCmd, func |-> "ftp"]

genpdu_add(t, num, e) ==
    IF Len(t) >= num \/ \E i \in DOMAIN t : t[i].cmd = e.cmd THEN t ELSE Append(t, e)

\* addlist stops at the first command that is refused.
genpdu_addlist(num, list) ==
    LET ok(i) == i <= num /\ \A j, k \in 1 .. i : j # k => list[j].cmd # list[k].cmd
    IN [i \in 1 .. Cardinality({i \in DOMAIN list : ok(i)}) |-> list[i]]

\* regist_ftp does not see that its command found no place.
ucr_regist_ftp(t, num) == genpdu_add(t, num, Ftp)

\* do_cmd: the handler of a command, if any.
genpdu_do_cmd(n, c) ==
    IF \E i \in DOMAIN hdr[n] : hdr[n][i].cmd = c
    THEN (CHOOSE e \in {hdr[n][i] : i \in DOMAIN hdr[n]} : e.cmd = c).func
    ELSE "none"

\* The programs' own commands, added before the file transfer's.
Tables == {ucr_regist_ftp(genpdu_addlist(2, l), 2) :
             l \in {<<>>, <<App(1)>>, <<App(1), App(1)>>, <<App(1), App(2), App(3)>>, <<App(FtpCmd)>>}}

----------------------------------------------------------------------------
(* udplib.c.                                                               *)

Free(n) == {i \in Slots : addruse[n][i] = 0}
Lowest(S) == CHOOSE i \in S : \A j \in S : i <= j

UAsk(n) == ucpc[n] = "idle" /\ ucalls < MaxUCalls /\ ucalls' = ucalls + 1

\* regist_addr takes a free slot whether or not the address has one already; a
\* name that is not found gives it back, but has cleared the address in it.
udplib_regist_addr(n, a) ==
    /\ UAsk(n) /\ Free(n) # {}
    /\ LET i == Lowest(Free(n)) IN
       /\ addruse' = [addruse EXCEPT ![n][i] = IF a = NoAddr THEN 0 ELSE 1]
       /\ addrlist' = [addrlist EXCEPT ![n][i] = a]
       /\ moved' = IF spc[n] # "none" /\ i = udpslot[n] THEN 1 ELSE moved
    /\ UNCHANGED <<rmaddr, udpfd, rcvVars, sndVars, tcpVars, unet, answered, udup>>

\* regist_rmaddr and regist_ipaddr: the slot the sender of the last packet has,
\* or a free one.
Same(by, a, b) == IF by = "ip" THEN a.ip = b.ip ELSE a = b
udplib_regist_rmaddr(n, by) ==
    /\ UAsk(n) /\ rmaddr[n] # NoAddr
    /\ Free(n) # {}
    /\ ~ \E i \in Slots \ Free(n) : Same(by, addrlist[n][i], rmaddr[n])
    /\ LET i == Lowest(Free(n)) IN
       /\ addruse' = [addruse EXCEPT ![n][i] = 1]
       /\ addrlist' = [addrlist EXCEPT ![n][i] = rmaddr[n]]
       /\ moved' = IF spc[n] # "none" /\ i = udpslot[n] THEN 1 ELSE moved
    /\ UNCHANGED <<rmaddr, udpfd, rcvVars, sndVars, tcpVars, unet, answered, udup>>

udplib_unregist(n, i) ==
    /\ UAsk(n) /\ addruse[n][i] = 1
    /\ addruse' = [addruse EXCEPT ![n][i] = 0]
    /\ UNCHANGED <<addrlist, rmaddr, udpfd, rcvVars, sndVars, tcpVars, unet, uhist>>

\* Packets that are sent: some are lost, and all of them when none fits.
Transmits(rest, msgs) ==
    \E kept \in SUBSET msgs :
        /\ Cardinality(rest \cup kept) <= MaxUNet
        /\ unet' = rest \cup kept

\* sendto: nothing is sent to a slot that is not used, or by a closed socket.
udplib_sendto(n, i, m) ==
    IF addruse[n][i] = 1 /\ udpfd[n] THEN {[m EXCEPT !.to = addrlist[n][i]]} ELSE {}

----------------------------------------------------------------------------
(* udpcmdrcv.c: listen and stop.  The caller stops before it listens again. *)

ucr_listen(n) ==
    /\ UAsk(n) /\ lpc[n] = "none"
    /\ udpfd' = [udpfd EXCEPT ![n] = TRUE]
    /\ uterm' = [uterm EXCEPT ![n] = 0]
    /\ services' = [services EXCEPT ![n] = 1]
    /\ lpc' = [lpc EXCEPT ![n] = "loop"]
    /\ UNCHANGED <<addruse, addrlist, rmaddr, hdr, ucpc, sndVars, tcpVars, unet, uhist>>

ucr_stop(n) ==
    /\ UAsk(n) /\ services[n] = 1
    /\ uterm' = [uterm EXCEPT ![n] = 1]
    /\ ucpc' = [ucpc EXCEPT ![n] = "join"]
    /\ UNCHANGED <<udpVars, hdr, services, lpc, sndVars, tcpVars, unet, uhist>>

StopReturns(n) ==
    /\ ucpc[n] = "join" /\ lpc[n] = "none"
    /\ ucpc' = [ucpc EXCEPT ![n] = "idle"]
    /\ UNCHANGED <<udpVars, hdr, services, uterm, lpc, sndVars, tcpVars, unet, ucalls, uhist>>

ListenEnds(n) ==
    /\ lpc[n] = "loop" /\ uterm[n] = 1
    /\ udpfd' = [udpfd EXCEPT ![n] = FALSE]
    /\ services' = [services EXCEPT ![n] = 0]
    /\ lpc' = [lpc EXCEPT ![n] = "none"]
    /\ UNCHANGED <<addruse, addrlist, rmaddr, hdr, uterm, ucpc, sndVars, tcpVars, unet, ucalls, uhist>>

----------------------------------------------------------------------------
(* sendfile.c.                                                             *)

Msg(n, kind, id, port) == [to |-> NoAddr, from |-> Home(n), kind |-> kind, id |-> id, port |-> port]

\* A request while the node is free: it is busy from now on and for good, with
\* a new TCP port (a failure to open one is not answered).
AcceptsRequest(n, m, ok) ==
    /\ inftp' = [inftp EXCEPT ![n] = 1]
    /\ IF ok
       THEN /\ tport' = [tport EXCEPT ![n] = @ + 1]
            /\ tpc' = [tpc EXCEPT ![n] = "bound"]
            /\ rmid' = [rmid EXCEPT ![n] = m.id]
            /\ Transmits(unet \ {m}, {[Msg(n, "ack", sid[n], tport'[n]) EXCEPT !.to = m.from]})
            /\ answered' = [answered EXCEPT ![m.from.ip] = n]
       ELSE /\ unet' = unet \ {m}
            /\ UNCHANGED <<tport, tpc, rmid, answered>>
    /\ UNCHANGED <<tcpport, got, udup>>

\* One that is busy only says so, and only to itself.
Busy(n, m) ==
    /\ unet' = unet \ {m}
    /\ UNCHANGED <<inftp, rmid, tcpport, tcpVars, answered, udup>>

\* Any answer is believed.  It may come a second time.
Acked(n, m) ==
    /\ tcpport' = [tcpport EXCEPT ![n] = m.port]
    /\ \/ unet' = unet \ {m} /\ UNCHANGED udup
       \/ udup = 0 /\ udup' = 1 /\ UNCHANGED unet
    /\ UNCHANGED <<inftp, rmid, tcpVars, answered>>

cmd_handler(n, m) ==
    \/ m.kind = "req" /\ inftp[n] = 0 /\ \E ok \in BOOLEAN : AcceptsRequest(n, m, ok)
    \/ m.kind = "req" /\ inftp[n] = 1 /\ Busy(n, m)
    \/ m.kind = "ack" /\ Acked(n, m)

\* The listen thread receives a packet; rmaddr is where it came from.
listen_main(n) ==
    /\ lpc[n] = "loop"
    /\ \E m \in unet :
        /\ m.to = Home(n)
        /\ rmaddr' = [rmaddr EXCEPT ![n] = m.from]
        /\ \/ genpdu_do_cmd(n, FtpCmd) = "ftp" /\ cmd_handler(n, m)
           \/ /\ genpdu_do_cmd(n, FtpCmd) # "ftp"
              /\ unet' = unet \ {m}
              /\ UNCHANGED <<inftp, rmid, tcpport, tcpVars, answered, udup>>
    /\ UNCHANGED <<addruse, addrlist, udpfd, rcvVars, sid, udpslot, transfer_completed, spc, ucalls, moved>>

\* Packets to a node that does not listen, or to another port.
Undelivered ==
    \E m \in unet :
        /\ m.to \notin {Home(n) : n \in {k \in Nodes : lpc[k] = "loop"}}
        /\ unet' = unet \ {m}
        /\ UNCHANGED <<udpVars, rcvVars, sndVars, tcpVars, ucalls, answered, udup, moved>>

\* ftp_send: if nothing is under way and the file can be opened, a thread.
ftp_send(n, i, ok) ==
    /\ UAsk(n)
    /\ IF inftp[n] = 0 /\ ok
       THEN /\ inftp' = [inftp EXCEPT ![n] = 1]
            /\ udpslot' = [udpslot EXCEPT ![n] = i]
            /\ transfer_completed' = [transfer_completed EXCEPT ![n] = 0]
            /\ spc' = [spc EXCEPT ![n] = "start"]
       ELSE UNCHANGED <<inftp, udpslot, transfer_completed, spc>>
    /\ UNCHANGED <<udpVars, rcvVars, rmid, sid, tcpport, tcpVars, unet, uhist>>

\* Mutant: the port of the last transfer is still there.
SendKeepsPort(n) ==
    /\ spc[n] = "start" /\ spc' = [spc EXCEPT ![n] = "send"]
    /\ UNCHANGED <<udpVars, rcvVars, inftp, rmid, sid, tcpport, udpslot, transfer_completed,
                   tcpVars, unet, ucalls, uhist>>

\* ftpsend_main, from its beginning to the request.
SendPrepares(n) ==
    /\ spc[n] = "start" /\ spc' = [spc EXCEPT ![n] = "send"]
    /\ tcpport' = [tcpport EXCEPT ![n] = -1]
    /\ UNCHANGED <<udpVars, rcvVars, inftp, rmid, sid, udpslot, transfer_completed,
                   tcpVars, unet, ucalls, uhist>>

\* The request is sent once; that it could not be is not looked at.
SendAsks(n) ==
    /\ spc[n] = "send" /\ spc' = [spc EXCEPT ![n] = "wait"]
    /\ Transmits(unet, udplib_sendto(n, udpslot[n], Msg(n, "req", sid[n], 0)))
    /\ answered' = [answered EXCEPT ![n] = "none"]
    /\ UNCHANGED <<udpVars, rcvVars, inftp, rmid, sid, tcpport, udpslot, transfer_completed,
                   tcpVars, ucalls, udup, moved>>

\* It waits as long as it takes, and connects to the host that the slot names
\* by now.
SendConnects(n) ==
    /\ spc[n] = "wait" /\ tcpport[n] >= 0
    /\ spc' = [spc EXCEPT ![n] = "leave"]
    /\ LET p == addrlist[n][udpslot[n]].ip IN
       IF p \in Nodes /\ tpc[p] = "listening" /\ tport[p] = tcpport[n]
       THEN got' = [got EXCEPT ![p] = @ \cup {n}]
       ELSE UNCHANGED got
    /\ UNCHANGED <<udpVars, rcvVars, inftp, rmid, sid, tcpport, udpslot, transfer_completed,
                   tport, tpc, unet, ucalls, uhist>>

SendLeaves(n) ==
    /\ spc[n] = "leave" /\ spc' = [spc EXCEPT ![n] = "none"]
    /\ transfer_completed' = [transfer_completed EXCEPT ![n] = 1]
    /\ inftp' = [inftp EXCEPT ![n] = 0]
    /\ UNCHANGED <<udpVars, rcvVars, rmid, sid, tcpport, udpslot, tcpVars, unet, ucalls, uhist>>

ftpsend_main(n) == SendPrepares(n) \/ SendAsks(n) \/ SendConnects(n) \/ SendLeaves(n)

\* tcplib's listen_main: listen is called by the thread, after the port was
\* given out, and one connection ends it.
TcpListens(n) ==
    /\ \/ tpc[n] = "bound" /\ tpc' = [tpc EXCEPT ![n] = "listening"]
       \/ tpc[n] = "listening" /\ got[n] # {} /\ tpc' = [tpc EXCEPT ![n] = "over"]
    /\ UNCHANGED <<udpVars, rcvVars, sndVars, tport, got, unet, ucalls, uhist>>

----------------------------------------------------------------------------
\* The nodes have set up their commands, listen, and know one another.
SfInit ==
    /\ addruse = [n \in Nodes |-> [i \in Slots |-> IF i = 0 THEN 1 ELSE 0]]
    /\ addrlist \in {[n \in Nodes |-> [i \in Slots |-> IF i = 0 THEN Home(p[n]) ELSE NoAddr]] :
                        p \in {f \in [Nodes -> Nodes] : \A n \in Nodes : f[n] # n}}
    /\ rmaddr = [n \in Nodes |-> NoAddr]
    /\ udpfd = [n \in Nodes |-> TRUE]
    /\ hdr \in [Nodes -> Tables]
    /\ services = [n \in Nodes |-> 1] /\ uterm = [n \in Nodes |-> 0]
    /\ lpc = [n \in Nodes |-> "loop"] /\ ucpc = [n \in Nodes |-> "idle"]
    /\ inftp = [n \in Nodes |-> 0] /\ rmid = [n \in Nodes |-> -1]
    /\ sid \in [Nodes -> Ids]
    /\ tcpport = [n \in Nodes |-> 0] /\ udpslot = [n \in Nodes |-> 0]
    /\ transfer_completed = [n \in Nodes |-> 1]
    /\ spc = [n \in Nodes |-> "none"]
    /\ tport = [n \in Nodes |-> 0] /\ tpc = [n \in Nodes |-> "none"]
    /\ got = [n \in Nodes |-> {}]
    /\ unet = {} /\ ucalls = 0
    /\ answered = [n \in Nodes |-> "none"]
    /\ udup = 0 /\ moved = 0

UNode(n) == StopReturns(n) \/ ListenEnds(n) \/ listen_main(n) \/ ftpsend_main(n) \/ TcpListens(n)

URequest(n) ==
    \/ \E a \in Addrs \cup {NoAddr} : udplib_regist_addr(n, a)
    \/ \E by \in {"ip", "address"} : udplib_regist_rmaddr(n, by)
    \/ \E i \in Slots : udplib_unregist(n, i)
    \/ ucr_listen(n) \/ ucr_stop(n)
    \/ \E i \in Slots : \E ok \in BOOLEAN : ftp_send(n, i, ok)

SfNext == (\E n \in Nodes : UNode(n) \/ URequest(n)) \/ Undelivered

SfSpec == SfInit /\ [][SfNext]_sfvars

----------------------------------------------------------------------------
\* A sender connects to the host that its own request has made open a port:
\* unless an answer came twice, or the slot was given to another host meanwhile.
Paired ==
    (udup = 0 /\ moved = 0) =>
        \A n \in Nodes : spc[n] = "leave" => answered[n] = addrlist[n][udpslot[n]].ip

=============================================================================

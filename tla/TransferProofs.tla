---------------------------- MODULE TransferProofs ----------------------------
(***************************************************************************)
(* What the two ways of moving a file by a conversation guarantee: the     *)
(* file transfer of udpcmdrcv and the FTP client.  Each has its own        *)
(* specification and variables.                                            *)
(***************************************************************************)
EXTENDS SendFile, FtpClient, WellFoundedInduction, TLAPS

(***************************************************************************)
(* udpcmdrcv for any number of nodes, slots and packets.  A sender is      *)
(* paired with the host it asked because, while it waits, at most one      *)
(* packet is its own: its request on the way out or the answer to it on    *)
(* the way back.  An answer that arrives twice, or a slot that is          *)
(* registered anew, breaks this, and the theorem says so.                  *)
(***************************************************************************)
\* The addresses a slot can hold, and the places of a sender.
Reached == Addrs \cup {NoAddr}
SendSteps == {"none", "start", "send", "wait", "leave"}

\* What the variables of the transfer hold, as far as the argument needs it.
SendTyped ==
    /\ addrlist \in [Nodes -> [Slots -> Reached]]
    /\ rmaddr \in [Nodes -> Reached]
    /\ inftp \in [Nodes -> {0, 1}]
    /\ tcpport \in [Nodes -> Int] /\ tport \in [Nodes -> Nat]
    /\ udpslot \in [Nodes -> Slots]
    /\ spc \in [Nodes -> SendSteps]
    /\ DOMAIN answered = Nodes
    /\ udup \in {0, 1} /\ moved \in {0, 1}

\* A packet names where it goes to, a port, and the node that sent it.
Sound(m) ==
    /\ m.to \in Reached /\ m.port \in Nat
    /\ \E k \in Nodes : m.from = Home(k)

\* Who was asked, as long as the slot is not given to another.
Asked(n) == addrlist[n][udpslot[n]]

\* The packet belongs to the send of the node n: its request or the answer.
Pending(n, m) ==
    \/ m.kind = "req" /\ m.from = Home(n)
    \/ m.kind = "ack" /\ m.to = Home(n)

\* One packet, while the node waits; and it is of the one that was asked.
Single(n) == \A m, k \in unet : Pending(n, m) /\ Pending(n, k) => m = k
Awaited(n) == \A m \in unet : Pending(n, m) => spc[n] = "wait" /\ tcpport[n] = -1
Directed(n) ==
    \A m \in unet :
        /\ m.kind = "req" /\ m.from = Home(n) => m.to = Asked(n)
        /\ m.kind = "ack" /\ m.to = Home(n) => answered[n] = Asked(n).ip

\* A sender that has its port has it from the node it asked.
Served(n) ==
    spc[n] = "leave" \/ (spc[n] = "wait" /\ tcpport[n] >= 0) => answered[n] = Asked(n).ip

\* All of this, unless an answer came twice or a slot was given away.
Answering ==
    udup = 0 => \A n \in Nodes :
        /\ Single(n) /\ Awaited(n)
        /\ spc[n] = "send" => tcpport[n] = -1
        /\ moved = 0 => Directed(n) /\ Served(n)

\* The inductive invariant of the transfer.
SendInv ==
    /\ SendTyped
    /\ \A m \in unet : Sound(m)
    /\ \A n \in Nodes : spc[n] # "none" => inftp[n] = 1
    /\ Answering

\* A set of numbers has a lowest: the order of the numbers is well founded.
Less == {p \in Nat \X Nat : p[1] < p[2]}

\* So the first free slot is a free slot.
LEMMA HasLowest == ASSUME NEW T \in SUBSET Nat, T # {} PROVE Lowest(T) \in T
<1>1. Less = OpToRel(<, Nat) BY Zenon DEF OpToRel, Less
<1>2. IsWellFoundedOn(Less, Nat) BY <1>1, NatLessThanWellFounded, Zenon
<1>3. PICK x \in T : \A y \in T : ~ (<<y, x>> \in Less) BY <1>2, WFMin, Zenon
<1>4. ASSUME NEW y \in T PROVE x <= y
  <2>1. <<y, x>> \notin Less BY <1>3, Zenon
  <2>2. x \in Nat /\ y \in Nat BY Zenon
  <2>3. ~(y < x) BY <2>1, <2>2, Zenon DEF Less
  <2> QED BY <2>2, <2>3
<1> QED BY <1>4, Zenon DEF Lowest

\* Every node has an address of its own, which a slot can hold.
LEMMA HomesDiffer == \A n, k \in Nodes : Home(n) = Home(k) => n = k
BY Zenon DEF Home

\* The address of a node names the node.
LEMMA HomeReached == \A n \in Nodes : Home(n) \in Reached /\ Home(n).ip = n
BY Zenon DEF Home, Reached, Addrs

\* The slot of a sender holds an address.
LEMMA AskedIn == ASSUME SendTyped, NEW n \in Nodes PROVE Asked(n) \in Reached
BY Zenon DEF SendTyped, Asked

\* No packet is under way and nobody sends.
LEMMA SendInitially == SfInit => SendInv
<1> SUFFICES ASSUME SfInit PROVE SendInv BY Zenon
<1>0. 0 \in Slots BY SendAssumption DEF Slots
<1>1. addrlist \in [Nodes -> [Slots -> Reached]]
  <2>1. PICK p \in [Nodes -> Nodes] :
           addrlist = [n \in Nodes |-> [i \in Slots |-> IF i = 0 THEN Home(p[n]) ELSE NoAddr]]
    BY Zenon DEF SfInit
  <2>2. \A n \in Nodes : Home(p[n]) \in Reached BY HomeReached, Zenon
  <2>3. NoAddr \in Reached BY Zenon DEF Reached
  <2> QED BY <2>1, <2>2, <2>3, Zenon
<1>2. SendTyped BY <1>0, <1>1 DEF SfInit, SendTyped, SendSteps, Reached
<1>3. unet = {} /\ spc = [n \in Nodes |-> "none"] BY Zenon DEF SfInit
<1> QED BY <1>2, <1>3, Zenon DEF SendInv, Answering, Single, Awaited, Directed, Served

\* Packets less, perhaps a node that turns busy, and nothing else of the sends.
LEMMA Fewer ==
  ASSUME SendInv, unet' \subseteq unet, rmaddr' \in [Nodes -> Reached],
         inftp' \in {inftp} \cup {[inftp EXCEPT ![n] = 1] : n \in Nodes},
         UNCHANGED <<addrlist, tcpport, tport, udpslot, spc, answered, udup, moved>>
  PROVE  SendInv'
<1>1. SendTyped' BY Zenon DEF SendInv, SendTyped
<1>2. \A m \in unet' : Sound(m)' BY Zenon DEF SendInv, Sound
<1>3. \A n \in Nodes : spc'[n] # "none" => inftp'[n] = 1 BY Zenon DEF SendInv, SendTyped
<1>4. Answering'
  <2> SUFFICES ASSUME udup = 0, NEW n \in Nodes
               PROVE  /\ Single(n)' /\ Awaited(n)'
                      /\ spc'[n] = "send" => tcpport'[n] = -1
                      /\ moved = 0 => Directed(n)' /\ Served(n)'
    BY Zenon DEF Answering
  <2>1. /\ Single(n) /\ Awaited(n) /\ (spc[n] = "send" => tcpport[n] = -1)
        /\ moved = 0 => Directed(n) /\ Served(n)
    BY Zenon DEF SendInv, Answering
  <2>2. Single(n)' BY <2>1, Zenon DEF Single, Pending
  <2>3. Awaited(n)' BY <2>1, Zenon DEF Awaited, Pending
  <2>4. moved = 0 => Directed(n)' BY <2>1, Zenon DEF Directed, Asked
  <2>5. moved = 0 => Served(n)' BY <2>1, Zenon DEF Served, Asked
  <2> QED BY <2>1, <2>2, <2>3, <2>4, <2>5, Zenon
<1> QED BY <1>1, <1>2, <1>3, <1>4, Zenon DEF SendInv

\* regist_addr, regist_rmaddr and regist_ipaddr write one address.
LEMMA Registers ==
  ASSUME SendInv, NEW n \in Nodes, NEW i \in Slots, NEW a \in Reached,
         addrlist' = [addrlist EXCEPT ![n][i] = a],
         moved' = IF spc[n] # "none" /\ i = udpslot[n] THEN 1 ELSE moved,
         UNCHANGED <<rmaddr, inftp, tcpport, tport, udpslot, spc, unet, answered, udup>>
  PROVE  SendInv'
<1>1. SendTyped' BY Zenon DEF SendInv, SendTyped
<1>2. \A m \in unet' : Sound(m)' BY Zenon DEF SendInv, Sound
<1>3. \A k \in Nodes : spc'[k] # "none" => inftp'[k] = 1 BY Zenon DEF SendInv
<1>4. Answering'
  <2> SUFFICES ASSUME udup = 0, NEW k \in Nodes
               PROVE  /\ Single(k)' /\ Awaited(k)'
                      /\ spc'[k] = "send" => tcpport'[k] = -1
                      /\ moved' = 0 => Directed(k)' /\ Served(k)'
    BY Zenon DEF Answering
  <2>1. /\ Single(k) /\ Awaited(k) /\ (spc[k] = "send" => tcpport[k] = -1)
        /\ moved = 0 => Directed(k) /\ Served(k)
    BY Zenon DEF SendInv, Answering
  <2>2. Single(k)' BY <2>1, Zenon DEF Single, Pending
  <2>3. Awaited(k)' BY <2>1, Zenon DEF Awaited, Pending
  <2>4. ASSUME moved' = 0 PROVE Directed(k)' /\ Served(k)'
    <3>1. moved = 0 /\ (spc[n] = "none" \/ i # udpslot[n]) BY <2>4
    <3>2. CASE spc[k] = "none"
      <4>1. \A m \in unet : ~Pending(k, m) BY <2>1, <3>2, Zenon DEF Awaited
      <4>2. Directed(k)' BY <4>1, Zenon DEF Directed, Pending
      <4>3. Served(k)' BY <3>2, Zenon DEF Served
      <4> QED BY <4>2, <4>3, Zenon
    <3>3. CASE spc[k] # "none"
      <4>1. Asked(k)' = Asked(k)
        <5>1. addrlist[k] \in [Slots -> Reached] /\ udpslot[k] \in Slots
          BY Zenon DEF SendInv, SendTyped
        <5>2. addrlist \in [Nodes -> [Slots -> Reached]] BY Zenon DEF SendInv, SendTyped
        <5> QED BY <3>1, <3>3, <5>1, <5>2, Zenon DEF Asked
      <4>2. Directed(k)' BY <2>1, <3>1, <4>1, Zenon DEF Directed
      <4>3. Served(k)' BY <2>1, <3>1, <4>1, Zenon DEF Served
      <4> QED BY <4>2, <4>3
    <3> QED BY <3>2, <3>3, Zenon
  <2> QED BY <2>1, <2>2, <2>3, <2>4, Zenon
<1> QED BY <1>1, <1>2, <1>3, <1>4, Zenon DEF SendInv

\* The registrations take a free slot, so they write one address of the table.
LEMMA RegistStep ==
  ASSUME SendInv, NEW n \in Nodes,
         \/ \E a \in Addrs \cup {NoAddr} : udplib_regist_addr(n, a)
         \/ \E by \in {"ip", "address"} : udplib_regist_rmaddr(n, by)
  PROVE  SendInv'
<1>1. Free(n) # {} => Lowest(Free(n)) \in Slots
  BY HasLowest, SendAssumption DEF Free, Slots
<1>2. CASE \E a \in Addrs \cup {NoAddr} : udplib_regist_addr(n, a)
  <2>1. PICK a \in Addrs \cup {NoAddr} : udplib_regist_addr(n, a) BY <1>2, Zenon
  <2>2. a \in Reached BY Zenon DEF Reached
  <2> QED BY <1>1, <2>1, <2>2, Registers, Zenon DEF udplib_regist_addr, sndVars, tcpVars
<1>3. CASE \E by \in {"ip", "address"} : udplib_regist_rmaddr(n, by)
  <2>1. rmaddr[n] \in Reached BY Zenon DEF SendInv, SendTyped
  <2> DEFINE i == Lowest(Free(n))
  <2>2. /\ Free(n) # {} /\ addrlist' = [addrlist EXCEPT ![n][i] = rmaddr[n]]
        /\ moved' = IF spc[n] # "none" /\ i = udpslot[n] THEN 1 ELSE moved
        /\ UNCHANGED <<rmaddr, inftp, tcpport, tport, udpslot, spc, unet, answered, udup>>
    BY <1>3, Zenon DEF udplib_regist_rmaddr, sndVars, tcpVars
  <2>3. i \in Slots BY <1>1, <2>2, Zenon
  <2> HIDE DEF i
  <2> QED BY <2>1, <2>2, <2>3, Registers, Zenon
<1> QED BY <1>2, <1>3, Zenon

\* A free node answers a request.
LEMMA AcceptStep ==
  ASSUME SendInv, NEW n \in Nodes, NEW m \in unet, m.to = Home(n), m.kind = "req",
         AcceptsRequest(n, m, TRUE), inftp[n] = 0, rmaddr' = [rmaddr EXCEPT ![n] = m.from],
         UNCHANGED <<addrlist, udpslot, spc, sid, moved>>
  PROVE  SendInv'
<1>0. PICK p \in Nodes : m.from = Home(p) BY Zenon DEF SendInv, Sound
<1>1. p = m.from.ip BY <1>0, HomeReached, Zenon
<1> DEFINE a == [Msg(n, "ack", sid[n], tport'[n]) EXCEPT !.to = m.from]
<1>2. /\ a.to = Home(p) /\ a.from = Home(n) /\ a.kind = "ack" /\ a.port = tport'[n]
  BY <1>0, Zenon DEF Msg
<1>3. /\ inftp' = [inftp EXCEPT ![n] = 1] /\ tport' = [tport EXCEPT ![n] = @ + 1]
      /\ answered' = [answered EXCEPT ![p] = n]
      /\ UNCHANGED <<tcpport, udup>>
  BY <1>1, Zenon DEF AcceptsRequest
<1>4. unet' \subseteq (unet \ {m}) \cup {a} BY Zenon DEF AcceptsRequest, Transmits
<1> HIDE DEF a
<1>5. SendTyped'
  <2>1. rmaddr' \in [Nodes -> Reached] BY <1>0, HomeReached, Zenon DEF SendInv, SendTyped
  <2> QED BY <1>3, <2>1 DEF SendInv, SendTyped
<1>6. \A k \in unet' : Sound(k)'
  <2>1. tport'[n] \in Nat BY <1>5, Zenon DEF SendTyped
  <2>2. Sound(a) BY <1>2, <2>1, HomeReached, Zenon DEF Sound
  <2> QED BY <1>4, <2>2, Zenon DEF SendInv, Sound
<1>7. \A k \in Nodes : spc'[k] # "none" => inftp'[k] = 1 BY <1>3, Zenon DEF SendInv, SendTyped
<1>8. Answering'
  <2> SUFFICES ASSUME udup = 0, NEW k \in Nodes
               PROVE  /\ Single(k)' /\ Awaited(k)'
                      /\ spc'[k] = "send" => tcpport'[k] = -1
                      /\ moved = 0 => Directed(k)' /\ Served(k)'
    BY <1>3, Zenon DEF Answering
  <2>1. /\ Single(k) /\ Awaited(k) /\ (spc[k] = "send" => tcpport[k] = -1)
        /\ moved = 0 => Directed(k) /\ Served(k)
    BY Zenon DEF SendInv, Answering
  <2>2. Pending(p, m) BY <1>0, Zenon DEF Pending
  <2>3. Pending(k, a) => k = p BY <1>2, HomesDiffer, Zenon DEF Pending
  <2>4. Single(k)' BY <1>4, <2>1, <2>2, <2>3, Zenon DEF Single, Pending
  <2>5. Awaited(k)' BY <1>3, <1>4, <2>1, <2>2, <2>3, Zenon DEF Awaited, Pending
  <2>6. ASSUME moved = 0 PROVE Directed(k)'
    <3>1. CASE k = p
      <4>1. m.to = Asked(p) BY <1>0, <2>1, <2>6, <3>1, Zenon DEF Directed
      <4>2. answered'[p] = Asked(p).ip
        BY <1>3, <4>1, HomeReached, Zenon DEF SendInv, SendTyped
      <4>3. \A j \in unet \ {m} : ~Pending(k, j) BY <2>1, <2>2, <3>1, Zenon DEF Single
      <4> QED BY <1>2, <1>4, <3>1, <4>2, <4>3, Zenon DEF Directed, Pending, Asked
    <3>2. CASE k # p
      <4>1. answered'[k] = answered[k] BY <1>3, <3>2, Zenon DEF SendInv, SendTyped
      <4>2. ~Pending(k, a) BY <2>3, <3>2, Zenon
      <4> QED BY <1>4, <2>1, <2>6, <4>1, <4>2, Zenon DEF Directed, Pending, Asked
    <3> QED BY <3>1, <3>2, Zenon
  <2>7. ASSUME moved = 0 PROVE Served(k)'
    <3>1. CASE k = p
      <4>1. spc[k] = "wait" /\ tcpport[k] = -1 BY <2>1, <2>2, <3>1, Zenon DEF Awaited
      <4> QED BY <1>3, <4>1 DEF Served
    <3>2. CASE k # p
      <4>1. answered'[k] = answered[k] BY <1>3, <3>2 DEF SendInv, SendTyped
      <4> QED BY <1>3, <2>1, <2>7, <4>1, Zenon DEF Served, Asked
    <3> QED BY <3>1, <3>2
  <2> QED BY <1>3, <2>1, <2>4, <2>5, <2>6, <2>7, Zenon
<1> QED BY <1>5, <1>6, <1>7, <1>8, Zenon DEF SendInv

\* An answer is taken.
LEMMA AckedStep ==
  ASSUME SendInv, NEW n \in Nodes, NEW m \in unet, m.to = Home(n), m.kind = "ack",
         Acked(n, m), rmaddr' = [rmaddr EXCEPT ![n] = m.from],
         UNCHANGED <<addrlist, udpslot, spc, moved>>
  PROVE  SendInv'
<1>1. /\ tcpport' = [tcpport EXCEPT ![n] = m.port]
      /\ UNCHANGED <<inftp, tport, answered>>
      /\ unet' = unet \/ unet' = unet \ {m}
      /\ udup' = 0 => udup = 0 /\ unet' = unet \ {m}
      /\ udup' \in {udup, 1}
  BY DEF Acked, tcpVars
<1>2. m.port \in Nat /\ m.from \in Reached BY HomeReached, Zenon DEF SendInv, Sound
<1>3. SendTyped' BY <1>1, <1>2 DEF SendInv, SendTyped
<1>4. \A k \in unet' : Sound(k)' BY <1>1, Zenon DEF SendInv, Sound
<1>5. \A k \in Nodes : spc'[k] # "none" => inftp'[k] = 1 BY <1>1, Zenon DEF SendInv
<1>6. Answering'
  <2> SUFFICES ASSUME udup' = 0, NEW k \in Nodes
               PROVE  /\ Single(k)' /\ Awaited(k)'
                      /\ spc'[k] = "send" => tcpport'[k] = -1
                      /\ moved = 0 => Directed(k)' /\ Served(k)'
    BY Zenon DEF Answering
  <2>0. udup = 0 /\ unet' = unet \ {m} BY <1>1, Zenon
  <2>1. /\ Single(k) /\ Awaited(k) /\ (spc[k] = "send" => tcpport[k] = -1)
        /\ moved = 0 => Directed(k) /\ Served(k)
    BY <2>0, Zenon DEF SendInv, Answering
  <2>2. Pending(n, m) BY Zenon DEF Pending
  <2>3. Single(k)' BY <2>0, <2>1, Zenon DEF Single, Pending
  <2>4. Directed(k)' \/ moved # 0 BY <1>1, <2>0, <2>1, Zenon DEF Directed, Asked
  <2>5. CASE k = n
    <3>1. spc[n] = "wait" BY <2>1, <2>2, <2>5, Zenon DEF Awaited
    <3>2. \A j \in unet' : ~Pending(n, j) BY <2>0, <2>1, <2>2, <2>5, Zenon DEF Single
    <3>3. Awaited(k)' BY <2>5, <3>2, Zenon DEF Awaited, Pending
    <3>4. moved = 0 => answered[n] = Asked(n).ip BY <2>1, <2>5, Zenon DEF Directed
    <3>5. moved = 0 => Served(k)' BY <1>1, <2>5, <3>4, Zenon DEF Served, Asked
    <3> QED BY <2>3, <2>4, <2>5, <3>1, <3>3, <3>5, Zenon
  <2>6. CASE k # n
    <3>1. tcpport'[k] = tcpport[k] BY <1>1, <2>6, Zenon DEF SendInv, SendTyped
    <3>2. Awaited(k)' BY <2>0, <2>1, <3>1, Zenon DEF Awaited, Pending
    <3>3. moved = 0 => Served(k)' BY <1>1, <2>1, <3>1, Zenon DEF Served, Asked
    <3> QED BY <2>1, <2>3, <2>4, <3>1, <3>2, <3>3, Zenon
  <2> QED BY <2>5, <2>6, Zenon
<1> QED BY <1>3, <1>4, <1>5, <1>6, Zenon DEF SendInv

\* The listener takes one packet: a request, an answer, or one it ignores.
LEMMA ReceiveStep == ASSUME SendInv, NEW n \in Nodes, listen_main(n) PROVE SendInv'
<1>1. PICK m \in unet :
        /\ m.to = Home(n)
        /\ rmaddr' = [rmaddr EXCEPT ![n] = m.from]
        /\ \/ cmd_handler(n, m)
           \/ unet' = unet \ {m} /\ UNCHANGED <<inftp, rmid, tcpport, tcpVars, answered, udup>>
  BY Zenon DEF listen_main
<1>2. UNCHANGED <<addrlist, sid, udpslot, spc, moved>> BY Zenon DEF listen_main
<1>3. rmaddr' \in [Nodes -> Reached]
  BY <1>1, HomeReached DEF SendInv, SendTyped, Sound
<1>4. CASE \/ unet' = unet \ {m} /\ UNCHANGED <<inftp, rmid, tcpport, tcpVars, answered, udup>>
           \/ Busy(n, m)
  BY <1>2, <1>3, <1>4, Fewer, Zenon DEF Busy, tcpVars
<1>5. CASE m.kind = "req" /\ inftp[n] = 0 /\ AcceptsRequest(n, m, TRUE)
  BY <1>1, <1>2, <1>5, AcceptStep, Zenon
<1>6. CASE m.kind = "req" /\ inftp[n] = 0 /\ AcceptsRequest(n, m, FALSE)
  <2>1. /\ unet' \subseteq unet /\ inftp' = [inftp EXCEPT ![n] = 1]
        /\ UNCHANGED <<tcpport, tport, answered, udup>>
    BY <1>6, Zenon DEF AcceptsRequest
  <2> QED BY <1>2, <1>3, <2>1, Fewer, Zenon
<1>7. CASE m.kind = "ack" /\ Acked(n, m) BY <1>1, <1>2, <1>7, AckedStep, Zenon
<1> QED BY <1>1, <1>4, <1>5, <1>6, <1>7, Zenon DEF cmd_handler

\* ftp_send takes the slot for a node that is not sending.
LEMMA BeginStep ==
  ASSUME SendInv, NEW n \in Nodes, NEW i \in Slots, NEW ok \in BOOLEAN, ftp_send(n, i, ok)
  PROVE  SendInv'
<1>0. UNCHANGED <<addrlist, rmaddr, tcpport, tport, unet, answered, udup, moved>>
  BY Zenon DEF ftp_send, udpVars, tcpVars, uhist
<1>1. CASE ~(inftp[n] = 0 /\ ok)
  BY <1>0, <1>1, Fewer, Zenon DEF ftp_send, SendInv, SendTyped
<1>2. CASE inftp[n] = 0 /\ ok
  <2>1. /\ inftp' = [inftp EXCEPT ![n] = 1] /\ udpslot' = [udpslot EXCEPT ![n] = i]
        /\ spc' = [spc EXCEPT ![n] = "start"]
    BY <1>2, Zenon DEF ftp_send
  <2>2. spc[n] = "none" BY <1>2 DEF SendInv
  <2>3. SendTyped' BY <1>0, <2>1, Zenon DEF SendInv, SendTyped, SendSteps
  <2>4. \A m \in unet' : Sound(m)' BY <1>0, Zenon DEF SendInv, Sound
  <2>5. \A k \in Nodes : spc'[k] # "none" => inftp'[k] = 1 BY <2>1, Zenon DEF SendInv, SendTyped
  <2>6. Answering'
    <3> SUFFICES ASSUME udup = 0, NEW k \in Nodes
                 PROVE  /\ Single(k)' /\ Awaited(k)'
                        /\ spc'[k] = "send" => tcpport'[k] = -1
                        /\ moved = 0 => Directed(k)' /\ Served(k)'
      BY <1>0, Zenon DEF Answering
    <3>1. /\ Single(k) /\ Awaited(k) /\ (spc[k] = "send" => tcpport[k] = -1)
          /\ moved = 0 => Directed(k) /\ Served(k)
      BY Zenon DEF SendInv, Answering
    <3>2. Single(k)' BY <1>0, <3>1, Zenon DEF Single, Pending
    <3>3. CASE k = n
      <4>1. \A m \in unet : ~Pending(k, m) BY <2>2, <3>1, <3>3, Zenon DEF Awaited
      <4>2. spc'[k] = "start" BY <2>1, <3>3, Zenon DEF SendInv, SendTyped
      <4>3. Awaited(k)' /\ Directed(k)' BY <1>0, <4>1, Zenon DEF Awaited, Directed, Pending
      <4> QED BY <3>2, <4>2, <4>3, Zenon DEF Served
    <3>4. CASE k # n
      <4>1. spc'[k] = spc[k] /\ udpslot'[k] = udpslot[k]
        BY <2>1, <3>4, Zenon DEF SendInv, SendTyped
      <4>2. Awaited(k)' BY <1>0, <3>1, <4>1, Zenon DEF Awaited, Pending
      <4>3. moved = 0 => Directed(k)' /\ Served(k)'
        BY <1>0, <3>1, <4>1, Zenon DEF Directed, Served, Asked
      <4> QED BY <1>0, <3>1, <3>2, <4>1, <4>2, <4>3, Zenon
    <3> QED BY <3>3, <3>4, Zenon
  <2> QED BY <2>3, <2>4, <2>5, <2>6, Zenon DEF SendInv
<1> QED BY <1>1, <1>2, Zenon

\* A step of the sender's thread other than the request: the node's place and
\* port change, with no packet under way.
LEMMA ThreadStep ==
  ASSUME SendInv, NEW n \in Nodes, SendPrepares(n) \/ SendConnects(n) \/ SendLeaves(n)
  PROVE  SendInv'
<1>0. UNCHANGED <<addrlist, rmaddr, tport, udpslot, unet, answered, udup, moved>>
  BY Zenon DEF SendPrepares, SendConnects, SendLeaves, udpVars, tcpVars, uhist
<1>1. /\ \A k \in Nodes \ {n} : /\ spc'[k] = spc[k] /\ tcpport'[k] = tcpport[k]
                               /\ inftp'[k] = inftp[k]
      /\ \/ spc[n] = "start" /\ spc'[n] = "send" /\ tcpport'[n] = -1 /\ inftp'[n] = inftp[n]
         \/ /\ spc[n] = "wait" /\ spc'[n] = "leave" /\ tcpport[n] >= 0
            /\ inftp'[n] = inftp[n] /\ tcpport'[n] = tcpport[n]
         \/ spc[n] = "leave" /\ spc'[n] = "none"
  BY Zenon DEF SendPrepares, SendConnects, SendLeaves, SendInv, SendTyped
<1>2. SendTyped'
  <2>1. CASE SendPrepares(n) BY <1>0, <2>1 DEF SendPrepares, SendInv, SendTyped, SendSteps
  <2>2. CASE SendConnects(n) BY <1>0, <2>2, Zenon DEF SendConnects, SendInv, SendTyped, SendSteps
  <2>3. CASE SendLeaves(n) BY <1>0, <2>3, Zenon DEF SendLeaves, SendInv, SendTyped, SendSteps
  <2> QED BY <2>1, <2>2, <2>3, Zenon
<1>3. \A m \in unet' : Sound(m)' BY <1>0, Zenon DEF SendInv, Sound
<1>4. \A k \in Nodes : spc'[k] # "none" => inftp'[k] = 1 BY <1>1, Zenon DEF SendInv
<1>5. Answering'
  <2> SUFFICES ASSUME udup = 0, NEW k \in Nodes
               PROVE  /\ Single(k)' /\ Awaited(k)'
                      /\ spc'[k] = "send" => tcpport'[k] = -1
                      /\ moved = 0 => Directed(k)' /\ Served(k)'
    BY <1>0, Zenon DEF Answering
  <2>1. /\ Single(k) /\ Awaited(k) /\ (spc[k] = "send" => tcpport[k] = -1)
        /\ moved = 0 => Directed(k) /\ Served(k)
    BY Zenon DEF SendInv, Answering
  <2>2. Single(k)' BY <1>0, <2>1, Zenon DEF Single, Pending
  <2>3. moved = 0 => Directed(k)' BY <1>0, <2>1, Zenon DEF Directed, Asked
  <2>4. CASE k = n
    <3>1. spc[n] # "wait" \/ tcpport[n] # -1 BY <1>1
    <3>2. Awaited(k)' BY <1>0, <2>1, <2>4, <3>1, Zenon DEF Awaited, Pending
    <3>3. moved = 0 => Served(k)' BY <1>0, <1>1, <2>1, <2>4, Zenon DEF Served, Asked
    <3> QED BY <1>1, <2>2, <2>3, <2>4, <3>2, <3>3, Zenon
  <2>5. CASE k # n
    <3>1. spc'[k] = spc[k] /\ tcpport'[k] = tcpport[k] BY <1>1, <2>5, Zenon
    <3>2. Awaited(k)' BY <1>0, <2>1, <3>1, Zenon DEF Awaited, Pending
    <3>3. moved = 0 => Served(k)' BY <1>0, <2>1, <3>1, Zenon DEF Served, Asked
    <3> QED BY <2>1, <2>2, <2>3, <3>1, <3>2, <3>3, Zenon
  <2> QED BY <2>4, <2>5, Zenon
<1> QED BY <1>2, <1>3, <1>4, <1>5, Zenon DEF SendInv

\* The request goes out, to the slot's address.
LEMMA AskStep == ASSUME SendInv, NEW n \in Nodes, SendAsks(n) PROVE SendInv'
<1>0. /\ UNCHANGED <<addrlist, rmaddr, inftp, tport, tcpport, udpslot, udup, moved>>
      /\ spc[n] = "send" /\ spc' = [spc EXCEPT ![n] = "wait"]
      /\ answered' = [answered EXCEPT ![n] = "none"]
  BY Zenon DEF SendAsks, udpVars, tcpVars
<1> DEFINE q == [Msg(n, "req", sid[n], 0) EXCEPT !.to = Asked(n)]
<1>1. q.to = Asked(n) /\ q.from = Home(n) /\ q.kind = "req" /\ q.port = 0 BY Zenon DEF Msg
<1>2. unet' \subseteq unet \cup {q}
  BY Zenon DEF SendAsks, Transmits, udplib_sendto, Asked
<1> HIDE DEF q
<1>3. SendTyped' BY <1>0, Zenon DEF SendInv, SendTyped, SendSteps
<1>4. \A m \in unet' : Sound(m)'
  <2>1. Asked(n) \in Reached BY AskedIn, Zenon DEF SendInv
  <2>2. Sound(q) BY <1>1, <2>1 DEF Sound
  <2> QED BY <1>2, <2>2, Zenon DEF SendInv, Sound
<1>5. \A k \in Nodes : spc'[k] # "none" => inftp'[k] = 1 BY <1>0, Zenon DEF SendInv, SendTyped
<1>6. Answering'
  <2> SUFFICES ASSUME udup = 0, NEW k \in Nodes
               PROVE  /\ Single(k)' /\ Awaited(k)'
                      /\ spc'[k] = "send" => tcpport'[k] = -1
                      /\ moved = 0 => Directed(k)' /\ Served(k)'
    BY <1>0, Zenon DEF Answering
  <2>1. /\ Single(k) /\ Awaited(k) /\ (spc[k] = "send" => tcpport[k] = -1)
        /\ moved = 0 => Directed(k) /\ Served(k)
    BY Zenon DEF SendInv, Answering
  <2>2. CASE k = n
    <3>1. \A m \in unet : ~Pending(k, m) BY <1>0, <2>1, <2>2, Zenon DEF Awaited
    <3>2. spc'[k] = "wait" /\ tcpport'[k] = -1 BY <1>0, <2>1, <2>2, Zenon DEF SendInv, SendTyped
    <3>3. Single(k)' /\ Awaited(k)' BY <1>2, <3>1, <3>2, Zenon DEF Single, Awaited, Pending
    <3>4. Directed(k)' BY <1>0, <1>1, <1>2, <2>2, <3>1, Zenon DEF Directed, Asked, Pending
    <3> QED BY <3>2, <3>3, <3>4 DEF Served
  <2>3. CASE k # n
    <3>1. ~Pending(k, q) BY <1>1, <2>3, HomesDiffer, Zenon DEF Pending
    <3>2. spc'[k] = spc[k] /\ answered'[k] = answered[k]
      BY <1>0, <2>3, Zenon DEF SendInv, SendTyped
    <3>3. Single(k)' /\ Awaited(k)'
      BY <1>0, <1>2, <2>1, <3>1, <3>2, Zenon DEF Single, Awaited, Pending
    <3>4. moved = 0 => Directed(k)'
      BY <1>0, <1>2, <2>1, <3>1, <3>2, Zenon DEF Directed, Asked, Pending
    <3>5. moved = 0 => Served(k)' BY <1>0, <2>1, <3>2, Zenon DEF Served, Asked
    <3> QED BY <1>0, <2>1, <3>2, <3>3, <3>4, <3>5, Zenon
  <2> QED BY <2>2, <2>3, Zenon
<1> QED BY <1>3, <1>4, <1>5, <1>6, Zenon DEF SendInv

\* Every step of every thread keeps the invariant.
LEMMA SendInductive == SendInv /\ [SfNext]_sfvars => SendInv'
<1> SUFFICES ASSUME SendInv, [SfNext]_sfvars PROVE SendInv' BY Zenon
<1>0. rmaddr \in [Nodes -> Reached] BY Zenon DEF SendInv, SendTyped
<1>1. CASE UNCHANGED sfvars
  BY <1>0, <1>1, Fewer, Zenon DEF sfvars, udpVars, sndVars, tcpVars, uhist
<1>2. CASE Undelivered
  BY <1>0, <1>2, Fewer, Zenon DEF Undelivered, udpVars, sndVars, tcpVars
<1>3. ASSUME NEW n \in Nodes, URequest(n) PROVE SendInv'
  <2>1. CASE \/ \E a \in Addrs \cup {NoAddr} : udplib_regist_addr(n, a)
             \/ \E by \in {"ip", "address"} : udplib_regist_rmaddr(n, by)
    BY <2>1, RegistStep, Zenon
  <2>2. CASE (\E i \in Slots : udplib_unregist(n, i)) \/ ucr_listen(n) \/ ucr_stop(n)
    BY <1>0, <2>2, Fewer, Zenon
    DEF udplib_unregist, ucr_listen, ucr_stop, udpVars, sndVars, tcpVars, uhist
  <2>3. CASE \E i \in Slots : \E ok \in BOOLEAN : ftp_send(n, i, ok) BY <2>3, BeginStep, Zenon
  <2> QED BY <1>3, <2>1, <2>2, <2>3, Zenon DEF URequest
<1>4. ASSUME NEW n \in Nodes, UNode(n) PROVE SendInv'
  <2>1. CASE StopReturns(n) \/ ListenEnds(n) \/ TcpListens(n)
    BY <1>0, <2>1, Fewer, Zenon
    DEF StopReturns, ListenEnds, TcpListens, udpVars, sndVars, tcpVars, uhist
  <2>2. CASE listen_main(n) BY <2>2, ReceiveStep, Zenon
  <2>3. CASE SendAsks(n) BY <2>3, AskStep, Zenon
  <2>4. CASE SendPrepares(n) \/ SendConnects(n) \/ SendLeaves(n) BY <2>4, ThreadStep, Zenon
  <2> QED BY <1>4, <2>1, <2>2, <2>3, <2>4, Zenon DEF UNode, ftpsend_main
<1> QED BY <1>1, <1>2, <1>3, <1>4, Zenon DEF SfNext

\* ftpsend_main connects to the host that its own request made open a port,
\* unless an answer came twice or the slot was given to another host meanwhile.
THEOREM SendersArePaired == SfSpec => []Paired
<1>1. SendInv => Paired BY Zenon DEF SendInv, Answering, Served, Asked, Paired
<1> QED BY <1>1, SendInitially, SendInductive, PTL DEF SfSpec

(***************************************************************************)
(* The FTP client for any greetings and any file.  A call is a sequence of *)
(* steps; the client and the server stay in step because each step that    *)
(* the server answers is followed at once by the read of one reply, and a  *)
(* read takes a whole reply, whatever lines it has.                        *)
(***************************************************************************)
\* The codes of replies, and the replies the server can give.
Codes == Nat \ {0}
Replied == UNION {Forms(c) : c \in Codes}

\* What tuples and lines are, for the provers.
LEMMA OneLine ==
  ASSUME NEW q, NEW a, q = <<a>> PROVE Len(q) = 1 /\ DOMAIN q = 1 .. 1 /\ q[1] = a
OBVIOUS

\* A reply of three lines.
LEMMA ThreeLines ==
  ASSUME NEW q, NEW a, NEW b, NEW c, q = <<a, b, c>>
  PROVE  Len(q) = 3 /\ DOMAIN q = 1 .. 3 /\ q[1] = a /\ q[2] = b /\ q[3] = c
OBVIOUS

\* A reply of four lines.
LEMMA FourLines ==
  ASSUME NEW q, NEW a, NEW b, NEW c, NEW d, q = <<a, b, c, d>>
  PROVE  /\ Len(q) = 4 /\ DOMAIN q = 1 .. 4
         /\ q[1] = a /\ q[2] = b /\ q[3] = c /\ q[4] = d
OBVIOUS

\* The parts of a line.
LEMMA Fields == ASSUME NEW c, NEW s PROVE Line(c, s).code = c /\ Line(c, s).sep = s
BY Zenon DEF Line

\* A call with steps has a first one.
LEMMA NoSteps == ASSUME NEW T, NEW s \in Seq(T) PROVE s # <<>> <=> Len(s) >= 1
OBVIOUS

\* getreply remembers the code of the first line of a reply that continues.
LEMMA FirstCode ==
  ASSUME NEW c \in Codes, NEW q, q[1] = Line(c, "dash"), NEW i \in Nat
  PROVE  /\ Continued(q, i) <=> i >= 1
         /\ OriginalCode(q, i) = IF i = 0 THEN 0 ELSE c
<1>1. \A j \in Nat : Continued(q, j) <=> j >= 1
  <2>1. q[1].sep = "dash" BY DEF Line
  <2> QED BY <2>1 DEF Continued
<1>2. LineCode(q, 1) = c
  <2>1. ~Continued(q, 1 - 1) BY <1>1
  <2> QED BY <2>1 DEF LineCode, Line
<1> DEFINE set == {j \in 1 .. i : Continued(q, j) /\ LineCode(q, j) # 0}
<1>3. CASE i = 0
  <2>1. set = {} BY <1>3
  <2> QED BY <1>1, <1>3, <2>1, Zenon DEF OriginalCode
<1>4. CASE i # 0
  <2>1. 1 \in set BY <1>1, <1>2, <1>4 DEF Codes
  <2>2. \A k \in set : k \in Nat /\ 1 <= k OBVIOUS
  <2> DEFINE j == CHOOSE j \in set : \A k \in set : j <= k
  <2> HIDE DEF set
  <2>3. j \in set /\ \A k \in set : j <= k BY <2>1, <2>2, Zenon
  <2>4. j = 1 BY <2>1, <2>2, <2>3
  <2>5. OriginalCode(q, i) = LineCode(q, j) BY <2>1, Zenon DEF OriginalCode, set
  <2> QED BY <1>1, <1>2, <1>4, <2>4, <2>5, Zenon
<1> QED BY <1>3, <1>4, Zenon

\* getreply takes a reply whole, whatever lines it has.
LEMMA ReadWhole == ASSUME NEW q \in Replied PROVE ReplyEnds(q) = Len(q)
<1>0. PICK c \in Codes : q \in Forms(c) BY Zenon DEF Replied
<1> DEFINE ends(i) == ~Continued(q, i) \/ LineCode(q, i) = OriginalCode(q, i - 1)
<1>1. \E n \in Nat : /\ Len(q) = n /\ DOMAIN q = 1 .. n /\ n >= 1 /\ ends(n)
                     /\ \A j \in 1 .. n - 1 : ~ends(j)
  <2>1. CASE q = <<Line(c, "space")>>
    <3>1. Len(q) = 1 /\ DOMAIN q = 1 .. 1 /\ q[1] = Line(c, "space") BY <2>1, OneLine, Zenon
    <3>2. q[1].sep = "space" BY <3>1, Fields
    <3>3. ~Continued(q, 1) BY <3>2 DEF Continued
    <3>4. ends(1) BY <3>3, Zenon
    <3> HIDE DEF ends
    <3>5. 1 \in Nat /\ 1 >= 1 /\ \A j \in 1 .. 1 - 1 : ~ends(j) OBVIOUS
    <3> QED BY <3>1, <3>4, <3>5, Zenon
  <2>2. CASE q = <<Line(c, "dash"), Line(0, "other"), Line(c, "space")>>
    <3>1. /\ Len(q) = 3 /\ DOMAIN q = 1 .. 3
          /\ q[1] = Line(c, "dash") /\ q[2] = Line(0, "other") /\ q[3] = Line(c, "space")
      BY <2>2, ThreeLines, Zenon
    <3>2. \A i \in Nat : /\ Continued(q, i) <=> i >= 1
                         /\ OriginalCode(q, i) = IF i = 0 THEN 0 ELSE c
      BY <3>1, FirstCode, Zenon
    <3>0. /\ q[1].sep = "dash" /\ q[2].sep = "other" /\ q[3].sep = "space"
          /\ q[1].code = c /\ q[2].code = 0 /\ q[3].code = c
      BY <3>1, Fields
    <3>3. LineCode(q, 1) = c /\ LineCode(q, 2) = 0 /\ LineCode(q, 3) = c
      BY <3>0, <3>2 DEF LineCode
    <3>4. ~ends(1) /\ ~ends(2) /\ ends(3) BY <3>2, <3>3 DEF Codes
    <3> HIDE DEF ends
    <3>5. 3 \in Nat /\ 3 >= 1 /\ \A j \in 1 .. 3 - 1 : j = 1 \/ j = 2 OBVIOUS
    <3> QED BY <3>1, <3>4, <3>5, Zenon
  <2>3. CASE q = <<Line(c, "dash"), Line(c, "dash"), Line(0, "dash"), Line(c, "space")>>
    <3>1. /\ Len(q) = 4 /\ DOMAIN q = 1 .. 4
          /\ q[1] = Line(c, "dash") /\ q[2] = Line(c, "dash")
          /\ q[3] = Line(0, "dash") /\ q[4] = Line(c, "space")
      BY <2>3, FourLines, Zenon
    <3>2. \A i \in Nat : /\ Continued(q, i) <=> i >= 1
                         /\ OriginalCode(q, i) = IF i = 0 THEN 0 ELSE c
      BY <3>1, FirstCode, Zenon
    <3>0. /\ q[1].sep = "dash" /\ q[2].sep = "dash" /\ q[3].sep = "dash" /\ q[4].sep = "space"
          /\ q[1].code = c /\ q[3].code = 0 /\ q[4].code = c
      BY <3>1, Fields
    <3>3. LineCode(q, 1) = c /\ LineCode(q, 2) = 0 /\ LineCode(q, 3) = 0 /\ LineCode(q, 4) = c
      BY <3>0, <3>2 DEF LineCode
    <3>4. ~ends(1) /\ ~ends(2) /\ ~ends(3) /\ ends(4) BY <3>2, <3>3 DEF Codes
    <3> HIDE DEF ends
    <3>5. 4 \in Nat /\ 4 >= 1 /\ \A j \in 1 .. 4 - 1 : j = 1 \/ j = 2 \/ j = 3 OBVIOUS
    <3> QED BY <3>1, <3>4, <3>5, Zenon
  <2> QED BY <1>0, <2>1, <2>2, <2>3, Zenon DEF Forms
<1>2. PICK n \in Nat : /\ Len(q) = n /\ DOMAIN q = 1 .. n /\ n >= 1 /\ ends(n)
                       /\ \A j \in 1 .. n - 1 : ~ends(j)
  BY <1>1, Zenon
<1>3. ReplyEnds(q) = CHOOSE i \in DOMAIN q : ends(i) /\ \A j \in 1 .. i - 1 : ~ends(j)
  BY Zenon DEF ReplyEnds
<1> HIDE DEF ends
<1>4. n \in DOMAIN q BY <1>2
<1>5. \A i \in DOMAIN q : ends(i) /\ (\A j \in 1 .. i - 1 : ~ends(j)) => i = n BY <1>2
<1> QED BY <1>2, <1>3, <1>4, <1>5, Zenon

-----------------------------------------------------------------------------
\* The steps that the server answers, all steps, and the entries of a call.
Spoken == Commands \cup {"send", "recv"}
Names == Spoken \cup {"read", "greeted", "loggedin", "socket", "connect", "open"}
Step == {<<s>> : s \in Names} \cup (Names \X SUBSET Nat)

\* In a call each step that the server answers is followed by a read of the
\* answer, and there is no other read after the first step.
InTurn(call) ==
    /\ call \in Seq(Step)
    /\ \A i \in 1 .. Len(call) :
        /\ call[i][1] \in Spoken => i < Len(call) /\ call[i + 1][1] = "read"
        /\ call[i][1] = "read" /\ i > 1 => call[i - 1][1] \in Spoken

\* The next thing that the call does is read a reply.
FirstReads(call) == call # <<>> /\ call[1][1] = "read"

\* The inductive invariant of the client: a whole reply is there when the call
\* is about to read one, and nothing otherwise.
FtpInv ==
    /\ InTurn(fcall)
    /\ early = 0 => IF FirstReads(fcall) THEN freply \in Replied ELSE freply = <<>>

\* A call that is over reads nothing.
LEMMA EmptyInTurn == InTurn(<<>>) /\ ~FirstReads(<<>>)
BY DEF InTurn, FirstReads

\* What is left of a call after its first k steps.
LEMMA RestInTurn ==
  ASSUME NEW call, InTurn(call), NEW k \in 1 .. Len(call), NEW rest \in Seq(Step),
         Len(rest) = Len(call) - k, \A i \in 1 .. Len(call) - k : rest[i] = call[i + k]
  PROVE  InTurn(rest) /\ (FirstReads(rest) <=> call[k][1] \in Spoken)
<1>1. PICK n \in Nat : n = Len(call) BY DEF InTurn
<1>2. PICK r \in Nat : r = n - k /\ r = Len(rest)
  <2>1. n - k \in Nat BY <1>1
  <2> QED BY <1>1, <2>1, Zenon
<1>3. InTurn(rest)
  <2> SUFFICES ASSUME NEW i \in 1 .. r
               PROVE  /\ rest[i][1] \in Spoken => i < r /\ rest[i + 1][1] = "read"
                      /\ rest[i][1] = "read" /\ i > 1 => rest[i - 1][1] \in Spoken
    BY <1>2, Zenon DEF InTurn
  <2>1. i + k \in 1 .. n BY <1>1, <1>2
  <2>2. /\ call[i + k][1] \in Spoken => i + k < n /\ call[(i + k) + 1][1] = "read"
        /\ call[i + k][1] = "read" /\ i + k > 1 => call[(i + k) - 1][1] \in Spoken
    BY <1>1, <2>1, Zenon DEF InTurn
  <2>3. rest[i] = call[i + k] BY <1>1, <1>2, Zenon
  <2>4. i < r => rest[i + 1] = call[(i + k) + 1] BY <1>1, <1>2
  <2>5. i > 1 => rest[i - 1] = call[(i + k) - 1] BY <1>1, <1>2
  <2>6. (i + k < n <=> i < r) /\ (i > 1 => i + k > 1) BY <1>1, <1>2
  <2> QED BY <2>2, <2>3, <2>4, <2>5, <2>6, Zenon
<1>4. rest # <<>> <=> r >= 1 BY <1>2, NoSteps, Zenon
<1>5. r >= 1 => rest[1] = call[k + 1] BY <1>1, <1>2
<1>6. call[k][1] \in Spoken => k < n /\ call[k + 1][1] = "read" BY <1>1, Zenon DEF InTurn
<1>7. k < n /\ call[k + 1][1] = "read" => call[k][1] \in Spoken
  <2>1. k < n => k + 1 \in 1 .. n /\ k + 1 > 1 /\ (k + 1) - 1 = k BY <1>1
  <2>2. \A i \in 1 .. n : call[i][1] = "read" /\ i > 1 => call[i - 1][1] \in Spoken
    BY <1>1, Zenon DEF InTurn
  <2>3. k < n /\ call[k + 1][1] = "read" => call[(k + 1) - 1][1] \in Spoken
    BY <2>1, <2>2, Zenon
  <2> QED BY <2>1, <2>3, Zenon
<1>8. r >= 1 <=> k < n BY <1>1, <1>2
<1> QED BY <1>3, <1>4, <1>5, <1>6, <1>7, <1>8, Zenon DEF FirstReads

\* What is left after the first step: it begins with a read if that was answered.
LEMMA TailInTurn ==
  ASSUME NEW call, InTurn(call), call # <<>>
  PROVE  InTurn(Tail(call)) /\ (FirstReads(Tail(call)) <=> call[1][1] \in Spoken)
<1>1. PICK n \in Nat : n = Len(call) /\ n >= 1 BY NoSteps DEF InTurn
<1>2. /\ Tail(call) \in Seq(Step) /\ Len(Tail(call)) = n - 1
      /\ \A i \in 1 .. n - 1 : Tail(call)[i] = call[i + 1]
  BY <1>1 DEF InTurn
<1>3. 1 \in 1 .. n BY <1>1
<1> QED BY <1>1, <1>2, <1>3, RestInTurn, Zenon

\* USER was enough: the password's command and its reply are passed over.
LEMMA SkipInTurn ==
  ASSUME NEW call, InTurn(call), Len(call) > 1, call[2][1] = "PASS"
  PROVE  InTurn(SubSeq(call, 4, Len(call))) /\ ~FirstReads(SubSeq(call, 4, Len(call)))
<1>1. PICK n \in Nat : n = Len(call) BY DEF InTurn
<1>2. "PASS" \in Spoken /\ "read" \notin Spoken BY Zenon DEF Spoken, Commands
<1>3. n >= 3 /\ call[3][1] = "read" BY <1>1, <1>2 DEF InTurn
<1>4. /\ SubSeq(call, 4, n) \in Seq(Step) /\ Len(SubSeq(call, 4, n)) = n - 3
      /\ \A i \in 1 .. n - 3 : SubSeq(call, 4, n)[i] = call[i + 3]
  BY <1>1, <1>3 DEF InTurn
<1>5. 3 \in 1 .. n BY <1>3
<1>6. InTurn(SubSeq(call, 4, n)) /\ (FirstReads(SubSeq(call, 4, n)) <=> call[3][1] \in Spoken)
  BY <1>1, <1>4, <1>5, RestInTurn, Zenon
<1> QED BY <1>1, <1>2, <1>3, <1>6, Zenon

\* Two calls one after the other, as initconn before a transfer.
LEMMA JoinInTurn ==
  ASSUME NEW a, NEW b, InTurn(a), InTurn(b), ~FirstReads(b)
  PROVE  InTurn(a \o b) /\ (FirstReads(a \o b) <=> FirstReads(a))
<1>1. PICK m \in Nat : m = Len(a) BY DEF InTurn
<1>2. PICK n \in Nat : n = Len(b) BY DEF InTurn
<1>3. /\ a \o b \in Seq(Step) /\ Len(a \o b) = m + n
      /\ \A i \in 1 .. m : (a \o b)[i] = a[i]
      /\ \A i \in 1 .. n : (a \o b)[m + i] = b[i]
  BY <1>1, <1>2 DEF InTurn
<1>4. ASSUME NEW i \in 1 .. m + n
      PROVE  /\ (a \o b)[i][1] \in Spoken =>
                    i < m + n /\ (a \o b)[i + 1][1] = "read"
             /\ (a \o b)[i][1] = "read" /\ i > 1 => (a \o b)[i - 1][1] \in Spoken
  <2>1. CASE i <= m
    <3>1. i \in 1 .. m BY <2>1
    <3>2. /\ a[i][1] \in Spoken => i < m /\ a[i + 1][1] = "read"
          /\ a[i][1] = "read" /\ i > 1 => a[i - 1][1] \in Spoken
      BY <1>1, <3>1, Zenon DEF InTurn
    <3>3. (a \o b)[i] = a[i] BY <1>3, <3>1, Zenon
    <3>4. i < m => (a \o b)[i + 1] = a[i + 1]
      <4>1. i < m => i + 1 \in 1 .. m BY <3>1
      <4> QED BY <1>3, <4>1, Zenon
    <3>5. i > 1 => (a \o b)[i - 1] = a[i - 1]
      <4>1. i > 1 => i - 1 \in 1 .. m BY <3>1
      <4> QED BY <1>3, <4>1, Zenon
    <3>6. i < m => i < m + n OBVIOUS
    <3> QED BY <3>2, <3>3, <3>4, <3>5, <3>6, Zenon
  <2>2. CASE i > m
    <3>0. PICK j \in 1 .. n : i = m + j
      <4>1. i - m \in 1 .. n /\ i = m + (i - m) BY <2>2
      <4> QED BY <4>1, Zenon
    <3>1. /\ b[j][1] \in Spoken => j < n /\ b[j + 1][1] = "read"
          /\ b[j][1] = "read" /\ j > 1 => b[j - 1][1] \in Spoken
      BY <1>2, Zenon DEF InTurn
    <3>2. (a \o b)[i] = b[j] BY <1>3, <3>0, Zenon
    <3>3. j < n => (a \o b)[i + 1] = b[j + 1]
      <4>1. j < n => j + 1 \in 1 .. n /\ i + 1 = m + (j + 1) BY <3>0
      <4>2. j < n => (a \o b)[m + (j + 1)] = b[j + 1] BY <1>3, <4>1, Zenon
      <4> QED BY <4>1, <4>2, Zenon
    <3>4. j > 1 => (a \o b)[i - 1] = b[j - 1]
      <4>1. j > 1 => j - 1 \in 1 .. n /\ i - 1 = m + (j - 1) BY <3>0
      <4>2. j > 1 => (a \o b)[m + (j - 1)] = b[j - 1] BY <1>3, <4>1, Zenon
      <4> QED BY <4>1, <4>2, Zenon
    <3>5. b[j][1] = "read" => j > 1
      <4>1. j = 1 => b[j][1] # "read"
        <5>1. b # <<>> BY <1>2, NoSteps DEF InTurn
        <5> QED BY <5>1, Zenon DEF FirstReads
      <4> QED BY <4>1
    <3>6. j < n => i < m + n BY <3>0
    <3> QED BY <3>1, <3>2, <3>3, <3>4, <3>5, <3>6, Zenon
  <2>3. i <= m \/ i > m OBVIOUS
  <2> QED BY <2>1, <2>2, <2>3, Zenon
<1>5. InTurn(a \o b) BY <1>3, <1>4, Zenon DEF InTurn
<1>6. a # <<>> <=> m >= 1 BY <1>1, NoSteps, Zenon DEF InTurn
<1>7. b # <<>> <=> n >= 1 BY <1>2, NoSteps, Zenon DEF InTurn
<1>8. a \o b # <<>> <=> m + n >= 1 BY <1>3, NoSteps, Zenon
<1>9. CASE m = 0
  <2>1. ~FirstReads(a) BY <1>6, <1>9 DEF FirstReads
  <2>2. n >= 1 => (a \o b)[1] = b[1]
    <3>1. n >= 1 => 1 \in 1 .. n /\ m + 1 = 1 BY <1>9
    <3>2. n >= 1 => (a \o b)[m + 1] = b[1] BY <1>3, <3>1, Zenon
    <3> QED BY <3>1, <3>2, Zenon
  <2>3. ~FirstReads(a \o b) BY <1>7, <1>8, <1>9, <2>2 DEF FirstReads
  <2> QED BY <1>5, <2>1, <2>3, Zenon
<1>10. CASE m >= 1
  <2>1. (a \o b)[1] = a[1] BY <1>3, <1>10
  <2> QED BY <1>5, <1>6, <1>8, <1>10, <2>1 DEF FirstReads
<1> QED BY <1>9, <1>10

\* The name of a step.
LEMMA Parts ==
  /\ \A s \in Names : <<s>> \in Step /\ <<s>>[1] = s
  /\ \A s \in Names, c \in SUBSET Nat : <<s, c>> \in Step /\ <<s, c>>[1] = s
<1>1. ASSUME NEW s \in Names PROVE <<s>> \in Step BY Zenon DEF Step
<1>2. ASSUME NEW s \in Names, NEW c \in SUBSET Nat PROVE <<s, c>> \in Step BY Zenon DEF Step
<1>3. \A s, c : <<s>>[1] = s /\ <<s, c>>[1] = s BY Zenon
<1> QED BY <1>1, <1>2, <1>3, Zenon

\* A step without an answer.
LEMMA Alone ==
  ASSUME NEW e \in Step, e[1] \notin Spoken
  PROVE  InTurn(<<e>>) /\ (FirstReads(<<e>>) <=> e[1] = "read")
BY DEF InTurn, FirstReads

\* A step with its answer read.
LEMMA Answered ==
  ASSUME NEW e \in Step, NEW r \in Step, e[1] \in Spoken, r[1] = "read"
  PROVE  InTurn(<<e, r>>) /\ ~FirstReads(<<e, r>>)
<1>1. e[1] # "read" BY Zenon DEF Spoken, Commands
<1>2. Len(<<e, r>>) = 2 /\ <<e, r>>[1] = e /\ <<e, r>>[2] = r /\ <<e, r>> \in Seq(Step) OBVIOUS
<1>3. \A i \in 1 .. 2 : i = 1 \/ i = 2 OBVIOUS
<1>4. "read" \notin Spoken BY Zenon DEF Spoken, Commands
<1> QED BY <1>1, <1>2, <1>3, <1>4 DEF InTurn, FirstReads

\* The pieces that the calls are made of.
Ask(s, classes) == << <<s>>, <<"read", classes>> >>
Do(s) == << <<s>> >>

\* command followed by getreply.
LEMMA AskInTurn ==
  ASSUME NEW s \in Spoken, NEW c \in SUBSET Nat
  PROVE  InTurn(Ask(s, c)) /\ ~FirstReads(Ask(s, c))
<1>1. s \in Names /\ "read" \in Names BY Zenon DEF Names
<1> QED BY <1>1, Parts, Answered, Zenon DEF Ask

\* A step of the client alone.
LEMMA DoInTurn ==
  ASSUME NEW s \in {"greeted", "loggedin", "socket", "connect", "open"}
  PROVE  InTurn(Do(s)) /\ ~FirstReads(Do(s))
<1>1. s \in Names BY Zenon DEF Names
<1>2. s \notin Spoken /\ s # "read" BY Zenon DEF Spoken, Commands
<1> QED BY <1>1, <1>2, Parts, Alone, Zenon DEF Do

\* Sequences with the same elements are the same.
LEMMA SameSteps ==
  ASSUME NEW T, NEW s \in Seq(T), NEW t \in Seq(T), Len(s) = Len(t),
         \A i \in 1 .. Len(s) : s[i] = t[i]
  PROVE  s = t
OBVIOUS

\* How to recognise a concatenation; then those that the calls need.
LEMMA Concatenated ==
  ASSUME NEW T, NEW s \in Seq(T), NEW t \in Seq(T), NEW u \in Seq(T),
         Len(u) = Len(s) + Len(t),
         \A i \in 1 .. Len(u) : u[i] = IF i <= Len(s) THEN s[i] ELSE t[i - Len(s)]
  PROVE  s \o t = u
<1>1. s \o t \in Seq(T) /\ Len(s \o t) = Len(u) OBVIOUS
<1>2. \A i \in 1 .. Len(u) : (s \o t)[i] = u[i] OBVIOUS
<1> QED BY <1>1, <1>2, SameSteps, Zenon

\* The concatenation of one and one.
LEMMA OneOne ==
  ASSUME NEW a, NEW b
  PROVE  <<a>> \o <<b>> = <<a, b>>
<1> DEFINE s == <<a>>
           t == <<b>>
           u == <<a, b>>
           T == {a, b}
<1>1. s \in Seq(T) /\ t \in Seq(T) /\ u \in Seq(T) OBVIOUS
<1>2. Len(u) = Len(s) + Len(t) OBVIOUS
<1>3. \A i \in 1 .. Len(u) : u[i] = IF i <= Len(s) THEN s[i] ELSE t[i - Len(s)] OBVIOUS
<1> HIDE DEF s, t, u, T
<1>4. s \o t = u BY <1>1, <1>2, <1>3, Concatenated, Zenon
<1> QED BY <1>4, Zenon DEF s, t, u

\* The concatenation of one and two.
LEMMA OneTwo ==
  ASSUME NEW a, NEW b, NEW c
  PROVE  <<a>> \o <<b, c>> = <<a, b, c>>
<1> DEFINE s == <<a>>
           t == <<b, c>>
           u == <<a, b, c>>
           T == {a, b, c}
<1>1. s \in Seq(T) /\ t \in Seq(T) /\ u \in Seq(T) OBVIOUS
<1>2. Len(u) = Len(s) + Len(t) OBVIOUS
<1>3. \A i \in 1 .. Len(u) : u[i] = IF i <= Len(s) THEN s[i] ELSE t[i - Len(s)] OBVIOUS
<1> HIDE DEF s, t, u, T
<1>4. s \o t = u BY <1>1, <1>2, <1>3, Concatenated, Zenon
<1> QED BY <1>4, Zenon DEF s, t, u

\* The concatenation of one and three.
LEMMA OneThree ==
  ASSUME NEW a, NEW b, NEW c, NEW d
  PROVE  <<a>> \o <<b, c, d>> = <<a, b, c, d>>
<1> DEFINE s == <<a>>
           t == <<b, c, d>>
           u == <<a, b, c, d>>
           T == {a, b, c, d}
<1>1. s \in Seq(T) /\ t \in Seq(T) /\ u \in Seq(T) OBVIOUS
<1>2. Len(u) = Len(s) + Len(t) OBVIOUS
<1>3. \A i \in 1 .. Len(u) : u[i] = IF i <= Len(s) THEN s[i] ELSE t[i - Len(s)] OBVIOUS
<1> HIDE DEF s, t, u, T
<1>4. s \o t = u BY <1>1, <1>2, <1>3, Concatenated, Zenon
<1> QED BY <1>4, Zenon DEF s, t, u

\* The concatenation of two and one.
LEMMA TwoOne ==
  ASSUME NEW a, NEW b, NEW c
  PROVE  <<a, b>> \o <<c>> = <<a, b, c>>
<1> DEFINE s == <<a, b>>
           t == <<c>>
           u == <<a, b, c>>
           T == {a, b, c}
<1>1. s \in Seq(T) /\ t \in Seq(T) /\ u \in Seq(T) OBVIOUS
<1>2. Len(u) = Len(s) + Len(t) OBVIOUS
<1>3. \A i \in 1 .. Len(u) : u[i] = IF i <= Len(s) THEN s[i] ELSE t[i - Len(s)] OBVIOUS
<1> HIDE DEF s, t, u, T
<1>4. s \o t = u BY <1>1, <1>2, <1>3, Concatenated, Zenon
<1> QED BY <1>4, Zenon DEF s, t, u

\* The concatenation of two and two.
LEMMA TwoTwo ==
  ASSUME NEW a, NEW b, NEW c, NEW d
  PROVE  <<a, b>> \o <<c, d>> = <<a, b, c, d>>
<1> DEFINE s == <<a, b>>
           t == <<c, d>>
           u == <<a, b, c, d>>
           T == {a, b, c, d}
<1>1. s \in Seq(T) /\ t \in Seq(T) /\ u \in Seq(T) OBVIOUS
<1>2. Len(u) = Len(s) + Len(t) OBVIOUS
<1>3. \A i \in 1 .. Len(u) : u[i] = IF i <= Len(s) THEN s[i] ELSE t[i - Len(s)] OBVIOUS
<1> HIDE DEF s, t, u, T
<1>4. s \o t = u BY <1>1, <1>2, <1>3, Concatenated, Zenon
<1> QED BY <1>4, Zenon DEF s, t, u

\* The concatenation of two and three.
LEMMA TwoThree ==
  ASSUME NEW a, NEW b, NEW c, NEW d, NEW e
  PROVE  <<a, b>> \o <<c, d, e>> = <<a, b, c, d, e>>
<1> DEFINE s == <<a, b>>
           t == <<c, d, e>>
           u == <<a, b, c, d, e>>
           T == {a, b, c, d, e}
<1>1. s \in Seq(T) /\ t \in Seq(T) /\ u \in Seq(T) OBVIOUS
<1>2. Len(u) = Len(s) + Len(t) OBVIOUS
<1>3. \A i \in 1 .. Len(u) : u[i] = IF i <= Len(s) THEN s[i] ELSE t[i - Len(s)] OBVIOUS
<1> HIDE DEF s, t, u, T
<1>4. s \o t = u BY <1>1, <1>2, <1>3, Concatenated, Zenon
<1> QED BY <1>4, Zenon DEF s, t, u

\* The concatenation of two and five.
LEMMA TwoFive ==
  ASSUME NEW a, NEW b, NEW c, NEW d, NEW e, NEW f, NEW g
  PROVE  <<a, b>> \o <<c, d, e, f, g>> = <<a, b, c, d, e, f, g>>
<1> DEFINE s == <<a, b>>
           t == <<c, d, e, f, g>>
           u == <<a, b, c, d, e, f, g>>
           T == {a, b, c, d, e, f, g}
<1>1. s \in Seq(T) /\ t \in Seq(T) /\ u \in Seq(T) OBVIOUS
<1>2. Len(u) = Len(s) + Len(t) OBVIOUS
<1>3. \A i \in 1 .. Len(u) : u[i] = IF i <= Len(s) THEN s[i] ELSE t[i - Len(s)] OBVIOUS
<1> HIDE DEF s, t, u, T
<1>4. s \o t = u BY <1>1, <1>2, <1>3, Concatenated, Zenon
<1> QED BY <1>4, Zenon DEF s, t, u

\* Tuples are sequences.
LEMMA Tuples ==
  ASSUME NEW T, NEW a \in T, NEW b \in T, NEW c \in T, NEW d \in T
  PROVE  /\ <<a>> \in Seq(T) /\ <<a, b, c>> \in Seq(T) /\ <<a, b, c, d>> \in Seq(T)
OBVIOUS

\* The empty sequence adds nothing.
LEMMA JoinNothing == ASSUME NEW T, NEW s \in Seq(T) PROVE s \o <<>> = s /\ <<>> \o s = s
OBVIOUS

\* Nor does it to a reply.
LEMMA FormsAreLines ==
  ASSUME NEW c, NEW f \in Forms(c) PROVE f \o <<>> = f /\ <<>> \o f = f
<1> DEFINE T == {Line(c, "space"), Line(c, "dash"), Line(0, "other"), Line(0, "dash")}
<1>1. /\ Line(c, "space") \in T /\ Line(c, "dash") \in T
      /\ Line(0, "other") \in T /\ Line(0, "dash") \in T
  BY Zenon
<1> HIDE DEF T
<1>2. <<Line(c, "space")>> \in Seq(T) BY <1>1, Tuples, Zenon
<1>3. <<Line(c, "dash"), Line(0, "other"), Line(c, "space")>> \in Seq(T) BY <1>1, Tuples, Zenon
<1>4. <<Line(c, "dash"), Line(c, "dash"), Line(0, "dash"), Line(c, "space")>> \in Seq(T)
  BY <1>1, Tuples, Zenon
<1>5. f \in Seq(T) BY <1>2, <1>3, <1>4, Zenon DEF Forms
<1> QED BY <1>5, JoinNothing, Zenon

\* Every call of the client reads each answer right after what it answers.
LEMMA CallsInTurn ==
  /\ LET k == << <<"read", {1, 2}>>, <<"greeted">> >> IN InTurn(k) /\ FirstReads(k)
  /\ LET k == << <<"USER">>, <<"read", {3}>>, <<"PASS">>, <<"read", {2}>>,
                 <<"SYST">>, <<"read", 1 .. 5>>, <<"loggedin">> >> IN InTurn(k) /\ ~FirstReads(k)
  /\ LET k == << <<"OTHER">>, <<"read", 1 .. 5>> >> IN InTurn(k) /\ ~FirstReads(k)
  /\ InTurn(initconn) /\ ~FirstReads(initconn)
  /\ LET k == << <<"STOR">>, <<"read", {1}>>, <<"send">>, <<"read", 1 .. 5>> >>
     IN InTurn(k) /\ ~FirstReads(k)
  /\ LET k == << <<"REST">>, <<"read", {3}>> >> IN InTurn(k) /\ ~FirstReads(k)
  /\ \A cmd \in {"LIST", "RETR"} :
        LET k == << <<cmd>>, <<"read", {1}>>, <<"open">>, <<"recv">>, <<"read", 1 .. 5>> >>
        IN InTurn(k) /\ ~FirstReads(k)
<1>0. /\ {1, 2} \in SUBSET Nat /\ {1} \in SUBSET Nat /\ {2} \in SUBSET Nat /\ {3} \in SUBSET Nat
      /\ 1 .. 5 \in SUBSET Nat
  OBVIOUS
<1>1. /\ InTurn(Do("greeted")) /\ ~FirstReads(Do("greeted"))
      /\ InTurn(Do("loggedin")) /\ ~FirstReads(Do("loggedin"))
      /\ InTurn(Do("socket")) /\ ~FirstReads(Do("socket"))
      /\ InTurn(Do("connect")) /\ ~FirstReads(Do("connect"))
      /\ InTurn(Do("open")) /\ ~FirstReads(Do("open"))
  BY DoInTurn, Zenon
<1>2. \A s \in Spoken, c \in SUBSET Nat : InTurn(Ask(s, c)) /\ ~FirstReads(Ask(s, c))
  BY AskInTurn, Zenon
<1>3. /\ "USER" \in Spoken /\ "PASS" \in Spoken /\ "SYST" \in Spoken
      /\ "OTHER" \in Spoken /\ "PASV" \in Spoken /\ "STOR" \in Spoken
      /\ "send" \in Spoken /\ "REST" \in Spoken /\ "recv" \in Spoken
      /\ "LIST" \in Spoken /\ "RETR" \in Spoken
  BY Zenon DEF Spoken, Commands
<1>4. LET k == << <<"read", {1, 2}>>, <<"greeted">> >> IN InTurn(k) /\ FirstReads(k)
  <2> DEFINE r == <<"read", {1, 2}>>
  <2>1. r \in Step /\ r[1] = "read" BY <1>0, Parts, Zenon DEF Names
  <2>2. "read" \notin Spoken BY Zenon DEF Spoken, Commands
  <2> HIDE DEF r
  <2>3. InTurn(<<r>>) /\ FirstReads(<<r>>) BY <2>1, <2>2, Alone, Zenon
  <2>4. << r, <<"greeted">> >> = <<r>> \o Do("greeted") BY OneOne, Zenon DEF Do
  <2>5. InTurn(<< r, <<"greeted">> >>) /\ FirstReads(<< r, <<"greeted">> >>)
    <3>1. InTurn(Do("greeted")) /\ ~FirstReads(Do("greeted")) BY <1>1, Zenon
    <3>2. InTurn(<<r>> \o Do("greeted")) /\ FirstReads(<<r>> \o Do("greeted"))
      BY <2>3, <3>1, JoinInTurn, Zenon
    <3> QED BY <2>4, <3>2, Zenon
  <2> QED BY <2>5, Zenon DEF r
<1>5. LET k == << <<"USER">>, <<"read", {3}>>, <<"PASS">>, <<"read", {2}>>,
                 <<"SYST">>, <<"read", 1 .. 5>>, <<"loggedin">> >> IN InTurn(k) /\ ~FirstReads(k)
  <2> DEFINE c == Ask("SYST", 1 .. 5) \o Do("loggedin")
  <2>0. /\ InTurn(Ask("SYST", 1 .. 5)) /\ ~FirstReads(Ask("SYST", 1 .. 5))
        /\ InTurn(Ask("PASS", {2})) /\ ~FirstReads(Ask("PASS", {2}))
        /\ InTurn(Ask("USER", {3})) /\ ~FirstReads(Ask("USER", {3}))
    BY <1>0, <1>2, <1>3, Zenon
  <2>1. InTurn(c) /\ ~FirstReads(c) BY <1>1, <2>0, JoinInTurn, Zenon
  <2> DEFINE b == Ask("PASS", {2}) \o c
  <2> HIDE DEF c
  <2>2. InTurn(b) /\ ~FirstReads(b) BY <2>0, <2>1, JoinInTurn, Zenon
  <2> DEFINE a == Ask("USER", {3}) \o b
  <2> HIDE DEF b
  <2>3. InTurn(a) /\ ~FirstReads(a) BY <2>0, <2>2, JoinInTurn, Zenon
  <2>4. a = << <<"USER">>, <<"read", {3}>>, <<"PASS">>, <<"read", {2}>>,
               <<"SYST">>, <<"read", 1 .. 5>>, <<"loggedin">> >>
    <3>1. c = << <<"SYST">>, <<"read", 1 .. 5>>, <<"loggedin">> >>
      BY TwoOne, Zenon DEF c, Ask, Do
    <3>2. b = << <<"PASS">>, <<"read", {2}>>, <<"SYST">>, <<"read", 1 .. 5>>, <<"loggedin">> >>
      <4> DEFINE w == <<"PASS">>
                 x == <<"read", {2}>>
                 y == <<"SYST">>
                 z == <<"read", 1 .. 5>>
                 l == <<"loggedin">>
      <4>1. b = <<w, x>> \o <<y, z, l>> BY <3>1, Zenon DEF b, Ask
      <4> HIDE DEF w, x, y, z, l
      <4>2. <<w, x>> \o <<y, z, l>> = <<w, x, y, z, l>> BY TwoThree, SMT
      <4> QED BY <4>1, <4>2, Zenon DEF w, x, y, z, l
    <3> DEFINE u == <<"USER">>
               v == <<"read", {3}>>
               w == <<"PASS">>
               x == <<"read", {2}>>
               y == <<"SYST">>
               z == <<"read", 1 .. 5>>
               l == <<"loggedin">>
    <3>3. a = <<u, v>> \o <<w, x, y, z, l>> BY <3>2, Zenon DEF a, Ask
    <3> HIDE DEF u, v, w, x, y, z, l
    <3>4. <<u, v>> \o <<w, x, y, z, l>> = <<u, v, w, x, y, z, l>> BY TwoFive, SMT
    <3> QED BY <3>3, <3>4, Zenon DEF u, v, w, x, y, z, l
  <2> HIDE DEF a
  <2> QED BY <2>3, <2>4, Zenon
<1>6. LET k == << <<"OTHER">>, <<"read", 1 .. 5>> >> IN InTurn(k) /\ ~FirstReads(k)
  BY <1>0, <1>2, <1>3, Zenon DEF Ask
<1>7. InTurn(initconn) /\ ~FirstReads(initconn)
  <2> DEFINE b == Ask("PASV", {2}) \o Do("connect")
  <2>0. InTurn(Ask("PASV", {2})) /\ ~FirstReads(Ask("PASV", {2})) BY <1>0, <1>2, <1>3, Zenon
  <2>1. InTurn(b) /\ ~FirstReads(b) BY <1>1, <2>0, JoinInTurn, Zenon
  <2> DEFINE a == Do("socket") \o b
  <2> HIDE DEF b
  <2>2. InTurn(a) /\ ~FirstReads(a) BY <1>1, <2>1, JoinInTurn, Zenon
  <2>3. a = initconn
    <3>1. b = << <<"PASV">>, <<"read", {2}>>, <<"connect">> >> BY TwoOne, Zenon DEF b, Ask, Do
    <3> QED BY <3>1, OneThree, Zenon DEF a, Do, initconn
  <2> QED BY <2>2, <2>3, Zenon
<1>8. LET k == << <<"STOR">>, <<"read", {1}>>, <<"send">>, <<"read", 1 .. 5>> >>
      IN InTurn(k) /\ ~FirstReads(k)
  <2> DEFINE a == Ask("STOR", {1}) \o Ask("send", 1 .. 5)
  <2>1. InTurn(a) /\ ~FirstReads(a) BY <1>0, <1>2, <1>3, JoinInTurn, Zenon
  <2>2. a = << <<"STOR">>, <<"read", {1}>>, <<"send">>, <<"read", 1 .. 5>> >>
    BY TwoTwo, Zenon DEF a, Ask
  <2> HIDE DEF a
  <2> QED BY <2>1, <2>2, Zenon
<1>9. LET k == << <<"REST">>, <<"read", {3}>> >> IN InTurn(k) /\ ~FirstReads(k)
  BY <1>0, <1>2, <1>3, Zenon DEF Ask
<1>10. ASSUME NEW cmd \in {"LIST", "RETR"}
       PROVE  LET k == << <<cmd>>, <<"read", {1}>>, <<"open">>, <<"recv">>, <<"read", 1 .. 5>> >>
              IN InTurn(k) /\ ~FirstReads(k)
  <2>0. cmd \in Spoken BY <1>3, Zenon
  <2> DEFINE b == Do("open") \o Ask("recv", 1 .. 5)
  <2>1. InTurn(b) /\ ~FirstReads(b) BY <1>0, <1>1, <1>2, <1>3, JoinInTurn, Zenon
  <2> DEFINE a == Ask(cmd, {1}) \o b
  <2> HIDE DEF b
  <2>2. InTurn(a) /\ ~FirstReads(a) BY <1>0, <1>2, <2>0, <2>1, JoinInTurn, Zenon
  <2>3. a = << <<cmd>>, <<"read", {1}>>, <<"open">>, <<"recv">>, <<"read", 1 .. 5>> >>
    <3>1. b = << <<"open">>, <<"recv">>, <<"read", 1 .. 5>> >> BY OneTwo, Zenon DEF b, Ask, Do
    <3> DEFINE w == <<cmd>>
               x == <<"read", {1}>>
               y == <<"open">>
               z == <<"recv">>
               l == <<"read", 1 .. 5>>
    <3>2. a = <<w, x>> \o <<y, z, l>> BY <3>1, Zenon DEF a, Ask
    <3> HIDE DEF w, x, y, z, l
    <3>3. <<w, x>> \o <<y, z, l>> = <<w, x, y, z, l>> BY TwoThree, SMT
    <3> QED BY <3>2, <3>3, Zenon DEF w, x, y, z, l
  <2> HIDE DEF a
  <2> QED BY <2>2, <2>3, Zenon
<1> QED BY <1>4, <1>5, <1>6, <1>7, <1>8, <1>9, <1>10, Zenon

-----------------------------------------------------------------------------
\* No call, no reply.
LEMMA FtpInitially == FtpInit => FtpInv
BY EmptyInTurn, Zenon DEF FtpInit, FtpInv

\* A call begins with nothing to read.
LEMMA Begins ==
  ASSUME FtpInv, FIdle, InTurn(fcall'), ~FirstReads(fcall'), UNCHANGED <<freply, early>>
  PROVE  FtpInv'
<1>1. ~FirstReads(fcall) BY Zenon DEF FIdle, FirstReads
<1> QED BY <1>1, Zenon DEF FtpInv

\* A step that the server does not answer.
LEMMA Unanswered ==
  ASSUME FtpInv, fcall # <<>>, fcall[1][1] \notin Spoken, fcall[1][1] # "read",
         fcall' \in {Tail(fcall), <<>>}, UNCHANGED <<freply, early>>
  PROVE  FtpInv'
<1>1. ~FirstReads(fcall) BY Zenon DEF FirstReads
<1>2. InTurn(fcall') /\ ~FirstReads(fcall') BY EmptyInTurn, TailInTurn, Zenon DEF FtpInv
<1> QED BY <1>1, <1>2, Zenon DEF FtpInv

\* A step that it answers, with one reply.
LEMMA Replying ==
  ASSUME FtpInv, fcall # <<>>, fcall[1][1] \in Spoken, FDone,
         NEW codes \in SUBSET Codes, Replies(codes), UNCHANGED early
  PROVE  FtpInv'
<1>1. ~FirstReads(fcall) BY Zenon DEF FirstReads, Spoken, Commands
<1>2. InTurn(fcall') /\ FirstReads(fcall') BY TailInTurn, Zenon DEF FtpInv, FDone
<1>3. early = 0 => freply' \in Replied
  <2> SUFFICES ASSUME early = 0 PROVE freply' \in Replied BY Zenon
  <2>1. freply = <<>> BY <1>1, Zenon DEF FtpInv
  <2>0. PICK c \in codes : \E f \in Forms(c) : freply' = freply \o f BY Zenon DEF Replies
  <2>2. PICK f \in Forms(c) : freply' = freply \o f BY <2>0, Zenon
  <2>3. <<>> \o f = f BY FormsAreLines, Zenon
  <2>4. freply' = f BY <2>1, <2>2, <2>3, Zenon
  <2> QED BY <2>2, <2>4, Zenon DEF Replied
<1> QED BY <1>2, <1>3, Zenon DEF FtpInv

\* getreply takes the one reply there is, and the call goes on or is given up.
LEMMA ReadStep == ASSUME FtpInv, Reads PROVE FtpInv'
<1>0. fcall # <<>> /\ fcall[1][1] = "read" BY DEF Reads, FAt
<1>1. FirstReads(fcall) /\ "read" \notin Spoken BY <1>0, Zenon DEF FirstReads, Spoken, Commands
<1>2. UNCHANGED early BY Zenon DEF Reads
<1>3. early = 0 => freply' = <<>>
  <2> SUFFICES ASSUME early = 0 PROVE freply' = <<>> BY Zenon
  <2>1. freply \in Replied BY <1>1, Zenon DEF FtpInv
  <2>2. ReplyEnds(freply) = Len(freply) BY <2>1, ReadWhole, Zenon
  <2>3. freply' = SubSeq(freply, Len(freply) + 1, Len(freply)) BY <2>2, Zenon DEF Reads, getreply
  <2> QED BY <2>3
<1>4. InTurn(fcall') /\ ~FirstReads(fcall')
  <2>1. CASE fcall' = <<>> BY <2>1, EmptyInTurn, Zenon
  <2>2. CASE fcall' = Tail(fcall) BY <1>0, <1>1, <2>2, TailInTurn, Zenon DEF FtpInv
  <2>3. CASE fcall' = SubSeq(fcall, 4, Len(fcall)) /\ Len(fcall) > 1 /\ fcall[2][1] = "PASS"
    BY <2>3, SkipInTurn, Zenon DEF FtpInv
  <2> QED BY <2>1, <2>2, <2>3, Zenon DEF Reads
<1> QED BY <1>2, <1>3, <1>4, Zenon DEF FtpInv

\* A transfer, with initconn first when the connection is passive.
LEMMA TransferBegins ==
  ASSUME FtpInv, NEW todo, InTurn(todo), ~FirstReads(todo), Transfers(todo)
  PROVE  FtpInv'
<1>1. FIdle /\ fcall' = (IF passive = 1 THEN initconn \o todo ELSE <<>>)
      /\ UNCHANGED <<freply, early>>
  BY Zenon DEF Transfers, Calls, FAsk
<1>2. InTurn(initconn \o todo) /\ ~FirstReads(initconn \o todo)
  BY CallsInTurn, JoinInTurn, Zenon
<1> QED BY <1>1, <1>2, EmptyInTurn, Begins, Zenon

\* recvrequest, with REST first when it begins inside the file.
LEMMA RecvInTurn ==
  ASSUME FtpInv, NEW cmd \in {"LIST", "RETR"}, NEW from, recvrequest(cmd, from)
  PROVE  FtpInv'
<1> DEFINE k == << <<cmd>>, <<"read", {1}>>, <<"open">>, <<"recv">>, <<"read", 1 .. 5>> >>
           r == << <<"REST">>, <<"read", {3}>> >>
           todo == (IF from = 0 THEN <<>> ELSE r) \o k
<1>1. InTurn(k) /\ ~FirstReads(k) BY CallsInTurn, Zenon
<1>2. InTurn(r) /\ ~FirstReads(r) BY CallsInTurn, Zenon
<1>3. Transfers(todo) BY Zenon DEF recvrequest
<1> HIDE DEF k, r
<1>4. InTurn(<<>> \o k) /\ ~FirstReads(<<>> \o k) BY <1>1, EmptyInTurn, JoinInTurn, Zenon
<1>5. InTurn(r \o k) /\ ~FirstReads(r \o k) BY <1>1, <1>2, JoinInTurn, Zenon
<1>6. InTurn(todo) /\ ~FirstReads(todo) BY <1>4, <1>5, Zenon
<1> HIDE DEF todo
<1> QED BY <1>3, <1>6, TransferBegins, Zenon

\* Every step of a call, and its beginning, keeps the invariant.
LEMMA FtpInductive == FtpInv /\ [FtpNext]_ftpvars => FtpInv'
<1> SUFFICES ASSUME FtpInv, [FtpNext]_ftpvars PROVE FtpInv' BY Zenon
<1>1. CASE UNCHANGED ftpvars BY <1>1, Zenon DEF ftpvars, FtpInv
<1>2. CASE ftpclient_connect
  <2>1. InTurn(fcall') /\ FirstReads(fcall') BY <1>2, CallsInTurn, Zenon DEF ftpclient_connect
  <2>2. early' = 0 => freply' \in Replied
    <3> SUFFICES ASSUME early' = 0 PROVE freply' \in Replied BY Zenon
    <3>1. PICK c \in Greetings : \E f \in Forms(c) :
            /\ freply' = f \o (IF c = 120 THEN <<Line(220, "space")>> ELSE <<>>)
            /\ early' = IF c = 120 THEN 1 ELSE 0
      BY <1>2, Zenon DEF ftpclient_connect
    <3>2. PICK f \in Forms(c) :
            /\ freply' = f \o (IF c = 120 THEN <<Line(220, "space")>> ELSE <<>>)
            /\ early' = IF c = 120 THEN 1 ELSE 0
      BY <3>1, Zenon
    <3>3. c # 120 BY <3>2
    <3>4. freply' = f \o <<>> BY <3>2, <3>3, Zenon
    <3>5. f \o <<>> = f BY FormsAreLines, Zenon
    <3>6. c \in Codes BY FtpAssumption, Zenon DEF Codes
    <3> QED BY <3>4, <3>5, <3>6, Zenon DEF Replied
  <2> QED BY <2>1, <2>2, Zenon DEF FtpInv
<1>3. CASE ConnectAgain \/ HangsUp \/ \E n \in {0, 1} : ftpclient_passive(n)
  BY <1>3, Zenon DEF ConnectAgain, HangsUp, ftpclient_passive, FtpInv
<1>4. CASE ftpclient_close
  <2>1. fcall = <<>> /\ UNCHANGED fcall /\ freply' = <<>>
    BY <1>4, Zenon DEF ftpclient_close, FAsk, FIdle
  <2> QED BY <2>1, EmptyInTurn, Zenon DEF FtpInv
<1>5. CASE ftpclient_login
  BY <1>5, CallsInTurn, Begins, Zenon DEF ftpclient_login, Calls, FAsk
<1>6. CASE OneCommand
  BY <1>6, CallsInTurn, Begins, Zenon DEF OneCommand, Calls, FAsk
<1>7. CASE getit(FALSE, "w") \/ getit(TRUE, "a") \/ ftpclient_dir
  BY <1>7, RecvInTurn, Zenon DEF getit, ftpclient_dir
<1>8. CASE ftpclient_put
  BY <1>8, CallsInTurn, TransferBegins, Zenon DEF ftpclient_put
<1>9. CASE command
  <2>1. fcall # <<>> /\ fcall[1][1] \in Spoken /\ FDone /\ UNCHANGED early
    BY <1>9 DEF command, Spoken
  <2>2. Replies({550}) \/ Replies(Agreed(fcall[1][1])) BY <1>9 DEF command
  <2> DEFINE refused == {550}
             agreed == Agreed(fcall[1][1])
  <2>3. refused \in SUBSET Codes /\ agreed \in SUBSET Codes BY DEF Codes, Agreed
  <2>4. Replies(refused) \/ Replies(agreed) BY <2>2, Zenon
  <2> HIDE DEF refused, agreed
  <2>5. CASE Replies(refused) BY <2>1, <2>3, <2>5, Replying, Zenon
  <2>6. CASE Replies(agreed) BY <2>1, <2>3, <2>6, Replying, Zenon
  <2> QED BY <2>4, <2>5, <2>6, Zenon
<1>10. CASE Reads BY <1>10, ReadStep, Zenon
<1>11. CASE Marks \/ DataSocket \/ DataConnect \/ OpensLocal
  <2>1. /\ fcall # <<>> /\ fcall[1][1] \in {"greeted", "loggedin", "socket", "connect", "open"}
        /\ fcall' \in {Tail(fcall), <<>>} /\ UNCHANGED <<freply, early>>
    BY <1>11 DEF Marks, DataSocket, DataConnect, OpensLocal, FAt, FDone
  <2>2. fcall[1][1] \notin Spoken /\ fcall[1][1] # "read" BY <2>1, Zenon DEF Spoken, Commands
  <2> QED BY <2>1, <2>2, Unanswered, Zenon
<1>12. CASE Receives \/ Sends
  <2>1. fcall # <<>> /\ fcall[1][1] \in Spoken /\ FDone /\ Replies({226, 426})
        /\ UNCHANGED early
    BY <1>12 DEF Receives, Sends, FAt, Spoken
  <2>2. {226, 426} \in SUBSET Codes BY DEF Codes
  <2> DEFINE codes == {226, 426}
  <2>3. codes \in SUBSET Codes /\ Replies(codes) BY <2>1, <2>2, Zenon
  <2> HIDE DEF codes
  <2> QED BY <2>1, <2>3, Replying, Zenon
<1> QED BY <1>1, <1>2, <1>3, <1>4, <1>5, <1>6, <1>7, <1>8, <1>9, <1>10, <1>11, <1>12, Zenon
    DEF FtpNext

\* Between calls of the FTP client no reply is left to read, unless the server
\* greeted with a reply that another one follows.
THEOREM RepliesKeepStep == FtpSpec => []RepliesInStep
<1>1. FtpInv => RepliesInStep BY Zenon DEF FtpInv, RepliesInStep, FIdle, FirstReads
<1> QED BY <1>1, FtpInitially, FtpInductive, PTL DEF FtpSpec
===============================================================================

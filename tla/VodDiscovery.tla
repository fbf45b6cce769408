---------------------------- MODULE VodDiscovery ----------------------------
(***************************************************************************)
(* How the channels of a streamio_v3 client find a server, register with   *)
(* it and lose it again: sendto_vod and unset_VODserver of internal.c, the *)
(* FINDSERVER, REGIST and NEED_REGIST packets of response.c and server.c,  *)
(* and vod_table.c.  A channel that has a server sends one kind of request *)
(* and waits for its answer; module StreamIOv3 has the real ones.          *)
(*                                                                         *)
(* The channels share the current server, its regist code and wait_channel,*)
(* the one channel that broadcasts while the others poll.  The response    *)
(* thread writes a regist code before it looks at the current server, so   *)
(* those are two steps.  The table of 16 servers has room for all of them, *)
(* so an index into it is the server itself.                               *)
(***************************************************************************)
EXTENDS Integers, FiniteSets

CONSTANTS
    Channels,   \* channels of the client, numbers from 0
    Servers,    \* addresses of the servers, numbers from 1
    Divider,    \* prefsvr_divider
    Prefer,     \* prefsvr_id
    MaxStarts,  \* processes started one after the other at an address
    MaxNet,     \* packets in flight at a time
    MaxLoss,    \* packets that are lost
    Retry       \* time-outs after which a server is given up: retry, or retry + 5

Nobody == -1
PUBLIC_CHANNEL == 4
Id(s) == s % Divider

VARIABLES
    my_id,      \* the process that runs at each address, from 1
    up,         \* the servers that run
    net,        \* packets in flight; a retransmission of one of them is no new one
    lost,       \* packets lost so far
    current,    \* pd->current_VODserver
    curr_svr_id,
    regist,     \* the regist code held for each server, 0 if none
    rpc,        \* the server whose REGIST answer is being handled
    cut, wait_channel,
    pc,         \* each channel: idle, loop, find, wait, send, await
    sel,        \* the server sendto_vod read before it sends
    got,        \* the channels whose answer has come
    first,      \* the channels whose first sendto_vod is not over
    count       \* time-outs of each channel since it last gave up a server

svrvars == <<my_id, up>>
regvars == <<current, curr_svr_id, regist, rpc>>
chvars == <<cut, wait_channel, pc, sel, got, first, count>>
netvars == <<net, lost>>
vars == <<svrvars, netvars, regvars, chvars>>

Init ==
    /\ my_id = [s \in Servers |-> 1] /\ up \in (SUBSET Servers) \ {{}}
    /\ net = {} /\ lost = 0
    /\ current = Nobody /\ curr_svr_id = -1
    /\ regist = [s \in Servers |-> 0] /\ rpc = Nobody
    /\ cut = 0 /\ wait_channel = -1
    /\ pc = [c \in Channels |-> "idle"] /\ sel = [c \in Channels |-> Nobody]
    /\ got = {} /\ first = {} /\ count = [c \in Channels |-> 0]

\* UDP delivers packets in any order, and loses some.
Send(rest, msgs) ==
    \/ Cardinality(rest \cup msgs) <= MaxNet /\ net' = rest \cup msgs /\ UNCHANGED lost
    \/ /\ lost < MaxLoss /\ lost' = lost + 1
       /\ \E m \in msgs :
            /\ Cardinality(rest \cup (msgs \ {m})) <= MaxNet
            /\ net' = rest \cup (msgs \ {m})

Consume(m) == net' = net \ {m} /\ UNCHANGED lost

Goto(c, l) == pc' = [pc EXCEPT ![c] = l]

-----------------------------------------------------------------------------
(* A channel: send_and_wait around sendto_vod. *)

\* openfile clears cut.
Call(c) ==
    /\ pc[c] = "idle" /\ Goto(c, "loop") /\ cut' = 0 /\ first' = first \cup {c}
    /\ UNCHANGED <<svrvars, netvars, regvars, wait_channel, sel, got, count>>

\* The next request starts with no answer and no time-outs.
Return(c) == Goto(c, "idle") /\ got' = got \ {c} /\ count' = [count EXCEPT ![c] = 0]

Cut(c) == cut = 1 /\ c # PUBLIC_CHANNEL

Leave(c) == wait_channel' = IF wait_channel = c THEN -1 ELSE wait_channel

\* One round of the loop of sendto_vod; another channel's turn is a usleep.  The
\* first sendto_vod of a request is not asked whether it was cut.
Loop(c) ==
    /\ pc[c] = "loop"
    /\ \/ /\ current # Nobody
          /\ sel' = [sel EXCEPT ![c] = current]
          /\ Goto(c, "send") /\ UNCHANGED <<wait_channel, first, got, count>>
       \/ /\ current = Nobody /\ Cut(c)
          /\ Leave(c)
          /\ IF c \in first THEN Goto(c, "await") /\ UNCHANGED <<got, count>> ELSE Return(c)
          /\ first' = first \ {c} /\ UNCHANGED sel
       \/ /\ current = Nobody /\ ~Cut(c) /\ wait_channel \in {-1, c}
          /\ wait_channel' = c
          /\ Goto(c, "find") /\ UNCHANGED <<sel, first, got, count>>
    /\ UNCHANGED <<svrvars, netvars, regvars, cut>>

find_fileserver(c) ==
    /\ pc[c] = "find"
    /\ Send(net, {[cmd |-> "FIND", svr |-> s] : s \in up})
    /\ Goto(c, "wait")
    /\ UNCHANGED <<svrvars, regvars, cut, wait_channel, sel, got, first, count>>

\* pthread_cond_timedwait returns, signalled or after a second.
Wake(c) ==
    /\ pc[c] = "wait" /\ Goto(c, "loop")
    /\ UNCHANGED <<svrvars, netvars, regvars, cut, wait_channel, sel, got, first, count>>

\* The code is read now, although the server was chosen before.
sendto_vod(c) ==
    /\ pc[c] = "send"
    /\ Leave(c) /\ first' = first \ {c}
    /\ Send(net, {[cmd |-> "REQUEST", svr |-> sel[c], ch |-> c, sn |-> regist[sel[c]]]})
    /\ sel' = [sel EXCEPT ![c] = Nobody]
    /\ Goto(c, "await")
    /\ UNCHANGED <<svrvars, regvars, cut, got, count>>

unset_VODserver ==
    IF current = Nobody THEN UNCHANGED <<current, curr_svr_id, regist>>
    ELSE /\ regist' = [regist EXCEPT ![current] = 0]
         /\ current' = Nobody /\ curr_svr_id' = -1

\* The answer has come, or a time-out: send again, after enough of them to
\* another server.
send_and_wait(c) ==
    /\ pc[c] = "await"
    /\ \/ /\ c \in got /\ Return(c)
          /\ UNCHANGED <<current, curr_svr_id, regist>>
       \/ /\ c \notin got /\ Goto(c, "loop") /\ UNCHANGED got
          /\ count' = [count EXCEPT ![c] = (@ + 1) % Retry]
          /\ IF count[c] + 1 = Retry THEN unset_VODserver
                                     ELSE UNCHANGED <<current, curr_svr_id, regist>>
    /\ UNCHANGED <<svrvars, netvars, rpc, cut, wait_channel, sel, first>>

stiov3_abort ==
    /\ cut = 0 /\ cut' = 1
    /\ UNCHANGED <<svrvars, netvars, regvars, wait_channel, pc, sel, got, first, count>>

-----------------------------------------------------------------------------
(* The response thread: streamio_v3_response. *)

\* "regist for prefer server only !!": the test of both handlers.
Better(s) == curr_svr_id # Prefer /\ curr_svr_id = Id(s)

\* Mutant: a server whose code is known is not registered again.
HandleFoundKnown(m) ==
    /\ m.cmd = "FOUND"
    /\ IF (current = Nobody \/ Better(m.svr)) /\ regist[m.svr] = 0
       THEN Send(net \ {m}, {[cmd |-> "REGIST", svr |-> m.svr]})
       ELSE Consume(m)
    /\ UNCHANGED <<regvars, got>>

HandleFound(m) ==
    /\ m.cmd = "FOUND"
    /\ IF current = Nobody \/ Better(m.svr)
       THEN Send(net \ {m}, {[cmd |-> "REGIST", svr |-> m.svr]})
       ELSE Consume(m)
    /\ UNCHANGED <<regvars, got>>

HandleNeedRegist(m) ==
    /\ m.cmd = "NEED_REGIST"
    /\ Consume(m)
    /\ IF current = m.svr
       THEN regist' = [regist EXCEPT ![current] = 0] /\ current' = Nobody
       ELSE UNCHANGED <<regist, current>>
    /\ UNCHANGED <<curr_svr_id, rpc, got>>

HandleCode(m) ==
    /\ m.cmd = "CODE"
    /\ Consume(m)
    /\ regist' = [regist EXCEPT ![m.svr] = m.sn] /\ rpc' = m.svr
    /\ UNCHANGED <<current, curr_svr_id, got>>

\* The answer is noted for its channel, wherever send_and_wait is.
HandleAnswer(m) ==
    /\ m.cmd = "ANSWER"
    /\ Consume(m)
    /\ got' = IF pc[m.ch] = "idle" THEN got ELSE got \cup {m.ch}
    /\ UNCHANGED regvars

Receive(m) ==
    /\ rpc = Nobody
    /\ HandleFound(m) \/ HandleNeedRegist(m) \/ HandleCode(m) \/ HandleAnswer(m)
    /\ UNCHANGED <<svrvars, cut, wait_channel, pc, sel, first, count>>

RegistTake ==
    /\ rpc # Nobody
    /\ IF current = Nobody \/ Better(rpc)
       THEN current' = rpc /\ curr_svr_id' = Id(rpc)
       ELSE UNCHANGED <<current, curr_svr_id>>
    /\ rpc' = Nobody
    /\ UNCHANGED <<svrvars, netvars, regist, chvars>>

-----------------------------------------------------------------------------
(* The servers: streamio_v3_main. *)

Answer(m) ==
    CASE m.cmd = "FIND"   -> [cmd |-> "FOUND", svr |-> m.svr]
      [] m.cmd = "REGIST" -> [cmd |-> "CODE", svr |-> m.svr, sn |-> my_id[m.svr]]
      [] m.cmd = "REQUEST" /\ m.sn = my_id[m.svr] -> [cmd |-> "ANSWER", ch |-> m.ch]
      [] m.cmd = "REQUEST" /\ m.sn # my_id[m.svr] -> [cmd |-> "NEED_REGIST", svr |-> m.svr]

streamio_v3_main(m) ==
    /\ m.cmd \in {"FIND", "REGIST", "REQUEST"}
    /\ IF m.svr \in up THEN Send(net \ {m}, {Answer(m)}) ELSE Consume(m)
    /\ UNCHANGED <<svrvars, regvars, chvars>>

\* A server dies; one of them is always left.
ServerDies(s) ==
    /\ s \in up /\ up # {s} /\ up' = up \ {s}
    /\ UNCHANGED <<my_id, netvars, regvars, chvars>>

ServerStarts(s) ==
    /\ s \notin up /\ my_id[s] < MaxStarts
    /\ my_id' = [my_id EXCEPT ![s] = @ + 1] /\ up' = up \cup {s}
    /\ UNCHANGED <<netvars, regvars, chvars>>

\* A restart so quick that nobody saw the server gone.
ServerRestarts(s) ==
    /\ s \in up /\ my_id[s] < MaxStarts
    /\ my_id' = [my_id EXCEPT ![s] = @ + 1]
    /\ UNCHANGED <<up, netvars, regvars, chvars>>

-----------------------------------------------------------------------------
Channel(c) == Call(c) \/ Loop(c) \/ find_fileserver(c) \/ Wake(c) \/ sendto_vod(c) \/ send_and_wait(c)

Next ==
    \/ \E c \in Channels : Channel(c)
    \/ stiov3_abort
    \/ \E m \in net : Receive(m) \/ streamio_v3_main(m)
    \/ RegistTake
    \/ \E s \in Servers : ServerDies(s) \/ ServerStarts(s) \/ ServerRestarts(s)

Messages ==
    [cmd : {"FIND", "FOUND", "REGIST", "NEED_REGIST"}, svr : Servers]
    \cup [cmd : {"CODE"}, svr : Servers, sn : 1 .. MaxStarts]
    \cup [cmd : {"REQUEST"}, svr : Servers, ch : Channels, sn : 0 .. MaxStarts]
    \cup [cmd : {"ANSWER"}, ch : Channels]

\* A packet of one kind reaches its end.
Arrives(cmd) == \E m \in net : m.cmd = cmd /\ (Receive(m) \/ streamio_v3_main(m))

(* Threads go on, time-outs end and packets that are not lost arrive. *)
Fairness ==
    /\ WF_vars(RegistTake)
    /\ \A c \in Channels :
         WF_vars(Loop(c) \/ find_fileserver(c) \/ Wake(c) \/ sendto_vod(c) \/ send_and_wait(c))
    /\ \A cmd \in {"FIND", "FOUND", "REGIST", "CODE", "REQUEST", "NEED_REGIST", "ANSWER"} : WF_vars(Arrives(cmd))

Spec == Init /\ [][Next]_vars /\ Fairness

-----------------------------------------------------------------------------
\* Every variable keeps its type.
TypeOK ==
    /\ my_id \in [Servers -> 1 .. MaxStarts] /\ up \subseteq Servers
    /\ net \subseteq Messages /\ lost \in 0 .. MaxLoss
    /\ {current, rpc} \subseteq Servers \cup {Nobody}
    /\ curr_svr_id \in -1 .. Divider - 1
    /\ regist \in [Servers -> 0 .. MaxStarts]
    /\ cut \in {0, 1} /\ wait_channel \in Channels \cup {-1}
    /\ pc \in [Channels -> {"idle", "loop", "find", "wait", "send", "await"}]
    /\ sel \in [Channels -> Servers \cup {Nobody}] /\ {got, first} \subseteq SUBSET Channels
    /\ count \in [Channels -> 0 .. Retry - 1]

\* A channel that needs a server gets one, or is cut: the channels take turns at
\* broadcasting, and a code kept from before never keeps a server from being used.
Found == \A c \in Channels : pc[c] = "loop" ~> (current # Nobody \/ pc[c] = "idle")

-----------------------------------------------------------------------------
(* Two situations for model checking: two channels share a client of one   *)
(* server that is restarted ("channels"), and one channel meets two        *)
(* servers that die and come back ("servers").                             *)

VARIABLE scenario

Within ==
    \/ scenario = "channels" /\ up = {1} /\ Cardinality(net) <= 1 /\ lost = 0 /\ cut + my_id[1] <= 2
    \/ scenario = "servers" /\ pc[4] = "idle" /\ cut = 0 /\ my_id[1] = 1 /\ lost + my_id[2] <= 2

MCInit == Init /\ up = {1} /\ scenario \in {"channels", "servers"} /\ Within

MCSpec ==
    /\ MCInit
    /\ [][Next /\ UNCHANGED scenario /\ Within']_<<vars, scenario>>
    /\ Fairness
=============================================================================

------------------------------- MODULE HktvCmd -------------------------------
(***************************************************************************)
(* The command loop of the set-top box (holktv/stb/holktv_stb_cmd.c) over  *)
(* a socket of udplib.c with one address slot.  A datagram is a sequence   *)
(* of numbers below Modulus (the checksum's 0x100): lead, checksum,        *)
(* command, echo, length of the song, song.  The functions that are        *)
(* registered are not part of the library: what they return, whether they  *)
(* register the sender and what they put in the reply is chosen freely.    *)
(***************************************************************************)
EXTENDS Integers, Sequences, FiniteSets, SequencesExt

CONSTANTS Hosts, Afar,      \* who sends commands, and a host whose datagrams suffer on their way
          Cmds,             \* commands that a function may be registered for
          Orders,           \* what hosts send: [cmd, echo, song]
          Fns, Text,        \* functions for commands, and what each puts in its reply
          HookFns,          \* functions for the three other occasions
          MaxCmdList,       \* MAXIMUM_HKTV_STB_CMD
          Modulus, MaxSong,
          Junk,             \* what an uninitialized buffer may hold
          Strays,           \* what may stand before cmdlist in memory
          MaxRegists, MaxArrivals

VARIABLES cmdlist, pre_function, post_function, idle_function,
          cpath,            \* where hktvcmd_main is
          datagram,         \* buffer, kept from one datagram to the next
          rpdu,             \* reply_buf
          sender, slot,     \* rmaddr and the one entry of addrlist
          msec,
          stray,            \* cmdlist[-1].cmd
          nregists, narrivals,
          promised,         \* history: the function whose registration was accepted
          arrived, did      \* history: the last arrival and what was done about it

hcvars == <<cmdlist, pre_function, post_function, idle_function, cpath, datagram, rpdu,
            sender, slot, msec, stray, nregists, narrivals, promised, arrived, did>>
registrations == <<cmdlist, pre_function, post_function, idle_function, nregists, promised>>

Lead == 1                   \* '^'
Yes == 1                    \* 'Y'
Dollar == 2                 \* '$'
NoFn == 0
Nobody == "nobody"
BufLen == 5 + MaxSong + 1

Sum(s) == FoldLeft(LAMBDA a, b : a + b, 0, s)

\* The datagram of an order.
Wire(o) ==
    <<Lead, (o.cmd + o.echo + Len(o.song) + Sum(o.song)) % Modulus, o.cmd, o.echo, Len(o.song)>> \o o.song

Nothing == [ran |-> <<>>, song |-> <<>>, answer |-> [to |-> Nobody]]

----------------------------------------------------------------------------
\* A command has one function, the first; the table has an end.
RegistCmd(c, f) ==
    cmdlist' = IF (\E i \in DOMAIN cmdlist : cmdlist[i].cmd = c) \/ Len(cmdlist) >= MaxCmdList
               THEN cmdlist
               ELSE Append(cmdlist, [cmd |-> c, function |-> f])

hktvcmd_regist ==
    /\ cpath = "setup" /\ nregists < MaxRegists
    /\ nregists' = nregists + 1
    /\ \/ \E c \in Cmds, f \in Fns :
            /\ RegistCmd(c, f)
            /\ promised' = IF promised[c] = NoFn /\ Cardinality({d \in Cmds : promised[d] # NoFn}) < MaxCmdList
                           THEN [promised EXCEPT ![c] = f] ELSE promised
            /\ UNCHANGED <<pre_function, post_function, idle_function>>
       \/ pre_function' \in HookFns /\ UNCHANGED <<cmdlist, post_function, idle_function, promised>>
       \/ post_function' \in HookFns /\ UNCHANGED <<cmdlist, pre_function, idle_function, promised>>
       \/ idle_function' \in HookFns /\ UNCHANGED <<cmdlist, pre_function, post_function, promised>>
    /\ UNCHANGED <<cpath, datagram, rpdu, sender, slot, msec, stray, narrivals, arrived, did>>

\* new_udplib, udplib_open and the flags; a port that is taken ends the loop at once.
udplib_open ==
    /\ cpath = "setup"
    /\ cpath' \in {"loop", "over"}
    /\ UNCHANGED <<registrations, datagram, rpdu, sender, slot, msec, stray, narrivals, arrived, did>>

----------------------------------------------------------------------------
\* Mutant: the song is not part of the sum.
SumWithoutSong(b) == (b[3] + b[4] + b[5]) % Modulus

\* The song is as long as the datagram says, whatever has arrived of it.
SumOf(b) == (b[3] + b[4] + b[5] + Sum(SubSeq(b, 6, Min({5 + b[5], BufLen})))) % Modulus

MasterCMD_check(b) == b[1] = Lead /\ b[2] = SumOf(b)

hktvcmd_mkcksum(r) == (r.ret + Len(r.song) + Sum(r.song)) % Modulus

\* udplib_regist_rmaddr and udplib_unregist, as a function of the box may call them.
Registered(how) ==
    CASE how = "regist" -> IF slot = Nobody THEN sender' ELSE slot
      [] how = "unregist" -> Nobody
      [] how = "leave" -> slot

\* udplib_receive: a datagram covers the beginning of the buffer.
udplib_receive(d) ==
    [i \in 1 .. BufLen |-> IF i <= Len(d) THEN d[i] ELSE datagram[i]]

\* The function of command c, searched for from the entry before the first one.
Found(c) ==
    LET at == {i \in DOMAIN cmdlist : cmdlist[i].cmd = c}
    IN  IF at = {} THEN NoFn ELSE cmdlist[CHOOSE i \in at : \A j \in at : i <= j].function

AfterReturn(rc) ==
    /\ cpath' = CASE rc = "terminate" -> "over" [] rc \in {"reboot", "shutdown"} -> rc [] OTHER -> "loop"
    /\ msec' = CASE rc = "blocking" -> 1000 [] rc = "non_blocking" -> 50 [] OTHER -> msec

Returns == {"normal", "blocking", "non_blocking", "terminate", "reboot", "shutdown"}

\* A command that has passed the check, in buffer b.
Command(b) ==
    LET fn == Found(b[3])
        song == SubSeq(b, 6, Min({5 + b[5], BufLen}))
        fresh == [lead |-> Dollar, ret |-> b[3], song |-> <<>>]
    IN  /\ datagram' = IF b[5] > 0 /\ 6 + b[5] <= BufLen THEN [b EXCEPT ![6 + b[5]] = 0] ELSE b
        /\ IF b[3] = stray
           THEN /\ cpath' = "crashed"       \* cmdlist[-1].function
                /\ rpdu' = fresh
                /\ did' = Nothing
                /\ UNCHANGED <<slot, msec>>
           ELSE /\ \E rc \in IF fn = NoFn THEN {"nohandler"} ELSE Returns : AfterReturn(rc)
                /\ \E how \in IF fn = NoFn THEN {"leave"} ELSE {"regist", "unregist", "leave"} :
                        slot' = Registered(how)
                /\ rpdu' = [fresh EXCEPT !.song = IF fn = NoFn THEN <<>> ELSE Text[fn]]
                /\ did' = [ran |-> SelectSeq(<<pre_function, fn>> \o
                                             (IF b[4] = Yes THEN <<post_function>> ELSE <<>>),
                                             LAMBDA f : f # NoFn),
                           song |-> song,
                           answer |-> IF b[4] = Yes
                                      THEN [to |-> sender', pdu |-> rpdu', cksum |-> hktvcmd_mkcksum(rpdu')]
                                      ELSE Nothing.answer]

\* One datagram through the loop: receive, check, command.
Receive(kind, d, from) ==
    /\ cpath = "loop" /\ narrivals < MaxArrivals
    /\ narrivals' = narrivals + 1
    /\ sender' = from
    /\ arrived' = IF kind = "whole" THEN [kind |-> kind, data |-> d, from |-> from] ELSE [kind |-> kind]
    /\ \E b \in {udplib_receive(d)} :
         IF MasterCMD_check(b)
         THEN Command(b)
         ELSE datagram' = b /\ did' = Nothing /\ UNCHANGED <<cpath, rpdu, slot, msec>>
    /\ UNCHANGED <<registrations, stray>>

Sent == {Wire(o) : o \in Orders}

Whole(d) == \E from \in Hosts : Receive("whole", d, from)

\* One number but the length has changed on the way.
Damaged(d) ==
    \E i \in DOMAIN d \ {5} : Receive("damaged", [d EXCEPT ![i] = (@ + 1) % Modulus], Afar)

\* The end is missing: the loop does not look at how much has arrived.
Cut(d) == \E n \in 1 .. Len(d) - 1 : Receive("cut", SubSeq(d, 1, n), Afar)

\* Nothing arrives for msec, or a datagram of length 0.
Idle ==
    /\ cpath = "loop"
    /\ sender' \in {sender, Afar}
    /\ arrived' = [kind |-> "idle"]
    /\ \/ /\ idle_function # NoFn           \* it has something to say
          /\ did' = [ran |-> <<idle_function>>, song |-> <<>>,
                     answer |-> IF slot = Nobody THEN Nothing.answer
                                ELSE [to |-> slot, pdu |-> rpdu, cksum |-> hktvcmd_mkcksum(rpdu)]]
          /\ msec' = 1000
       \/ did' = Nothing /\ UNCHANGED msec
    /\ UNCHANGED <<registrations, cpath, datagram, rpdu, slot, stray, narrivals>>

\* udplib_recvms fails.
RecvFails ==
    /\ cpath = "loop"
    /\ arrived' = [kind |-> "idle"] /\ did' = Nothing
    /\ UNCHANGED <<registrations, cpath, datagram, rpdu, sender, slot, msec, stray, narrivals>>

HcInit ==
    /\ cmdlist = <<>>
    /\ pre_function = NoFn /\ post_function = NoFn /\ idle_function = NoFn
    /\ cpath = "setup"
    /\ \E v \in Junk : datagram = [i \in 1 .. BufLen |-> v]
    /\ rpdu = [lead |-> 0, ret |-> 0, song |-> <<>>]
    /\ sender = Nobody /\ slot = Nobody
    /\ msec = 50
    /\ stray \in Strays
    /\ nregists = 0 /\ narrivals = 0
    /\ promised = [c \in Cmds |-> NoFn]
    /\ arrived = [kind |-> "idle"] /\ did = Nothing

HcNext ==
    \/ hktvcmd_regist
    \/ udplib_open
    \/ \E d \in Sent : Whole(d) \/ Damaged(d) \/ Cut(d)
    \/ Idle \/ RecvFails

----------------------------------------------------------------------------
\* What a whole command d of host h should lead to: the function that was accepted for it
\* runs between the two others, once, on d's song, and h is answered if it asks.
Promise(d, h) ==
    LET fn == IF d[3] \in Cmds THEN promised[d[3]] ELSE NoFn
        fns == <<pre_function, fn>> \o (IF d[4] = Yes THEN <<post_function>> ELSE <<>>)
    IN  /\ did.ran = SelectSeq(fns, LAMBDA f : f # NoFn)
        /\ did.song = SubSeq(d, 6, Len(d))
        /\ did.answer.to = IF d[4] = Yes THEN h ELSE Nobody
        /\ d[4] = Yes => did.answer.pdu.ret = d[3] /\ did.answer.pdu.lead = Dollar

\* A command that arrives whole is carried out by the function first registered for it, and
\* answered to its sender when it asks; one that was damaged does nothing; and what the box says
\* of itself has the form of an answer and goes to nobody who has not been registered.
\* (A datagram without its end is completed by what the buffer held: nothing is claimed of it.)
Obeyed ==
    /\ arrived.kind = "whole" /\ cpath # "crashed" => Promise(arrived.data, arrived.from)
    /\ arrived.kind = "damaged" => did = Nothing
    /\ arrived.kind = "idle" /\ did.answer.to # Nobody =>
            did.answer.to = slot /\ did.answer.pdu.lead = Dollar
===============================================================================

----------------------------- MODULE MCServices -----------------------------
(***************************************************************************)
(* Servers and clients that have nothing in common, one of them under test *)
(* in each behaviour: "stations", the table of the streaming server of     *)
(* version 3, with blocks of 3 bytes in 2 pieces of 2 and two blocks to a  *)
(* disk read, where the last disk read of file a is 1 byte, that of b all  *)
(* 5 of it, and none cannot be opened; "first", a server of version 1 with *)
(* one entry, a file of three blocks and two threads; "ftp", the FTP       *)
(* client (a file of two bytes); "send", the file transfer of udpcmdrcv    *)
(* between two nodes (one has its command set up); "xchg", mini_filexchg   *)
(* (ints of two bytes, names of one to three letters); "cmdline", a        *)
(* command line server with two clients; "mail", the mail agent with one   *)
(* client and two files of rules.                                          *)
(***************************************************************************)
EXTENDS StbTable, FtpClient, SendFile

VARIABLES
    under,
    program, serving, my_id, stbent, netqv1, taken, stopped, closer, sns, owed, wrongly,
    op, rname, lfile, store, upload, badsign, cl, sv, c2s, s2c, trouble, grown,
    tree, nadds, serverpc, peer, terminated, sockfile, bp, retval, clientpc, backlog, up, down,
    hungup, lines, asked, told, greeted,
    svlist, mine, reloads, popc, fromclient, fromserver, toclient, toserver, popbuf, user,
    popserver, conf, myconf, script, ragged

MCSizeOf == [f \in Files |-> CASE f = "a" -> 7 [] f = "b" -> 5 [] f = "none" -> -1]
MCRemote == <<"a", "b">>

V1 == INSTANCE StreamIOv1 WITH
    Addrs <- {"a", "b"}, NEnt <- 1, Titles <- {"f"}, SizeIn <- [f |-> 8], Counts <- {1, 2},
    StbIds <- {1}, B <- 3, P <- 2, PerDisk <- 2, V1Threads <- {1, 2}, MaxLives <- 2

FX == INSTANCE FileExchange WITH
    Names <- {<<"n">>, <<"n", "m">>, <<"n", "m", "o">>},
    Contents <- {<<>>, <<"a">>, <<"a", "b">>, <<"a", "b", "c">>},
    IntLen <- 2, BufLen <- 2, MaxTrouble <- 2

Cmd(path, rmt, func, type) == [path |-> path, rmt |-> rmt, func |-> func, type |-> type]

CL == INSTANCE CmdLine WITH
    Clients <- {1, 2}, MaxAdds <- 3, MaxLines <- 1, Login <- <<<<"show", "who">>, 1>>,
    Adds <- {Cmd(<<"show">>, TRUE, "show", 1), Cmd(<<"show", "who">>, TRUE, "who", 1), Cmd(<<"quit">>, TRUE, "exit", 0), Cmd(<<"stop">>, TRUE, "terminate", 0)},
    Typed <- {<<"show", "who">>, <<"show", "x">>, <<"quit">>, <<"stop">>}

Rule(kind, users, host) == [kind |-> kind, users |-> users, server |-> host]

PA == INSTANCE PopAgent WITH
    BufTokens <- 5, MaxUser <- 2, MaxReloads <- 1, Greeting <- <<"hi", "nl">>, Said <- <<"hi", "nl", "ok", "nl", "x">>,
    Scripts <- {<<"user", "a", "at", "nl", "pass", "nl">>, <<"capa", "nl", "user", "b", "a", "b", "nl", "y">>, <<"quit", "nl">>},
    ConfigFiles <- {<<Rule("rule", {<<"a">>}, "s"), Rule("note", {}, "s"), Rule("rule", {<<"a">>, <<"b", "a">>}, "t")>>,
                    <<Rule("rule", {<<"b">>}, "s"), Rule("rule", {<<"b", "a">>}, "u")>>}

v1Vars == <<program, serving, my_id, stbent, netqv1, taken, stopped, closer, sns, owed,
            wrongly>>
xVars == <<op, rname, lfile, store, upload, badsign, cl, sv, c2s, s2c, trouble, grown>>
clVars == <<tree, nadds, serverpc, peer, terminated, sockfile, bp, retval, clientpc,
            backlog, up, down, hungup, lines, asked, told, greeted>>
paVars == <<svlist, mine, reloads, popc, fromclient, fromserver, toclient, toserver, popbuf,
            user, popserver, conf, myconf, script, ragged>>

\* The variables of a part that is not under test have no meaning and are 0;
\* those of the modules that are extended stay in one initial state.
NoV1Vars == program = 0 /\ serving = 0 /\ my_id = 0 /\ stbent = 0 /\ netqv1 = 0 /\ taken = 0
    /\ stopped = 0 /\ closer = 0 /\ sns = 0 /\ owed = 0 /\ wrongly = 0
NoXVars == op = 0 /\ rname = 0 /\ lfile = 0 /\ store = 0 /\ upload = 0 /\ badsign = 0 /\ cl = 0
    /\ sv = 0 /\ c2s = 0 /\ s2c = 0 /\ trouble = 0 /\ grown = 0
NoClVars == tree = 0 /\ nadds = 0 /\ serverpc = 0 /\ peer = 0 /\ terminated = 0 /\ sockfile = 0
    /\ bp = 0 /\ retval = 0 /\ clientpc = 0 /\ backlog = 0 /\ up = 0 /\ down = 0 /\ hungup = 0
    /\ lines = 0 /\ asked = 0 /\ told = 0 /\ greeted = 0
NoPaVars == svlist = 0 /\ mine = 0 /\ reloads = 0 /\ popc = 0 /\ fromclient = 0
    /\ fromserver = 0 /\ toclient = 0 /\ toserver = 0 /\ popbuf = 0 /\ user = 0 /\ popserver = 0
    /\ conf = 0 /\ myconf = 0 /\ script = 0 /\ ragged = 0

MCInit ==
    /\ under \in {"stations", "first", "ftp", "send", "xchg", "cmdline", "mail"}
    /\ Init
    /\ IF under = "first" THEN V1!V1Init ELSE NoV1Vars
    /\ FtpInit /\ (under # "ftp" => flocal = NoFile)
    /\ SfInit /\ hdr["a"] = <<Ftp>> /\ sid["a"] = 5 /\ (under # "send" => hdr["b"] = <<Ftp>> /\ sid["b"] = 5)
    /\ IF under = "xchg" THEN FX!FxInit ELSE NoXVars
    /\ IF under = "cmdline" THEN CL!ClInit ELSE NoClVars
    /\ IF under = "mail" THEN PA!PaInit ELSE NoPaVars

\* The bounds let the parts but the first end, which is no deadlock.
MCNext ==
    \/ /\ under = "stations" /\ Next
       /\ UNCHANGED <<v1Vars, ftpvars, sfvars, xVars, clVars, paVars>>
    \/ /\ under = "first" /\ V1!V1Next
       /\ UNCHANGED <<vars, ftpvars, sfvars, xVars, clVars, paVars>>
    \/ /\ under = "ftp" /\ FtpNext
       /\ UNCHANGED <<vars, v1Vars, sfvars, xVars, clVars, paVars>>
    \/ /\ under = "send" /\ SfNext
       /\ UNCHANGED <<vars, v1Vars, ftpvars, xVars, clVars, paVars>>
    \/ /\ under = "xchg" /\ FX!FxNext
       /\ UNCHANGED <<vars, v1Vars, ftpvars, sfvars, clVars, paVars>>
    \/ /\ under = "cmdline" /\ CL!ClNext
       /\ UNCHANGED <<vars, v1Vars, ftpvars, sfvars, xVars, paVars>>
    \/ /\ under = "mail" /\ PA!PaNext
       /\ UNCHANGED <<vars, v1Vars, ftpvars, sfvars, xVars, clVars>>
    \/ /\ under # "stations"
       /\ UNCHANGED <<vars, v1Vars, ftpvars, sfvars, xVars, clVars, paVars>>

MCSpec == MCInit /\ [][MCNext /\ UNCHANGED under]_<<under, vars, v1Vars, ftpvars, sfvars, xVars, clVars, paVars>>

----------------------------------------------------------------------------
\* What an exchange of files reports as copied is a copy.
CopiesExact == under = "xchg" => FX!CopiesExact

\* The server opens the file that the client names: "say file name length"
\* (mini_filexchg.c, line 620).
NameArrives == under = "xchg" => FX!NameArrives

\* What a station of the first version asks for is sent.
FetchKept == under = "first" => V1!FetchKept

\* A client of the command line is shown what its own line has printed.
AnsweredForItself == under = "cmdline" => CL!AnsweredForItself

\* The mail agent relays a login and all that follows it, in order.
Relayed == under = "mail" => PA!Relayed

=============================================================================

----------------------------- MODULE FtpClient -----------------------------
(***************************************************************************)
(* The FTP client (ftpclient/ftpclient.c) and a server that behaves as the *)
(* protocol lets it.  The client sends a command and reads one reply; a    *)
(* transfer asks for a passive port (PASV), connects to it, asks for the   *)
(* file, moves it and reads the closing reply.  A reply is some lines; a   *)
(* line is what getreply looks at of it: its code, or 0, and the fourth    *)
(* character.                                                              *)
(***************************************************************************)
EXTENDS Integers, Sequences

CONSTANTS Remote,       \* the file on the server, a sequence
          MaxFtpCalls,  \* bound
          Greetings     \* the codes servers may greet with

ASSUME FtpAssumption == Greetings \subseteq Nat \ {0}

VARIABLES sockfd, connected, login_ok, passive, datafd, restart_point,
          fcall,        \* the call under way: what it has yet to do
          fmode,        \* how it opens the local file: "w", "a" or "none"
          freply,       \* lines the client has not read
          fcode,        \* the first digit of the last reply
          flocal,       \* the local file
          fpasv,        \* the server has a passive port open
          foffset,      \* the start it was given with REST
          fdata,        \* the bytes on the data connection
          hung,         \* the server has closed the connection
          ftpcalls,
          early,        \* history: a greeting of another reply to come
          leaked        \* data sockets nobody will close

ftpvars == <<sockfd, connected, login_ok, passive, datafd, restart_point, fcall, fmode, freply,
             fcode, flocal, fpasv, foffset, fdata, hung, ftpcalls, early, leaked>>

----------------------------------------------------------------------------
(* getreply.                                                               *)

Line(c, s) == [code |-> c, sep |-> s]
Forms(c) == { <<Line(c, "space")>>,
              <<Line(c, "dash"), Line(0, "other"), Line(c, "space")>>,
              <<Line(c, "dash"), Line(c, "dash"), Line(0, "dash"), Line(c, "space")>> }
Class(c) == c \div 100

\* The code of line i: a dash after an earlier one makes it none.
Continued(q, i) == \E j \in 1 .. i : q[j].sep = "dash"
LineCode(q, i) == IF q[i].sep = "dash" /\ Continued(q, i - 1) THEN 0 ELSE q[i].code

\* originalcode after the first i lines.
OriginalCode(q, i) ==
    LET set == {j \in 1 .. i : Continued(q, j) /\ LineCode(q, j) # 0}
    IN IF set = {} THEN 0 ELSE LineCode(q, CHOOSE j \in set : \A k \in set : j <= k)

\* Mutant: a reply is one line.
FirstLine(q) == 1

\* The line at which getreply returns: the first that is not continued, or that
\* has the code of the first line again.
ReplyEnds(q) ==
    LET ends(i) == ~Continued(q, i) \/ LineCode(q, i) = OriginalCode(q, i - 1)
    IN CHOOSE i \in DOMAIN q : ends(i) /\ \A j \in 1 .. i - 1 : ~ends(j)

getreply ==
    LET i == ReplyEnds(freply) IN
    /\ freply' = SubSeq(freply, i + 1, Len(freply))
    /\ fcode' = Class(freply[i].code)

----------------------------------------------------------------------------
(* The calls.  A call is the list of what it has yet to do: commands, each  *)
(* followed by the classes of reply the call goes on after, and the steps   *)
(* of a transfer.                                                           *)

NoFile == <<"no file">>

session == <<sockfd, connected, login_ok, passive>>
transfer == <<datafd, restart_point, fmode, flocal, leaked>>
server == <<fpasv, foffset, fdata, hung>>

FIdle == fcall = <<>>
Up == sockfd = 0 /\ connected = 1
FAsk == FIdle /\ ftpcalls < MaxFtpCalls /\ ftpcalls' = ftpcalls + 1

Calls(todo) ==
    /\ FAsk /\ Up /\ fcall' = todo
    /\ UNCHANGED <<session, server, freply, fcode, early>>

\* connect, and the greeting.
ftpclient_connect ==
    /\ FAsk /\ connected = 0
    /\ sockfd' = 0
    /\ \E c \in Greetings : \E f \in Forms(c) :
        /\ freply' = f \o (IF c = 120 THEN <<Line(220, "space")>> ELSE <<>>)
        /\ early' = IF c = 120 THEN 1 ELSE 0
    /\ fcall' = << <<"read", {1, 2}>>, <<"greeted">> >>
    /\ UNCHANGED <<connected, login_ok, passive, transfer, server, fcode>>

\* A connect after a close makes a socket and gives up, for close does not clear
\* connected.
ConnectAgain ==
    /\ FAsk /\ connected = 1 /\ sockfd = -1
    /\ sockfd' = 1
    /\ UNCHANGED <<connected, login_ok, passive, transfer, server, fcall, freply, fcode, early>>

ftpclient_close ==
    /\ FAsk /\ sockfd >= 0
    /\ sockfd' = -1 /\ freply' = <<>> /\ fpasv' = 0
    /\ UNCHANGED <<connected, login_ok, passive, transfer, foffset, fdata, hung, fcall, fcode,
                   early>>

ftpclient_passive(n) ==
    /\ FAsk /\ passive # n /\ passive' = n
    /\ UNCHANGED <<sockfd, connected, login_ok, transfer, server, fcall, freply, fcode, early>>

\* login: USER, PASS if it is asked for, and SYST.
ftpclient_login ==
    /\ Calls(<< <<"USER">>, <<"read", {3}>>, <<"PASS">>, <<"read", {2}>>,
                <<"SYST">>, <<"read", 1 .. 5>>, <<"loggedin">> >>)
    /\ UNCHANGED transfer

\* settype, cwd, cdup, del and quit: one command, whatever its reply.
OneCommand ==
    /\ Calls(<< <<"OTHER">>, <<"read", 1 .. 5>> >>)
    /\ UNCHANGED transfer

initconn == << <<"socket">>, <<"PASV">>, <<"read", {2}>>, <<"connect">> >>

\* Without passive mode initconn fails, and the call returns.
Transfers(todo) == Calls(IF passive = 1 THEN initconn \o todo ELSE <<>>)

\* sendrequest, which needs the local file.
ftpclient_put ==
    /\ flocal # NoFile
    /\ Transfers(<< <<"STOR">>, <<"read", {1}>>, <<"send">>, <<"read", 1 .. 5>> >>)
    /\ UNCHANGED transfer

recvrequest(cmd, from) ==
    Transfers((IF from = 0 THEN <<>> ELSE << <<"REST">>, <<"read", {3}>> >>)
              \o << <<cmd>>, <<"read", {1}>>, <<"open">>, <<"recv">>, <<"read", 1 .. 5>> >>)

ftpclient_dir ==
    /\ recvrequest("LIST", 0)
    /\ fmode' = "none"
    /\ UNCHANGED <<datafd, restart_point, flocal, leaked>>

\* get (0, "w") and reget (1, "a"), which goes on where the local file ends.
getit(restartit, modstr) ==
    /\ restart_point' = IF restartit /\ flocal # NoFile THEN Len(flocal) ELSE 0
    /\ recvrequest("RETR", restart_point')
    /\ fmode' = modstr
    /\ UNCHANGED <<datafd, flocal, leaked>>

----------------------------------------------------------------------------
(* The steps of a call.                                                    *)

FAt(s) == fcall # <<>> /\ Head(fcall)[1] = s
FDone == fcall' = Tail(fcall)
Replies(codes) == \E c \in codes : \E f \in Forms(c) : freply' = freply \o f

Commands == {"USER", "PASS", "SYST", "OTHER", "PASV", "REST", "RETR", "LIST", "STOR"}

\* What the server says if it does what it is asked.
Agreed(s) ==
    CASE s = "USER" -> {230, 331} [] s = "PASS" -> {230} [] s = "PASV" -> {227}
      [] s = "REST" -> {350} [] s \in {"RETR", "LIST", "STOR"} -> {150} [] OTHER -> {200}

\* A command goes out and the server answers: it agrees, or it refuses.  The
\* start REST gave is for the next command.  What it sends of the file may
\* break off.
command ==
    /\ fcall # <<>> /\ hung = 0
    /\ LET s == Head(fcall)[1] IN
       /\ s \in Commands
       /\ \/ /\ Replies({550})
             /\ foffset' = 0 /\ UNCHANGED <<fpasv, fdata>>
          \/ /\ Replies(Agreed(s))
             /\ fpasv' = IF s = "PASV" THEN 1 ELSE fpasv
             /\ foffset' = IF s = "REST" THEN restart_point ELSE 0
             /\ IF s = "RETR"
                THEN \E n \in foffset .. Len(Remote) : fdata' = SubSeq(Remote, foffset + 1, n)
                ELSE UNCHANGED fdata
    /\ FDone
    /\ UNCHANGED <<session, transfer, fcode, hung, ftpcalls, early>>

\* A reply is read.  A call that does not go on leaves its data socket as it is;
\* USER may be all the login there is; PASV refused is the end of passive mode;
\* and a greeting of a class over 2 closes the connection.
Reads ==
    /\ FAt("read") /\ freply # <<>>
    /\ getreply
    /\ LET next == IF Len(fcall) > 1 THEN fcall[2][1] ELSE "none"
           on == fcode' \in Head(fcall)[2] IN
       /\ fcall' = IF on THEN Tail(fcall)
                   ELSE IF next = "PASS" /\ fcode' = 2 THEN SubSeq(fcall, 4, Len(fcall))
                   ELSE <<>>
       /\ passive' = IF next = "connect" /\ ~on THEN 0 ELSE passive
       /\ sockfd' = IF next = "greeted" /\ ~on THEN -1 ELSE sockfd
    /\ UNCHANGED <<connected, login_ok, transfer, server, ftpcalls, early>>

Marks ==
    /\ \/ FAt("greeted") /\ connected' = 1 /\ UNCHANGED login_ok
       \/ FAt("loggedin") /\ login_ok' = 1 /\ UNCHANGED connected
    /\ FDone
    /\ UNCHANGED <<sockfd, passive, transfer, server, freply, fcode, ftpcalls, early>>

\* A new data socket; the one of a call that gave up is lost.
DataSocket ==
    /\ FAt("socket") /\ FDone
    /\ leaked' = IF datafd = "none" THEN leaked ELSE 1
    /\ datafd' = "new"
    /\ UNCHANGED <<session, server, restart_point, fmode, flocal, freply, fcode, ftpcalls, early>>

DataConnect ==
    /\ FAt("connect")
    /\ \/ fpasv = 1 /\ FDone /\ datafd' = "connected"
       \/ fcall' = <<>> /\ UNCHANGED datafd
    /\ fpasv' = 0
    /\ UNCHANGED <<session, foffset, fdata, hung, restart_point, fmode, flocal, leaked, freply,
                   fcode, ftpcalls, early>>

\* fopen once the transfer is agreed: get truncates, reget appends.
OpensLocal ==
    /\ FAt("open") /\ FDone
    /\ flocal' = IF fmode = "w" \/ (fmode = "a" /\ flocal = NoFile) THEN <<>> ELSE flocal
    /\ UNCHANGED <<session, server, datafd, restart_point, fmode, leaked, freply, fcode, ftpcalls,
                   early>>

\* The bytes come in until the connection ends or a write fails; a listing goes
\* to stdout.  The connection is closed and the server gives its closing reply.
Receives ==
    /\ FAt("recv") /\ FDone
    /\ \E n \in 0 .. Len(fdata) :
        flocal' = IF fmode = "none" THEN flocal ELSE flocal \o SubSeq(fdata, 1, n)
    /\ fdata' = <<>> /\ datafd' = "none"
    /\ Replies({226, 426})
    /\ UNCHANGED <<session, fpasv, foffset, hung, restart_point, fmode, leaked, fcode, ftpcalls,
                   early>>

Sends ==
    /\ FAt("send") /\ FDone
    /\ datafd' = "none"
    /\ Replies({226, 426})
    /\ UNCHANGED <<session, server, restart_point, fmode, flocal, leaked, fcode, ftpcalls, early>>

\* The server drops the connection: a getreply with nothing to read goes round
\* for ever, for the end of the file is no end of a line.
HangsUp ==
    /\ Up /\ hung = 0 /\ hung' = 1
    /\ UNCHANGED <<session, transfer, fpasv, foffset, fdata, fcall, freply, fcode, ftpcalls, early>>

----------------------------------------------------------------------------
FtpInit ==
    /\ sockfd = -1 /\ connected = 0 /\ login_ok = 0 /\ passive = 0
    /\ datafd = "none" /\ restart_point = 0 /\ fmode = "none" /\ leaked = 0
    /\ flocal \in {NoFile} \union {SubSeq(Remote, 1, n) : n \in 0 .. Len(Remote)}
    /\ fpasv = 0 /\ foffset = 0 /\ fdata = <<>> /\ hung = 0
    /\ fcall = <<>> /\ freply = <<>> /\ fcode = 0 /\ ftpcalls = 0 /\ early = 0

FtpNext ==
    \/ ftpclient_connect \/ ConnectAgain \/ ftpclient_close \/ ftpclient_login
    \/ OneCommand \/ \E n \in {0, 1} : ftpclient_passive(n)
    \/ getit(FALSE, "w") \/ getit(TRUE, "a")
    \/ ftpclient_dir \/ ftpclient_put
    \/ command \/ Reads \/ Marks \/ DataSocket \/ DataConnect
    \/ OpensLocal \/ Receives \/ Sends \/ HangsUp

FtpSpec == FtpInit /\ [][FtpNext]_ftpvars

----------------------------------------------------------------------------
\* Between calls there is no reply left to read, so the next command is answered
\* by its own reply: every call reads exactly what the server has to say about
\* it, on each of its error paths and whatever lines a reply has - unless the
\* server greeted with a reply that another one follows.
RepliesInStep ==
    (FIdle /\ Up /\ early = 0) => freply = <<>>

=============================================================================

------------------------------- MODULE CmdLine -------------------------------
(***************************************************************************)
(* The command line interface of cmdlintf/cmdlintf.c: a tree of commands,  *)
(* a server that serves one client after another on a Unix stream socket,  *)
(* and clients that run their local commands and send it the others.       *)
(* Server and clients run the same program, so they have the same tree.    *)
(* A line is the sequence of its words.  What a registered function prints *)
(* and returns is a function of its name and of the words left to it.      *)
(***************************************************************************)
EXTENDS Integers, Sequences, FiniteSets, SequencesExt

CONSTANTS Clients,
          Adds,             \* commands a program may add: [path, rmt, func, type]
          Typed,            \* the lines people type
          Login,            \* <<line, type>> that the login callback executes
          MaxAdds, MaxLines

VARIABLES tree,             \* path |-> [func, rmt, type], every prefix of a command included
          nadds,
          serverpc, peer,    \* cli_start(1) and accept_client, and the client at fd
          terminated,           \* pdptr->terminate of the server
          sockfile,             \* the socket's name exists
          bp,                   \* bp_buffer: what has been printed
          retval,               \* what execute_line has returned
          clientpc,             \* cli_start(0) and cmdline_interface
          backlog,              \* connections that wait to be accepted
          up, down,             \* bytes to the server and from it
          hungup,               \* clients whose connection the server has closed
          lines,                \* lines typed
          asked, told,          \* history: the line sent last, and what came back
          greeted               \* history: the greeting shown

clVars == <<tree, nadds, serverpc, peer, terminated, sockfile, bp, retval, clientpc,
            backlog, up, down, hungup, lines, asked, told, greeted>>
server == <<serverpc, peer, terminated, sockfile, bp, retval>>
client == <<clientpc, lines, asked, told, greeted>>
wire == <<backlog, up, down, hungup>>
commands == <<tree, nadds>>

NoFunc == "none"
NoClient == "nobody"
Unanswered == [ret |-> 1, out |-> <<>>]     \* retval is set to 1 before it is read

----------------------------------------------------------------------------
(***************************************************************************)
(* The tree of commands.                                                   *)
(***************************************************************************)
PrefixesOf(path) == {SubSeq(path, 1, n) : n \in 1 .. Len(path)}

\* The words on the way are made when they are missing; the last one must be new.
cli_addcmd(a) ==
    /\ serverpc = "setup" /\ nadds < MaxAdds
    /\ nadds' = nadds + 1
    /\ tree' = [w \in DOMAIN tree \cup PrefixesOf(a.path) |->
                   IF w \in DOMAIN tree THEN tree[w]
                   ELSE [func |-> IF w = a.path THEN a.func ELSE NoFunc, rmt |-> a.rmt, type |-> a.type]]
    /\ UNCHANGED <<server, client, wire>>

\* The node that the most words of a line lead to, or the root.
find_match_as_possible(line) ==
    LET at == {n \in 1 .. Len(line) : SubSeq(line, 1, n) \in DOMAIN tree}
    IN  IF at = {} THEN <<>> ELSE SubSeq(line, 1, Max(at))

Rest(line) == SubSeq(line, Len(find_match_as_possible(line)) + 1, Len(line))     \* nthwordptr

\* What a function prints, given the words left to it.
Output(func, rest) == <<func>> \o rest

\* cmd_terminate returns 0, as a program's exit does, cmd_history 2 unless it complains.
Return(func, rest) ==
    CASE func \in {"terminate", "exit"} -> 0 [] func = "history" /\ rest = <<>> -> 2 [] OTHER -> 1

\* execute_line where commands are not sent away.
Executed(line) ==
    LET node == find_match_as_possible(line)
    IN  CASE node = <<>> -> [func |-> NoFunc, ret |-> 1, out |-> <<"no such command">>]
          [] node # <<>> /\ tree[node].func = NoFunc ->
                [func |-> NoFunc, ret |-> 1, out |-> <<"incomplete">>]
          [] OTHER -> LET f == tree[node].func
                      IN  [func |-> f, ret |-> Return(f, Rest(line)), out |-> Output(f, Rest(line))]

\* A program's own call, for commands of one type.
external_execute(line, type) ==
    LET node == find_match_as_possible(line)
    IN  IF node # <<>> /\ tree[node].func # NoFunc /\ tree[node].type # type
        THEN <<>> ELSE Executed(line).out

IsRemote(line) ==
    LET node == find_match_as_possible(line)
    IN  node # <<>> /\ tree[node].func # NoFunc /\ tree[node].rmt

----------------------------------------------------------------------------
(***************************************************************************)
(* The server: cli_start(1) and accept_client.                             *)
(***************************************************************************)
IsUp(c) == clientpc[c] \notin {"out", "gone"}

\* socket and bind, which fails when the name is there.
StartServer ==
    /\ serverpc \in {"setup", "dead"}
    /\ serverpc' = IF sockfile THEN "failed" ELSE "listening"
    /\ sockfile' = TRUE
    /\ bp' = <<>> /\ peer' = NoClient /\ terminated' = FALSE
    /\ UNCHANGED <<retval, commands, client, wire>>

Accept ==
    /\ serverpc = "listening" /\ ~terminated /\ backlog # <<>>
    /\ peer' = Head(backlog) /\ backlog' = Tail(backlog)
    /\ serverpc' = "pid"
    /\ UNCHANGED <<terminated, sockfile, bp, retval, up, down, hungup, commands, client>>

\* The end of the listening loop: clients that wait are cut off.
StopListening ==
    /\ serverpc = "listening" /\ terminated
    /\ serverpc' = "over" /\ sockfile' = FALSE
    /\ hungup' = hungup \cup ToSet(backlog) /\ backlog' = <<>>
    /\ UNCHANGED <<peer, terminated, bp, retval, up, down, commands, client>>

\* A read waits for something to arrive or for the client to go.
Readable(c) == up[c] # <<>> \/ ~IsUp(c)

\* The client's process number, and the login callback.
ReadPid ==
    /\ serverpc = "pid" /\ Readable(peer)
    /\ up' = [up EXCEPT ![peer] = IF @ = <<>> THEN @ ELSE Tail(@)]
    /\ bp' = bp \o external_execute(Login[1], Login[2])
    /\ serverpc' = "greet"
    /\ UNCHANGED <<peer, terminated, sockfile, retval, backlog, down, hungup, commands, client>>

\* A write to a client that has gone ends the server: nobody catches SIGPIPE.
Killed ==
    /\ serverpc' = "dead"
    /\ hungup' = hungup \cup {peer} \cup ToSet(backlog) /\ backlog' = <<>>
    /\ UNCHANGED <<peer, terminated, sockfile, bp, retval, up, down>>

\* Mutant: the buffer is not reset.
WrittenKept(what) == down' = [down EXCEPT ![peer] = Append(@, what)] /\ UNCHANGED bp

Written(what) == down' = [down EXCEPT ![peer] = Append(@, what)] /\ bp' = <<>>

Greet ==
    /\ serverpc = "greet"
    /\ IF IsUp(peer)
       THEN /\ Written([ret |-> 1, out |-> bp])
            /\ serverpc' = "select"
            /\ UNCHANGED <<peer, terminated, sockfile, retval, backlog, up, hungup>>
       ELSE Killed
    /\ UNCHANGED <<commands, client>>

HangUp ==
    /\ serverpc' = "listening" /\ peer' = NoClient
    /\ hungup' = hungup \cup {peer}

\* One line is read and executed, in one thread.
ReadLine ==
    /\ serverpc = "select" /\ ~terminated /\ up[peer] # <<>>
    /\ LET done == Executed(Head(up[peer])) IN
         /\ retval' = done.ret /\ bp' = bp \o done.out
         /\ terminated' = (done.func = "terminate" /\ Rest(Head(up[peer])) = <<>>)
    /\ up' = [up EXCEPT ![peer] = Tail(@)]
    /\ serverpc' = "answer"
    /\ UNCHANGED <<peer, sockfile, backlog, down, hungup, commands, client>>

\* The value, the length and the text; 0 ends the connection.
Answer ==
    /\ serverpc = "answer"
    /\ IF IsUp(peer)
       THEN /\ Written([ret |-> retval, out |-> bp])
            /\ IF retval = 0 THEN HangUp ELSE serverpc' = "select" /\ UNCHANGED <<peer, hungup>>
            /\ UNCHANGED <<terminated, sockfile, retval, backlog, up>>
       ELSE Killed
    /\ UNCHANGED <<commands, client>>

\* End of file, or the program's terminate.
Leave ==
    /\ serverpc = "select"
    /\ terminated \/ (up[peer] = <<>> /\ ~IsUp(peer))
    /\ HangUp
    /\ UNCHANGED <<terminated, sockfile, bp, retval, backlog, up, down, commands, client>>

\* idle_time seconds without a line: the client gets SIGALRM.
TimeOut ==
    /\ serverpc = "select" /\ ~terminated /\ ~Readable(peer)
    /\ clientpc' = [clientpc EXCEPT ![peer] = "gone"]
    /\ HangUp
    /\ UNCHANGED <<terminated, sockfile, bp, retval, backlog, up, down, lines, asked, told, greeted, commands>>

external_terminate ==
    /\ serverpc \in {"listening", "pid", "greet", "select", "answer"} /\ ~terminated
    /\ terminated' = TRUE
    /\ UNCHANGED <<serverpc, peer, sockfile, bp, retval, commands, client, wire>>

----------------------------------------------------------------------------
(***************************************************************************)
(* A client: cli_start(0), then cmdline_interface until it returns 0.      *)
(***************************************************************************)
Connect(c) ==
    /\ clientpc[c] = "out" /\ serverpc \notin {"setup", "failed"}
    /\ IF serverpc \in {"dead", "over"}
       THEN clientpc' = [clientpc EXCEPT ![c] = "gone"] /\ UNCHANGED backlog
       ELSE clientpc' = [clientpc EXCEPT ![c] = "connected"] /\ backlog' = Append(backlog, c)
    /\ UNCHANGED <<up, down, hungup, lines, asked, told, greeted, commands, server>>

\* A write to a server that has hung up ends the client, too.
Sends(c, what, next) ==
    IF c \in hungup
    THEN clientpc' = [clientpc EXCEPT ![c] = "gone"] /\ UNCHANGED up
    ELSE clientpc' = [clientpc EXCEPT ![c] = next] /\ up' = [up EXCEPT ![c] = Append(@, what)]

WritePid(c) ==
    /\ clientpc[c] = "connected"
    /\ Sends(c, <<"pid">>, "login")
    /\ UNCHANGED <<backlog, down, hungup, lines, asked, told, greeted, commands, server>>

\* What a read gives: an answer, or nothing when the server has hung up.
Comes(c) == down[c] # <<>> \/ c \in hungup
Came(c) == IF down[c] = <<>> THEN Unanswered ELSE Head(down[c])
Taken(c) == [down EXCEPT ![c] = IF @ = <<>> THEN @ ELSE Tail(@)]

ReadGreeting(c) ==
    /\ clientpc[c] = "login" /\ Comes(c)
    /\ greeted' = [greeted EXCEPT ![c] = Came(c).out]
    /\ down' = Taken(c)
    /\ clientpc' = [clientpc EXCEPT ![c] = "prompt"]
    /\ UNCHANGED <<backlog, up, hungup, lines, asked, told, commands, server>>

After(ret) == IF ret = 0 THEN "gone" ELSE "prompt"

execute_line(c, line) ==
    /\ clientpc[c] = "prompt" /\ lines[c] < MaxLines
    /\ lines' = [lines EXCEPT ![c] = @ + 1]
    /\ IF IsRemote(line)
       THEN /\ Sends(c, line, "answer")
            /\ asked' = [asked EXCEPT ![c] = line]
       ELSE /\ clientpc' = [clientpc EXCEPT ![c] = After(Executed(line).ret)]
            /\ UNCHANGED <<up, asked>>
    /\ UNCHANGED <<backlog, down, hungup, told, greeted, commands, server>>

ReadAnswer(c) ==
    /\ clientpc[c] = "answer" /\ Comes(c)
    /\ told' = [told EXCEPT ![c] = Came(c)]
    /\ down' = Taken(c)
    /\ clientpc' = [clientpc EXCEPT ![c] = After(Came(c).ret)]
    /\ UNCHANGED <<backlog, up, hungup, lines, asked, greeted, commands, server>>

\* A client is killed, or ends.
Crash(c) ==
    /\ clientpc[c] \in {"connected", "login", "prompt", "answer"}
    /\ clientpc' = [clientpc EXCEPT ![c] = "gone"]
    /\ UNCHANGED <<lines, asked, told, greeted, commands, server, wire>>

----------------------------------------------------------------------------
ClInit ==
    /\ tree = [p \in {} |-> 0] /\ nadds = 0
    /\ serverpc = "setup" /\ peer = NoClient
    /\ terminated = FALSE /\ sockfile = FALSE
    /\ bp = <<>> /\ retval = 1
    /\ clientpc = [c \in Clients |-> "out"]
    /\ backlog = <<>> /\ hungup = {}
    /\ up = [c \in Clients |-> <<>>] /\ down = [c \in Clients |-> <<>>]
    /\ lines = [c \in Clients |-> 0]
    /\ asked = [c \in Clients |-> <<>>]
    /\ told = [c \in Clients |-> Unanswered]
    /\ greeted = [c \in Clients |-> <<>>]

ClNext ==
    \/ \E a \in Adds : cli_addcmd(a)
    \/ StartServer \/ Accept \/ StopListening \/ ReadPid \/ Greet
    \/ ReadLine \/ Answer \/ Leave \/ TimeOut \/ external_terminate
    \/ \E c \in Clients :
         \/ Connect(c) \/ WritePid(c) \/ ReadGreeting(c) \/ ReadAnswer(c) \/ Crash(c)
         \/ \E line \in Typed : execute_line(c, line)

----------------------------------------------------------------------------
\* A client is shown what its own line has made the server print and return, and at login what
\* the callback has printed, unless the server has hung up on it: the answers stay in step and no
\* text goes to the next client, whenever clients die, time out or are turned away.
AnsweredForItself ==
    \A c \in Clients :
      /\ told[c] # Unanswered =>
            told[c] = [ret |-> Executed(asked[c]).ret, out |-> Executed(asked[c]).out]
      /\ greeted[c] \in {<<>>, external_execute(Login[1], Login[2])}
===============================================================================

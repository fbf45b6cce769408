------------------------------ MODULE PopAgent ------------------------------
(***************************************************************************)
(* The mail agent of ssl_lib/POP3-Agent.c: it takes a connection, waits    *)
(* for the name of the user, chooses the server whose rule is the first to *)
(* match it, logs in there and relays both ways.  Streams are sequences of *)
(* tokens: the words "user" and "quit", letters, "nl" for the end of a     *)
(* line; a read gives any beginning of what has not been read yet.         *)
(***************************************************************************)
EXTENDS Integers, Sequences, FiniteSets, SequencesExt

CONSTANTS ConfigFiles,      \* files of lines [kind, users, server, ssl]
          Scripts,          \* what a mail client sends, from the first to the last token
          Greeting, Said,   \* what a server says on its own, and all that it says
          BufTokens, MaxUser,
          MaxReloads

VARIABLES svlist,           \* the rules, of the parent
          mine,             \* the rules of the child that serves the connection
          reloads,
          popc,             \* where do_service is
          fromclient, fromserver,   \* what is still to be read
          toclient, toserver,       \* what has been written
          popbuf,           \* buf: its beginning is overwritten by every read
          user, popserver,
          conf, myconf,     \* history: the file that svlist and mine were read from
          script,           \* history: all that the client sends
          ragged            \* history: a read before the login was not one whole line

paVars == <<svlist, mine, reloads, popc, fromclient, fromserver, toclient, toserver,
            popbuf, user, popserver, conf, myconf, script, ragged>>

streams == <<fromclient, fromserver, toclient, toserver>>

NoServer == "none"
Hello == <<"hello">>
Err == <<"err">>
Bye == <<"bye">>

----------------------------------------------------------------------------
Rules(file) == SelectSeq(file, LAMBDA l : l.kind = "rule")

\* Mutant: a rule goes to the front of the list.
ConfigReversed(file) == Reverse(Rules(file))

\* Comments, lines of one word and unknown protocols are skipped; the others keep their order.
read_config(file) == Rules(file)

\* SIGHUP: the handler reads the file again; children ignore the signal.
interrupt ==
    /\ reloads < MaxReloads
    /\ reloads' = reloads + 1
    /\ \E file \in ConfigFiles : svlist' = read_config(file) /\ conf' = file
    /\ UNCHANGED <<mine, popc, streams, popbuf, user, popserver, myconf, script, ragged>>

\* accept and fork: the child has the rules of this moment.
Accept ==
    /\ popc = "idle"
    /\ popc' = "hello" /\ mine' = svlist /\ myconf' = conf
    /\ UNCHANGED <<svlist, reloads, streams, popbuf, user, popserver, conf, script, ragged>>

----------------------------------------------------------------------------
SayHello ==
    /\ popc = "hello"
    /\ \/ toclient' = Hello /\ popc' = "login"
       \/ popc' = "closed" /\ UNCHANGED toclient        \* the write fails
    /\ UNCHANGED <<svlist, mine, reloads, fromclient, fromserver, toserver, popbuf,
                   user, popserver, conf, myconf, script, ragged>>

Chunks(s) == {SubSeq(s, 1, n) : n \in 1 .. Min({Len(s), BufTokens})}
Without(s, chunk) == SubSeq(s, Len(chunk) + 1, Len(s))
Filled(chunk) == [i \in 1 .. BufTokens |-> IF i <= Len(chunk) THEN chunk[i] ELSE popbuf[i]]
IsLine(chunk) == Last(chunk) = "nl" /\ Cardinality({i \in DOMAIN chunk : chunk[i] = "nl"}) = 1

\* The letters after "user ", up to the first that cannot be in a name; the rest is cut off.
UserIn(b) ==
    LET ends == {i \in 2 .. Len(b) : b[i] \in {"nl", "at"}} \cup {Len(b) + 1}
        name == SubSeq(b, 2, Min(ends) - 1)
    IN  SubSeq(name, 1, Min({Len(name), MaxUser}))

ReadLogin ==
    /\ popc = "login" /\ fromclient # <<>>
    /\ \E chunk \in Chunks(fromclient) :
         LET b == Filled(chunk) IN
         /\ fromclient' = Without(fromclient, chunk)
         /\ popbuf' = b
         /\ ragged' = (ragged \/ ~IsLine(chunk))
         /\ CASE b[1] = "user" -> user' = UserIn(b) /\ popc' = "match" /\ UNCHANGED toclient
              [] b[1] = "quit" -> toclient' = toclient \o Bye /\ popc' = "closed" /\ UNCHANGED user
              [] OTHER -> toclient' = toclient \o Err /\ UNCHANGED <<user, popc>>
    /\ UNCHANGED <<svlist, mine, reloads, fromserver, toserver, popserver, conf, myconf, script>>

\* End of file, or an error, before the login.
LoginEnds ==
    /\ popc = "login"
    /\ popc' = "closed"
    /\ UNCHANGED <<svlist, mine, reloads, streams, popbuf, user, popserver, conf, myconf, script, ragged>>

\* The first rule that matches; without one, p->use_ssl reads through a null pointer.
Match ==
    /\ popc = "match"
    /\ LET fit == {i \in DOMAIN mine : user \in mine[i].users} IN
       IF fit = {}
       THEN popc' = "crashed" /\ UNCHANGED popserver
       ELSE \/ popserver' = mine[Min(fit)].server /\ popc' = "greeting"
            \/ popc' = "closed" /\ UNCHANGED popserver          \* no connection
    /\ UNCHANGED <<svlist, mine, reloads, streams, popbuf, user, conf, myconf, script, ragged>>

\* The server's greeting is read and not shown; the name is sent whatever it was.
LogIn ==
    /\ popc = "greeting"
    /\ \E chunk \in Chunks(fromserver) :
         /\ fromserver' = Without(fromserver, chunk)
         /\ ragged' = (ragged \/ chunk # Greeting)
    /\ toserver' = <<"user">> \o user \o <<"nl">>
    /\ popbuf' = Filled(toserver')
    /\ popc' = "relay"
    /\ UNCHANGED <<svlist, mine, reloads, fromclient, toclient, user, popserver, conf, myconf, script>>

\* A chunk is written whole, or less of it, which ends the relay.
FromClient ==
    /\ popc = "relay" /\ fromclient # <<>>
    /\ \E chunk \in Chunks(fromclient) :
         /\ fromclient' = Without(fromclient, chunk)
         /\ popbuf' = Filled(chunk)
         /\ \/ toserver' = toserver \o chunk /\ UNCHANGED popc
            \/ \E n \in 0 .. Len(chunk) - 1 : toserver' = toserver \o SubSeq(chunk, 1, n) /\ popc' = "closed"
    /\ UNCHANGED <<svlist, mine, reloads, fromserver, toclient, user, popserver, conf, myconf, script, ragged>>

FromServer ==
    /\ popc = "relay" /\ fromserver # <<>>
    /\ \E chunk \in Chunks(fromserver) :
         /\ fromserver' = Without(fromserver, chunk)
         /\ popbuf' = Filled(chunk)
         /\ \/ toclient' = toclient \o chunk /\ UNCHANGED popc
            \/ \E n \in 0 .. Len(chunk) - 1 : toclient' = toclient \o SubSeq(chunk, 1, n) /\ popc' = "closed"
    /\ UNCHANGED <<svlist, mine, reloads, fromclient, toserver, user, popserver, conf, myconf, script, ragged>>

\* Either side ends, or a signal asks the child to.
RelayEnds ==
    /\ popc = "relay"
    /\ popc' = "closed"
    /\ UNCHANGED <<svlist, mine, reloads, streams, popbuf, user, popserver, conf, myconf, script, ragged>>

PaInit ==
    /\ conf \in ConfigFiles /\ svlist = read_config(conf)
    /\ mine = <<>> /\ myconf = <<>> /\ reloads = 0
    /\ popc = "idle"
    /\ script \in Scripts /\ fromclient = script /\ fromserver = Said
    /\ toclient = <<>> /\ toserver = <<>>
    /\ popbuf = [i \in 1 .. BufTokens |-> "junk"]
    /\ user = <<>> /\ popserver = NoServer
    /\ ragged = FALSE

PaNext ==
    \/ interrupt \/ Accept \/ SayHello \/ ReadLogin \/ LoginEnds \/ Match \/ LogIn
    \/ FromClient \/ FromServer \/ RelayEnds

----------------------------------------------------------------------------
\* Where the first line of a script that names a user begins and ends.
LineStarts == {i \in DOMAIN script : i = 1 \/ script[i - 1] = "nl"}
UserAt == Min({i \in LineStarts : script[i] = "user"})
UserEnd == Min({i \in DOMAIN script : i > UserAt /\ script[i] = "nl"})
Named == UserIn(SubSeq(script, UserAt, UserEnd))
Before == Cardinality({i \in LineStarts : i < UserAt})      \* lines that are refused

Serves(line) == line.kind = "rule" /\ Named \in line.users

\* When the login comes line by line, the connection is that of the user's own server by the rules
\* in force when it was accepted: this server gets the login and then what the client has written
\* after it, and the client what the server has said after its greeting, in order and once.
Relayed ==
    ~ragged /\ toserver # <<>> =>
        /\ \E i \in DOMAIN myconf :
             /\ Serves(myconf[i]) /\ popserver = myconf[i].server
             /\ \A j \in 1 .. i - 1 : ~Serves(myconf[j])
        /\ IsPrefix(toserver, <<"user">> \o Named \o <<"nl">> \o SubSeq(script, UserEnd + 1, Len(script)))
        /\ IsPrefix(toclient, Hello \o [i \in 1 .. Before |-> "err"] \o Without(Said, Greeting))
===============================================================================

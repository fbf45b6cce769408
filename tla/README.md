# A TLA+ verification of katmai

katmai is a C library for karaoke set-top boxes and the video servers behind
them: threads and queues, a streaming protocol over UDP in three versions,
read-ahead buffers, players for MPEG, MP3 and lyrics, and a collection of small
services (cron, playlists, file exchange, configuration, a mail agent, a
PostScript engine). This directory holds TLA+ modules that model its parts, TLC
configurations that check them on small instances, and TLAPS proofs of some of
their properties for every size. `PROJECT.json` lists components, runs, mutants,
the source lines behind every definition, findings, hazards and theorems.

To repeat a run: `tlc -config MCServices.cfg MCServices`; to check the proofs of
a module: `tlapm ServiceProofs.tla`.

## The system

    command thread ──prepare/play/cut──▶ holktv (play thread) ──▶ stream_mp3, lyrics_osd, mixer
                                             │ open/start/stop
                                        stream_mpeg (player thread) ◀──▶ public film
                                             │ read
                                        stio_engine/prefetch ── decryption
                                             │ bc (buffer_cache)
                                        prefetch thread (thread_svc)
                                             │ open/read/seek
                                        streamio_v3 client: reader, response thread
                                             │ UDP              ▲ vod_table
                                        streamio_v3 server: main thread
                                             │ netq (mqueue)
                                        service threads, stb_table, disk

Beside this chain stand the older versions of the protocol (`streamio_v1`,
`streamio_v2`), the services that talk to other machines (`udpcmdrcv`,
`mini_filexchg`, `ftpclient`, `cmdlintf`, the POP3 agent) and parts that keep or
compute something (`cron`, `mactable`, `playlist`, `simconf`, `sys_conf`,
`x_object`, `xlist`, `rb_tree`, `hdllio`, `misclib`, `rmosdlib`, `ttpseng`).

## Modules

### Threads and queues

| module | source | state and actions |
|---|---|---|
| `FifoChannel` | what `buffer_cache.h` promises | a bounded first-in first-out channel: reserve a place, put, take, be done with what was taken; emptied and resized while nobody holds a place |
| `BufferCache` | `buffer_cache/` | one action per operation under the mutex; `bc_flush` and `bc_setbuffer` give it up between buffers and are several. Waiting on a condition is a state. The callers' contract is part of it: the consumer flushes, and resizes only while the producer is idle |
| `ThreadSvc` | `thread_svc/` | every load and store of a flag is a step, because the code takes no lock; one owner |
| `MQueue`, `PQueue` | `mqueue/`, `pqueue/` | rings of numbers; sleeping and waking dequeuers |
| `XList`, `Deque` | `xlist/` | the ring with its two indexes and count, and the double-ended queue it is meant to be |
| `HolktvStb` | `holktv/holktv_stb.c`, `stream_mp3/`, `lyrics_osd/` | the command thread, the play thread, whoever waits for a song, and the handshake of the two other players (one record each in `svc`). `todo` lists the calls a thread still has to make. The callers keep the order of `holktv/example.c` |
| `StbVolume` | `holktv/holktv_stb.c`, `holktv/stb/`, `mixer/` | the volumes, the fader, the mixer, and the unlocked word `in_fade` between three threads |
| `Lyrics` | `lyrics_osd/`, `koklib/` | the control thread and the thread that draws, colours and erases the sentences of two rows |

`MCThreads` and `MCQueues` check several of these, one in each behaviour. The
proofs are in `RingProofs` (`BufferCache` and `XList`) and `ServiceProofs`
(`MQueue` and `ThreadSvc`).

### Streaming

| module | source | state and actions |
|---|---|---|
| `StbTable` | `streamio_v3/server.c`, `stb_table.c` | the main thread handles a packet in one step, a service thread serves a station in one step (it holds the station's mutex), a control thread calls pause and close_all. The sizes 32768, 1425, 23 and 32 of the code are constants |
| `StreamIOv3` | `streamio_v3/client.c`, `src.client/` | extends `StbTable` by a client with one channel and a network that loses, delays, duplicates and reorders. The test of a data packet and its store are two steps, because the code tests before it takes the mutex. Finding a server is one step |
| `VodDiscovery` | `src.client/internal.c`, `response.c`, `vod_table.c` | that step in full: several channels, several servers, broadcasting and registration |
| `StreamIOv2` | `streamio_v2/` | a channel of a client, its receiver, servers with their two threads; packets are lost, doubled and late, servers crash, pause and come back |
| `StreamIOv1` | `streamio_v1/` | both variants of the answering thread, the table of stations, the streaming threads, a restart |
| `Prefetch` | `stio_engine/prefetch.c` | a buffer is a run of units of a file. The cache is the channel that `BufferCache` is shown to implement. `pre_close_step1` is eight steps that any thread may be in |
| `NextFile` | `stio_engine/prefetch.c` | a second thread reads the next file ahead on the same channel; the keep buffer |
| `StreamMpeg` | `stream_mpeg/stream_mpeg.c` | `Prefetch` with the player thread and a control thread, both of which close the engine |
| `PublicPlayer` | `stream_mpeg/play_public.c` | the background film and how it yields the decoder |
| `Decrypt` | `stio_engine.c`, `holktv_stb.c`, `misclib/` | reading an encrypted film through the plugin, RC4 over a smaller word, and MD5's buffering and padding |

The proofs are in `StreamIOv3Proofs` (`StbTable` and `StreamIOv3`),
`StreamIOv2Proofs`, `StreamMpegProofs` (`Prefetch` and `StreamMpeg`) and
`NextFileProofs`.

### Services

| module | source | state and actions |
|---|---|---|
| `SendFile` | `udpcmdrcv/`, `udplib/`, `genpdu/`, `tcplib/` | two nodes hand each other a file: request, answer, connection, over UDP |
| `FileExchange` | `mini_filexchg/` | client and server as programs of reads and writes on byte streams that deliver in pieces and break |
| `FtpClient` | `ftpclient/` | commands, replies of one and several lines, passive transfers, a server that refuses and hangs up |
| `CmdLine` | `cmdlintf/` | the tree of commands, the server, its clients, timeouts and crashes |
| `PopAgent` | `ssl_lib/POP3-Agent.c` | rules, their reload, a session from accept to the end of the relaying |
| `HktvCmd` | `holktv/stb/holktv_stb_cmd.c` | datagrams, their check, the registered commands and the answers |

The proofs about `SendFile` and `FtpClient` are in `TransferProofs`.

### Tables, trees, pictures, text

| module | source | state and actions |
|---|---|---|
| `Tables` | `cron/`, `mactable/`, `playlist/`, `simconf/` | four parts in four sections: jobs and the thread that starts them; machines, their file and their verification; the list of films and its cursor; variables and their types |
| `XObject` | `x_object/` | lists and hashes as chains of nodes with a tail, a cursor and a cached array |
| `SysTree` | `rb_tree/sys-tree.h` | the macros of the red-black tree and of the splay tree; what the header writes once for each hand takes the side as a parameter |
| `Picture` | `rmosdlib/rmimage256.c` | palette and pixels in one block of memory, and every drawing call with its own clipping |
| `Hdllio` | `hdllio/` | the partition table and the chain of logical partitions |
| `SysConf` | `sys_conf/`, `parser.y` | the semantic actions of the grammar in the order in which they run, and the static variables that outlive a file |
| `PsEngine` | `ttpseng/` | commands and text become cells of a chain of buffers, which is read once and set in lines and pages |

`MCServices` holds the services with `StbTable` and `StreamIOv1`, `MCLibrary`
the rest; one part is under test in each behaviour, and the variables of the
others are 0 or, for the modules that `MCServices` extends, stay in their
initial state. Variables called history in a module (`stale`, `missed`, `torn`,
`odd`, `lost` and the like) are read by no action: they record that a behaviour
went through a race or a loss that the code leaves open.

Definitions marked *Mutant* are plausible bugs. Each property is shown to fail
when a definition of the model is replaced by one of them.

## Runs

| run | instance | result |
|---|---|---|
| buffer_cache | 5 buffers, resized by 0, 3, 4, 6 | holds, implements `FifoChannel` |
| threads | thread_svc with one owner; two songs on the set-top box, the first replayed once | holds |
| queues | queues of 2, a list of 3 | holds, implements `Deque` |
| pqueue_priority | 3 entries, a callback | **violated**: element lost |
| services | 1 station, 2 service threads, 3 files; six other services | holds |
| filexchg_name | names of one to three letters, lengths of two bytes | **violated**: another name |
| streamio_v3 | 1 client, 2 packets in flight, 2 opens, 1 restart | holds |
| vod_discovery | 2 channels, 2 servers, 1 loss | holds |
| stream_mpeg | 2 buffers of 2 units, files of 3 and 2, reads of 1 and 3 | holds |
| next_file | files of 5 and 2 units in buffers of 2; 7 calls around the public film | holds |
| streamio_v2 | 1 server, 3 files, 2 opens, 2 packets in flight, 2 faults | holds |
| library | sixteen parts | holds |

What the passing runs show.

*buffer_cache*: producer and consumer never hold one buffer, the consumer is
served, and the ring is a bounded queue through flushes and resizes. Five
buffers are needed because `setbuf` ignores sizes of three and less.

*threads*: of thread_svc, never two threads. Of the set-top box: calls return,
songs end and whoever waits for one goes on. Two races are excepted: a start
that comes between a player's test of `thrwait` and its wait is lost, since it
signals without the mutex; a play before the old play thread has cleared
`have_thr` starts nothing. A behaviour ends with the first of them. Two songs
are needed for one to be cut by the preparation of the next.

*queues*: what is queued is dequeued, however often others are queued
(`QueuedIsServed`, of mqueue as the server uses it and of pqueue); a list is a
double-ended queue. Queues of two entries reach full, empty, wrap-around, holes
and jumps.

*services*: a packet of the version 3 server carries the bytes its header names,
through reopens, close_all and two service threads; a block has two pieces and a
disk read two blocks, so that the last of each may be short. Every piece that a
station of version 1 was promised is sent with the bytes of the file. FTP
replies are read with the commands they belong to. A file is handed to the node
that was asked; exchanged files are copies or the call says they are not. A
terminal gets the answer to its own line, and the mail agent relays what was
said, in order, to the server its rules name.

*streamio_v3*: a block is put together from pieces of that block alone, but for
a piece that was tested before the block changed. Three scenarios bound the state
space: packets that overtake each other, two opens, a restart.

*vod_discovery*: while a server runs, a searching channel finds one. Two
channels are enough for one to wait for another.

*stream_mpeg*: until somebody asks it to stop, the player gets the file from
beginning to end and again on a repeat, nothing twice, nothing missing, never
another file; calls return and files play to their end. Three races are excepted
(`Slipped`): a close before the prefetch thread has begun, a read that enters
after the close has looked for readers, a reset that overtakes a stop. Two opens,
or an open and a reset, reach all of them; two buffers reach a full and an empty
cache.

*next_file*: a file opened as announced is read whole and in order, whether its
first blocks were read ahead or not, and calls return, but for one lost signal
in `pre_open`. The public film yields the decoder when asked, but for four windows
in which `playMPEG_public` gives no signal.

*streamio_v2*: the pieces of a file follow one another to its end and calls
return, although packets are lost, doubled and late and the server crashes,
pauses and comes back. Excepted are a read that was aborted, answers whose
numbers the client does not compare (`stale`), a server that serves a request
from the file it has open without comparing names (`crossed`), and a reader that
finds the count at zero before the last copy (`early`). The files are a song of
three pieces, a tune of one and one that is not there; a block of two pieces
that fills a disk buffer, and one of a single piece of which a buffer holds two,
are both in the instance.

*library*: what is heard follows the preference; rows of lyrics show what is to
be sung; pictures stay inside their edges; objects hold what was put into them;
jobs are started in their minute; a table of machines that says it is unchanged
equals its file; a walk through a playlist skips no film; the first value of a
setting wins, in the type it has; the red-black tree keeps its colours and order
and the splay tree its order; films are decrypted however they are read, and a
digest does not depend on how the message is cut; logical partitions are found
where the disk has them; commands are obeyed once, by the function registered
for them; files of settings mean what is written in them; documents are printed
as they are written. Each part is as small as lets its cases happen: six
elements for the four cases of removal from a red-black tree, messages longer than
two blocks and lengths that overflow a word for MD5, chains that lead back to
themselves for partitions, buffers of three cells for the PostScript engine.

### Fairness

Weak fairness of a thread's next step: a thread that can run does. In
`BufferCache` the producer goes on producing, as the prefetch loop does, and the
consumer finishes what it has begun; in the queues the dequeuers go on, as the
service threads do. On the set-top box a song that was prepared is played, music
and films come to their end, but for a background film, which is repeated.
Requests from outside are never obliged to come. In `VodDiscovery` and
`StreamIOv2` a kind of packet that stays in flight arrives in the end; loss and
faults are bounded. No strong fairness is assumed. `services`, `library` and
`streamio_v3` check safety only.

### Findings

1. `pq_enqueue` with a callback stores one slot past the end, so an element is
   lost and a stale one is served (`pqueue/pqueue.c:64`).
2. `ftpput` sends the answer it has just read where it means to send the length
   of the file name (`mini_filexchg/mini_filexchg.c:621`).

Other departures are part of the models. A property that one of them would break
excepts the behaviours that go through it, and says so:

- the client of version 3 tests a data packet before it takes the mutex, takes
  a late answer to one OPENFILE for the answer to the next, and may change to
  a server it does not prefer (`response.c:301`, `:225`, `:101`);
- a request to fade that comes during a fade is lost (`holktv_stb.c:955`);
- the lyrics thread may read sentences that were freed (`lyrics_osd.c:569`);
- an FTP greeting of class 1 leaves every later reply one late
  (`ftpclient.c:571`);
- several calls of `x_object` leave a freed node in the chain
  (`x_object.c:713`), and a list of `xlist` without a length hangs in its first
  push (`xlist.c:151`);
- cron may sleep through a minute (`cron.c:130`);
- a configuration file that is refused inside a condition spoils the next one
  (`parser.y:18`), and an `else if` reads the value of another symbol;
- `tte_push_float` depends on the order in which C evaluates two operands
  (`ttpseng.c:398`); a form feed drops the line that is pending, and a last page
  of one unwritten row is not shown.

## Proofs

`RingProofs` proves for every number of buffers, every set of data and every
argument of `setbuf` that the type invariant, `ExclusiveBuffers`, `Accounted`,
`NoLostWakeup` and `PeekInStep` are invariants of `Spec`. None is inductive
alone. The inductive invariant `IInv` adds where the held buffers lie: going
round the ring from `rear`, the consumer's buffer, the ready ones, the
producer's and the free ones follow one another, and their numbers add up to
`num`; and what the ring looks like during a resize. From the same invariant
follows the refinement, `RingImplementsFifo`: the initial states map to those of
`FifoChannel`, and there is a lemma for every operation of the ring that says
which step of the channel it is, or that it is none. Assumptions: at least one
buffer is allocated and `setbuf` is called with integers.

Of the other ring, `xlist`, `RingProofs` proves the refinement: for every length
and all elements the specification of the list implies that of `Deque`, under
the mapping that reads the ring from `xfront + 1` on. The invariant is that the
two indexes and the count agree; each of push, pop, shift and unshift has a
lemma that says what it does to the mapped sequence. Assumption: the length is
not 0.

`ServiceProofs` proves of `ThreadSvc` that `OneThread`, `JoinsOnce` and
`FreedIsQuiet` hold, from an invariant that ties the flags to the places of thread
and owner. Nothing is assumed but that there is one owner.

Of `MQueue` it proves for any queues, numbers and finite set of dequeuers that
types are kept, that `front`, `rear` and `use_cnt` agree through holes and
overflows (`IndexesAgree`), and that while a dequeuer sleeps every entry has an
awake one on its way (`NoLostWakeup`, by counting the awake ones). For the way
the streaming servers use it, one queue with room for every number, it proves
that a number is in the queue once exactly when its location says so, and that
the queue never overflows (`EachOnce`, `RoomLeft`): the entries are an injection
into the numbers that are queued, so one that is not queued finds a place. This
is why `StbTable` and `StreamIOv1` may treat the queue as a sequence without
repetition.

`StreamIOv3Proofs` proves of `StbTable`, for any sizes of blocks, pieces, disk
reads and files, any stations and threads, that the station's buffer holds what
its file has at the disk block it is said to hold (`BufferInStep`, which is
inductive with the types), and from it `PacketsTruthful`. The argument has two
halves. A read that skips `lseek` begins where the block before ended, or past
the end of the file. And although `stbtbl_fill` takes the length of a piece from
the whole buffer and not from the block in it, a piece is never shorter than
what the block has of it. The lemmas `DivMod`, `Piece` and `BlockPlace` carry
the arithmetic. Assumptions: the sizes are positive, and a file has a size or
cannot be opened.

It then continues over the network, for any sizes, files, stations and service
threads: the block a reader collects is intact unless a packet was stored that
had ceased to pass the test (`BlocksIntact`). The inductive invariant `ReadInv`
follows the file's name round the protocol. The file a station has open is the
one the client named under that count (`ServedFile`); a station whose file could
not be opened has nothing to send (`ClosedEmpty`); so whatever is in flight, in
whatever order, says the truth about the name of its count (`NetInv`), and since
the client never reuses a count, what passes the test belongs to the file and
block of the present read (`Collected`), across the reopening in the middle of a
read too. Assumptions, besides those above: positions are natural numbers and
the client is one of the server's stations.

`StreamMpegProofs` proves, for any files, units, buffers,
reads and repeats and in every interleaving of the control thread, the player and
the prefetch thread, that until somebody asks the player to stop it is given the
file in order (`ReadInOrder`), and that when it is told that the file is over it
has been given all of it (`EndIsTheEnd`). No race is excepted: the ones called
`Slipped` happen in a close, and the reader of such a player is never inside one.
The argument has two layers. `Rules` says who may be inside which
call of the engine when: where the threads are when they call what, when the
prefetch thread may be joined, and that an engine opened or reset for a player
nobody has asked to stop has no prefetch thread left from before, is not cut off,
and is closed by nobody but that player. `PlayInv` adds the flow of data, with
`Chain` at its core: what the reader has kept, the buffer it has taken, the ready
ones and the one the prefetch thread holds follow one another in the file
(`Follows`) up to where the channel reads next, and the mark of the end travels
along as a buffer of no length. The layers need each other: a chain is kept only
because nobody reopens under it, and the places of the threads alone say nothing
about data. Assumptions: buffers, reads and the number of buffers are positive,
files have a size, repeats are integers, and there are two threads that call.

`NextFileProofs` proves `FilesAreSeamless` for files, buffers and read-ahead
caches of any size: a file opened as announced is given from its first block to
its last, whether `prefetch_queue_main` read a block ahead or `prefetch_main`
read it when it was due. The inductive invariant `NextInv` says where the caller
can be while the prefetch thread runs (`Places`), that the thread that reads
ahead has a next file from its lock to its close (`Reading`), whose file the
channel has open (`Owned`), that what was read ahead is a run of full blocks
from the first of the file that the flag announces (`Ahead`), and that the
prefetch thread stands where the next block is due (`Due`). What is excepted is
what `Seamless` excepts: a caller that opens another file than the one it
announced, and the two windows of `prefetch_queue_main`. Assumptions: a block is
not empty, files have a size.

`StreamIOv2Proofs` proves `StreamIsIntact` for any servers, files, sizes of blocks
and disk buffers and any number of packets, faults and calls: what a read gives
are the pieces of the open file that come next, and the end is given at the end.
The inductive invariant `V2Inv` has three parts. `ServerRight`: a server's disk
buffer holds the pieces of the file it has open at the block it is said to hold,
and the position in the file is the end of that block, so that a read without a
seek continues it. `NetSound`: a packet that carries the number of the present
open speaks of the present file, whoever sent it and however late it is, and the
data in it is the piece that its numbers name. `ClientRight`: at every place
inside an open or a read, nested opens on a new server included, the client's
counters say which pieces are still missing, and what is not missing is right.
What is excepted is what `StreamIntact` excepts. Assumptions: there is a size for
every file, and blocks and disk buffers are not empty.

`TransferProofs` proves two properties of the services. `SendersArePaired`, for
any number of nodes, slots and packets of `SendFile`: a sender connects to the
host that its own request made open a port. The inductive invariant `SendInv` says
that while a node waits at most one packet in the network is its own, the request
on its way out or the answer on its way back (`Single`, `Awaited`), and that this
packet goes to, or comes from, the address in the sender's slot (`Directed`,
`Served`). An answer that came twice or a slot that was registered anew is
excepted, as in `Paired`. Assumption: there is at least one slot.
`RepliesKeepStep`, for any file, greetings and number of calls of `FtpClient`:
between calls no reply is left to read. The inductive invariant `FtpInv` is that
in what a call has yet to do every step that the server answers is followed at
once by the read of one reply (`InTurn`), and that a whole reply is there exactly
when the next step reads. The lemma `ReadWhole` shows that `getreply` takes a
reply to its last line and no further, whatever lines it has; `CallsInTurn` that
every call is of this shape, and the lemmas before it that it stays so when steps
are passed over (the password when `USER` was enough) or a transfer is put behind
`initconn`. A server that announces a second greeting is excepted. Assumption:
a greeting has a code.

Only model-checked: liveness (the proof system does not handle fairness and
ENABLED here), everything that uses recursive operators (trees, RC4, partitions,
typesetting) or bitwise operations, what would need induction over data, version 1
of the protocol and the finding of servers in version 3, the set-top box's players
of music and lyrics, the public film, the services but for `StbTable`, `SendFile`
and `FtpClient`, and the tables of the library.

## Limits

Failures of malloc, of sockets and, but for `ThreadSvc`, of thread creation are
left out, as are log output and time (a time-out may come at any time, except in
cron, where time is what the part is about). `StreamIOv3` has one channel, while
in the code the channels share the `cut` flag. `StreamMpeg` has one control
thread; `holktv` calls `abort` from a second. When `Slipped` has happened the
sequence of ready buffers is no longer what the ring holds; no run checks
anything about those states. In `PsEngine` lengths are whole numbers, a decimal
point that `cmd_print` carries over from one field to the next is not modelled,
and documents with a wide character on a line that is one column wide, on which
the code does not end, are not among the inputs. In `SysConf` a list of more than
64 elements is not modelled.

## Not modelled

`PROJECT.json` has an entry for every part. Those without a module are:

- shells around a library or a driver: `bdb_hash`, the databases, `regexlib`,
  `snmpd_lib`, `ssl_lib` but for the mail agent, `fmplib`, the vendor's headers;
- pure I/O: serial lines, the console, `mcast`, `idehdsn`, timers, `md5sum`, the
  fonts of `ETen`;
- code that is not built or not finished: `buffer_cache_v1`, `rbmcast`;
- `autofree`, which never stores what it is given, and `vodstb`, a checksum.

Parts marked *partly* say in their note what is left out: as a rule queries that
change nothing, layout and printing, and the driver calls at the edges.

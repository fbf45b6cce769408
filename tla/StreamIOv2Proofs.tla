-------------------------- MODULE StreamIOv2Proofs --------------------------
(***************************************************************************)
(* What a read of the streaming client, version 2, gives, for any servers, *)
(* files, sizes of blocks and disk buffers, and any number of packets,     *)
(* faults and calls: the pieces of the open file, in order and to its end, *)
(* unless one of the mishaps that StreamIntact names has happened          *)
(* since the file was opened.                                              *)
(***************************************************************************)
EXTENDS StreamIOv2, TLAPS

PieceOf(f, at) == [file |-> f, at |-> at]
Piece == [file : Files \cup {None}, at : Nat]
Entry == [fd : Files \cup {None}, pos : Nat, blkcnt : Int,
          buf : [0 .. NetBuf * DiskFact - 1 -> Piece]]

\* An entry with a file open has read nothing of it yet, or its buffer has the
\* pieces of disk block blkcnt and the file stands behind them.
EntryRight(e, x) ==
    e.fd # None =>
        \/ e.blkcnt = -1 /\ e.pos = 0
        \/ /\ e.blkcnt \in Nat
           /\ e.pos = Shorter((e.blkcnt + 1) * x, Size[e.fd])
           /\ \A i \in 0 .. x - 1 : e.blkcnt * x + i < Size[e.fd] =>
                 e.buf[i] = PieceOf(e.fd, e.blkcnt * x + i)
ServerRight ==
    /\ param \in Parameters
    /\ sl \in [Servers -> Entry]
    /\ \A s \in Servers : EntryRight(sl[s], NetBuf * DiskFact)

\* A packet is of this open or an earlier one (c: the number of the open, f: its
\* file); of this one, it names this file, and its data is the piece that its
\* numbers say (x: a server served another file, n: the pieces in a block).
Numbered(m, c) == m.cnt \in Nat /\ m.cnt <= c
Named(m, c, f) == m.file \in Files /\ (m.cnt = c => m.file = f)
Sound(m, c, f, x, n) ==
    /\ m.cmd \in {"open", "opened"} => Numbered(m, c) /\ Named(m, c, f)
    /\ m.cmd = "error" => Numbered(m, c) /\ (m.cnt = c => Size[f] = 0)
    /\ m.cmd = "fetch" =>
         Numbered(m, c) /\ Named(m, c, f) /\ m.nd \in Nat /\ m.map \subseteq 0 .. n - 1
    /\ m.cmd = "data" =>
         /\ Numbered(m, c) /\ m.nd \in Nat /\ m.i \in 0 .. n - 1 /\ m.p \in Piece
         /\ m.cnt = c /\ x = 0 /\ m.nd * n + m.i < Size[f] =>
               m.p = PieceOf(f, m.nd * n + m.i)
NetSound == \A m \in net : Sound(m, filecnt, file, crossed, NetBuf)

ClientTypes ==
    /\ param \in Parameters
    /\ file \in Files \cup {None} /\ filecnt \in Nat /\ fsize \in Int
    /\ {need_filesize, abort, wrong, stale, early, crossed} \subseteq {0, 1}
    /\ map \subseteq 0 .. NetBuf - 1 /\ request_map \in Int
    /\ bidx \in Nat /\ blen \in Int /\ ndcnt \in Nat /\ ndtotal \in Nat
    /\ due \in Nat /\ rc \in Int
    /\ stack \in Seq({"open", "fetch"})
    /\ buffer \in [0 .. NetBuf - 1 -> Piece]
    /\ copying # <<>> => copying[1].i \in 0 .. NetBuf - 1 /\ copying[1].p \in Piece

\* Only the call itself is a fetch, the sendwaits it calls are opens; the size
\* of the file is awaited by an open.
Fetches == stack # <<>> /\ stack[1] = "fetch"
StackRight ==
    /\ pc = "idle" <=> stack = <<>>
    /\ \A i \in 2 .. Len(stack) : stack[i] = "open"
    /\ stack # <<>> => file \in Files
    /\ stack # <<>> /\ stack[1] = "open" => ndtotal = 0
    /\ Fetches => ndtotal > 0
    /\ need_filesize = 1 /\ abort = 0 => stack # <<>> /\ Op = "open"

\* n blocks of nb pieces hold a file of that size, and no fewer do.
Total(n, nb, size) == (n - 1) * nb < size /\ size <= n * nb
SizeRight ==
    /\ stale = 0 /\ need_filesize = 0 /\ file \in Files => fsize = Size[file]
    /\ ndtotal = 0 => blen = 0 /\ ndcnt = 0 /\ due = 0
    /\ ndtotal > 0 => file \in Files
    /\ stale = 0 /\ ndtotal > 0 => Total(ndtotal, NetBuf, Size[file])

\* S has k members; the pieces awaited are as many as are counted.
Members(k, S) ==
    \E f \in [1 .. k -> S] :
        /\ \A a, b \in 1 .. k : f[a] = f[b] => a = b
        /\ \A x \in S : \E a \in 1 .. k : f[a] = x
Counted == map = {} \/ (request_map \in Nat /\ Members(request_map, map))

\* Neither aborted nor excused, but for the last memcpy.
Clean == abort = 0 /\ stale = 0 /\ crossed = 0

\* Between calls the reader has had ndcnt blocks but for the blen pieces that
\* the buffer still holds from bidx on.
Between ==
    /\ stack = <<>> /\ abort = 0 /\ stale = 0 /\ ndtotal > 0 =>
          /\ blen \in Nat /\ ndcnt <= ndtotal
          /\ due + blen = Shorter(ndcnt * NetBuf, Size[file])
    /\ stack = <<>> /\ Clean /\ early = 0 /\ blen > 0 =>
          /\ map = {} /\ copying = <<>>
          /\ \A i \in 0 .. blen - 1 : buffer[bidx + i] = PieceOf(file, due + i)

\* In a fetch of block ndcnt, a piece that is not awaited is in the buffer or
\* about to be copied.
Fetching ==
    /\ Fetches /\ abort = 0 /\ stale = 0 =>
          /\ blen = 0 /\ ndcnt < ndtotal
          /\ due = ndcnt * NetBuf
          /\ rc = Shorter(NetBuf, Size[file] - due)
    /\ Fetches /\ Clean =>
          /\ \A i \in 0 .. rc - 1 :
                \/ i \in map
                \/ buffer[i] = PieceOf(file, due + i)
                \/ copying # <<>> /\ copying[1].i = i
          /\ copying # <<>> /\ copying[1].i \notin map /\ copying[1].i < rc =>
                copying[1].p = PieceOf(file, due + copying[1].i)

ClientRight ==
    ClientTypes /\ StackRight /\ SizeRight /\ Counted /\ Between /\ Fetching /\ StreamIntact

V2Inv == ServerRight /\ NetSound /\ ClientRight

\* What a step of anybody else does: one entry is another one that is right,
\* and the packets added are sound.
clientState ==
    <<param, file, filecnt, fsize, need_filesize, abort, map, request_map, buffer, bidx, blen,
      ndcnt, ndtotal, stack, rc, copying, due, wrong, stale, early>>
Outside ==
    /\ crossed' \in {crossed, 1}
    /\ \/ UNCHANGED sl
       \/ \E s \in Servers, e \in Entry :
             EntryRight(e, NetBuf * DiskFact) /\ sl' = [sl EXCEPT ![s] = e]
    /\ \A m \in net' : m \in net \/ Sound(m, filecnt, file, crossed', NetBuf)

----------------------------------------------------------------------------
(* Arithmetic of blocks.                                                   *)

\* The parameters are positive.
LEMMA Positive ==
  ASSUME param \in Parameters
  PROVE  NetBuf \in Nat \ {0} /\ DiskFact \in Nat \ {0}
BY V2Assumption, Zenon DEF NetBuf, DiskFact

\* Quotient and remainder.
LEMMA DivMod ==
  ASSUME NEW a \in Nat, NEW d \in Nat \ {0}
  PROVE  a \div d \in Nat /\ a % d \in 0 .. d - 1 /\ a = d * (a \div d) + (a % d)
OBVIOUS

\* A positive product.
LEMMA Product == ASSUME NEW a \in Nat, NEW b \in Nat PROVE a * b \in Nat /\ a * b >= 0
OBVIOUS

\* The number of blocks that cli_openfile computes.
LEMMA Blocks ==
  ASSUME NEW size \in Nat, size > 0, NEW nb \in Nat \ {0}
  PROVE  LET n == (size + nb - 1) \div nb IN n \in Nat /\ n > 0 /\ Total(n, nb, size)
<1> DEFINE n == (size + nb - 1) \div nb
           r == (size + nb - 1) % nb
<1>1. size + nb - 1 \in Nat OBVIOUS
<1>2. n \in Nat /\ r \in 0 .. nb - 1 /\ size + nb - 1 = nb * n + r BY <1>1, DivMod, Zenon
<1> HIDE DEF n, r
<1>3. n > 0 BY <1>2
<1>4. (n - 1) * nb = nb * n - nb /\ n * nb = nb * n BY <1>2
<1>5. Total(n, nb, size) BY <1>2, <1>4 DEF Total
<1> QED BY <1>2, <1>3, <1>5, Zenon DEF n

\* A block before the last ends where the next begins, the last one where the
\* file ends.
Fits(nd, nb, size) ==
    /\ nd * nb < size
    /\ Shorter(nb, size - nd * nb) \in 1 .. nb
    /\ nd * nb + Shorter(nb, size - nd * nb) = Shorter((nd + 1) * nb, size)
LEMMA BlockFits ==
  ASSUME NEW n \in Nat, NEW nb \in Nat \ {0}, NEW size \in Nat, Total(n, nb, size),
         NEW nd \in Nat, nd < n
  PROVE  Fits(nd, nb, size)
<1>1. nd * nb \in Nat /\ n * nb \in Nat BY Product, Zenon
<1>2. (n - 1 - nd) * nb \in Nat BY Product
<1>3. (n - 1 - nd) * nb = (n - 1) * nb - nd * nb /\ (nd + 1) * nb = nd * nb + nb OBVIOUS
<1>4. (n - 1) * nb \in Int OBVIOUS
<1>5. nd * nb < size BY <1>1, <1>2, <1>3, <1>4 DEF Total
<1> QED BY <1>1, <1>3, <1>5 DEF Fits, Shorter

\* After as many blocks as there are the file has ended.
LEMMA BlocksEnd ==
  ASSUME NEW n \in Nat, NEW nb \in Nat \ {0}, NEW size \in Nat, Total(n, nb, size),
         NEW nd \in Nat, nd >= n
  PROVE  Shorter(nd * nb, size) = size
<1>1. nd * nb \in Nat /\ n * nb \in Nat BY Product, Zenon
<1>2. (nd - n) * nb \in Nat BY Product
<1>3. (nd - n) * nb = nd * nb - n * nb OBVIOUS
<1> QED BY <1>1, <1>2, <1>3 DEF Total, Shorter

\* Where piece i of a block is in the disk buffer, and in the file.
LEMMA Placed ==
  ASSUME NEW q \in Nat, NEW d \in Nat \ {0}, NEW r \in 0 .. d - 1,
         NEW n \in Nat \ {0}, NEW i \in 0 .. n - 1
  PROVE  /\ r * n + i \in 0 .. n * d - 1
         /\ q * (n * d) + (r * n + i) = (d * q + r) * n + i
<1>1. r * n \in Nat /\ n * d \in Nat BY Product
<1>2. (d - 1 - r) * n \in Nat BY Product
<1>3. (d - 1 - r) * n = n * d - n - r * n OBVIOUS
<1>4. r * n + i \in 0 .. n * d - 1 BY <1>1, <1>2, <1>3
<1>5. q * (n * d) + (r * n + i) = (d * q + r) * n + i OBVIOUS
<1> QED BY <1>4, <1>5, Zenon

----------------------------------------------------------------------------
(* The disk buffer of an entry.                                            *)

\* Reading disk block blk, from its place or where the file stands behind the
\* block before it, makes the buffer right.
LEMMA FilledRight ==
  ASSUME param \in Parameters, NEW e \in Entry, e.fd # None, NEW blk \in Nat, NEW pos \in Nat,
         \/ pos = blk * (NetBuf * DiskFact)
         \/ Size[e.fd] <= blk * (NetBuf * DiskFact) /\ pos = Size[e.fd]
  PROVE  /\ Filled(e, blk, pos) \in Entry /\ EntryRight(Filled(e, blk, pos), NetBuf * DiskFact)
         /\ Filled(e, blk, pos).fd = e.fd /\ Filled(e, blk, pos).blkcnt = blk
<1> DEFINE x == NetBuf * DiskFact
           f == Filled(e, blk, pos)
           b == [i \in DOMAIN e.buf |->
                    IF pos + i < Size[e.fd] THEN PieceOf(e.fd, pos + i) ELSE e.buf[i]]
           p == IF pos + x < Size[e.fd] THEN pos + x ELSE Size[e.fd]
<1>1. x \in Nat /\ x > 0 BY Positive, Product
<1>2. e.fd \in Files /\ Size[e.fd] \in Nat /\ e.buf \in [0 .. x - 1 -> Piece] /\ e.blkcnt \in Int
  BY V2Assumption, Zenon DEF Entry
<1>3. f = [fd |-> e.fd, pos |-> p, blkcnt |-> blk, buf |-> b]
  <2>1. f = [e EXCEPT !.pos = p, !.blkcnt = blk, !.buf = b] BY Zenon DEF Filled, PieceOf
  <2> HIDE DEF f, p, b
  <2> QED BY <2>1, Zenon DEF Entry
<1>4. blk * x \in Nat /\ (blk + 1) * x = blk * x + x BY <1>1, Product
<1> HIDE DEF x
<1>5. p \in Nat /\ p = Shorter((blk + 1) * x, Size[e.fd])
  BY <1>1, <1>2, <1>4 DEF x, Shorter
<1>6. b \in [0 .. x - 1 -> Piece] BY <1>1, <1>2 DEF Piece, PieceOf
<1>7. ASSUME NEW i \in 0 .. x - 1, blk * x + i < Size[e.fd]
      PROVE  b[i] = PieceOf(e.fd, blk * x + i)
  <2>1. pos = blk * x BY <1>1, <1>2, <1>4, <1>7 DEF x
  <2> QED BY <1>2, <1>7, <2>1, Zenon
<1> HIDE DEF b, p, f
<1>8. f \in Entry BY <1>2, <1>3, <1>5, <1>6 DEF Entry, x
<1>9. f.fd = e.fd /\ f.blkcnt = blk /\ f.pos = p /\ f.buf = b BY <1>3, Zenon
<1>10. EntryRight(f, x) BY <1>5, <1>7, <1>9, Zenon DEF EntryRight
<1> QED BY <1>8, <1>9, <1>10, Zenon DEF f, x

\* remote_fetch_file keeps the buffer right, whatever block is asked for.
LEMMA BufferedRight ==
  ASSUME param \in Parameters, NEW e \in Entry, e.fd # None,
         EntryRight(e, NetBuf * DiskFact), NEW nd \in Nat
  PROVE  LET b == Buffered(e, nd) IN
         /\ b \in Entry /\ EntryRight(b, NetBuf * DiskFact)
         /\ b.fd = e.fd /\ b.blkcnt = nd \div DiskFact
<1> DEFINE x == NetBuf * DiskFact
           blk == nd \div DiskFact
           pos == IF blk = e.blkcnt + 1 THEN e.pos ELSE blk * NetBuf * DiskFact
<1>1. NetBuf \in Nat \ {0} /\ DiskFact \in Nat \ {0} BY Positive, Zenon
<1>2. blk \in Nat BY <1>1, DivMod, Zenon
<1>3. CASE blk = e.blkcnt BY <1>3, Zenon DEF Buffered
<1>4. CASE blk # e.blkcnt
  <2>1. Buffered(e, nd) = Filled(e, blk, pos) BY <1>4, Zenon DEF Buffered
  <2> HIDE DEF blk
  <2>2. blk * NetBuf * DiskFact = blk * x /\ blk * x \in Nat /\ x \in Nat BY <1>1, <1>2, Product
  <2>3. e.fd \in Files /\ Size[e.fd] \in Nat BY V2Assumption, Zenon DEF Entry
  <2>4. pos \in Nat /\ (pos = blk * x \/ (Size[e.fd] <= blk * x /\ pos = Size[e.fd]))
    <3>1. CASE blk # e.blkcnt + 1 BY <2>2, <3>1, Zenon
    <3>2. CASE blk = e.blkcnt + 1 /\ e.blkcnt = -1 /\ e.pos = 0
      <4>1. blk = 0 /\ blk * x = 0 BY <2>2, <3>2
      <4> QED BY <3>2, <4>1
    <3>3. CASE blk = e.blkcnt + 1 /\ e.pos = Shorter((e.blkcnt + 1) * x, Size[e.fd])
      <4>1. pos = Shorter(blk * x, Size[e.fd]) BY <3>3, Zenon
      <4> HIDE DEF x, pos
      <4> QED BY <2>2, <2>3, <4>1 DEF Shorter
    <3> QED BY <3>1, <3>2, <3>3, Zenon DEF EntryRight
  <2>5. /\ Filled(e, blk, pos) \in Entry /\ EntryRight(Filled(e, blk, pos), NetBuf * DiskFact)
        /\ Filled(e, blk, pos).fd = e.fd /\ Filled(e, blk, pos).blkcnt = blk
    BY <1>2, <2>4, FilledRight
  <2> QED BY <2>1, <2>5 DEF blk
<1> QED BY <1>3, <1>4, Zenon

\* The piece that remote_fetch_file sends is the one its number says.
LEMMA Served ==
  ASSUME param \in Parameters, NEW e \in Entry, e.fd # None,
         EntryRight(e, NetBuf * DiskFact), NEW nd \in Nat, NEW i \in 0 .. NetBuf - 1
  PROVE  LET p == Buffered(e, nd).buf[(nd % DiskFact) * NetBuf + i] IN
         /\ p \in Piece
         /\ nd * NetBuf + i < Size[e.fd] => p = PieceOf(e.fd, nd * NetBuf + i)
<1> DEFINE x == NetBuf * DiskFact
           b == Buffered(e, nd)
           q == nd \div DiskFact
           r == nd % DiskFact
           k == r * NetBuf + i
<1>1. NetBuf \in Nat \ {0} /\ DiskFact \in Nat \ {0} BY Positive, Zenon
<1>2. q \in Nat /\ r \in 0 .. DiskFact - 1 /\ nd = DiskFact * q + r BY <1>1, DivMod, Zenon
<1>3. b \in Entry /\ EntryRight(b, x) /\ b.fd = e.fd /\ b.blkcnt = q BY BufferedRight, Zenon
<1> HIDE DEF q, r, b
<1>4. k \in 0 .. x - 1 /\ q * x + k = nd * NetBuf + i BY <1>1, <1>2, Placed
<1> HIDE DEF x, k
<1>5. b.buf[k] \in Piece BY <1>3, <1>4, Zenon DEF Entry, x
<1>6. q # -1 BY <1>2
<1>7. nd * NetBuf + i < Size[e.fd] => b.buf[k] = PieceOf(e.fd, nd * NetBuf + i)
  BY <1>3, <1>4, <1>6, Zenon DEF EntryRight
<1> QED BY <1>5, <1>7, Zenon DEF b, k, r

----------------------------------------------------------------------------
(* What a step leaves alone.                                               *)

\* A packet stays sound when a server serves another file, and when the next
\* file is opened.
LEMMA SoundLater ==
  ASSUME NEW m, NEW c \in Nat, NEW f, NEW x, NEW n, NEW c2 \in Nat, NEW f2, NEW x2,
         Sound(m, c, f, x, n), (c2 = c /\ f2 = f /\ x2 \in {x, 1}) \/ c2 > c
  PROVE  Sound(m, c2, f2, x2, n)
BY DEF Sound, Numbered, Named

\* Put adds no more than it is given.
LEMMA PutAdds == ASSUME NEW n, NEW ms PROVE Put(n, ms) \subseteq n \cup ms
BY Zenon DEF Put

\* The packets on the way stay sound if those a step adds are.
LEMMA NetStays ==
  ASSUME NetSound, filecnt \in Nat, param' = param,
         \/ filecnt' = filecnt /\ file' = file /\ crossed' \in {crossed, 1}
         \/ filecnt' = filecnt + 1,
         \A m \in net' : m \in net \/ Sound(m, filecnt', file', crossed', NetBuf)
  PROVE  NetSound'
<1>1. ASSUME NEW m \in net, Sound(m, filecnt, file, crossed, NetBuf)
      PROVE  Sound(m, filecnt', file', crossed', NetBuf)
  BY <1>1, SoundLater
<1> QED BY <1>1, Zenon DEF NetSound, NetBuf

\* The entries stay right while nobody touches them, and if the one that is
\* touched does.
LEMMA ServerStays ==
  ASSUME ServerRight, UNCHANGED param,
         \/ UNCHANGED sl
         \/ \E s \in Servers, e \in Entry :
               EntryRight(e, NetBuf * DiskFact) /\ sl' = [sl EXCEPT ![s] = e]
  PROVE  ServerRight'
<1>1. NetBuf' = NetBuf /\ DiskFact' = DiskFact BY Zenon DEF NetBuf, DiskFact
<1>2. Entry' = Entry BY <1>1, Zenon DEF Entry
<1>3. CASE UNCHANGED sl BY <1>1, <1>2, <1>3, Zenon DEF ServerRight
<1>4. ASSUME NEW s \in Servers, NEW e \in Entry, EntryRight(e, NetBuf * DiskFact),
             sl' = [sl EXCEPT ![s] = e]
      PROVE  ServerRight'
  <2>1. sl' \in [Servers -> Entry] BY <1>4, Zenon DEF ServerRight
  <2>2. \A t \in Servers : EntryRight(sl'[t], NetBuf * DiskFact) BY <1>4, Zenon DEF ServerRight
  <2> QED BY <1>1, <1>2, <2>1, <2>2, Zenon DEF ServerRight
<1> QED BY <1>3, <1>4, Zenon

\* The client stays right while only its flags about servers change, and when
\* a server serves another file.
LEMMA ClientStays ==
  ASSUME ClientRight, UNCHANGED clientState, crossed' \in {crossed, 1},
         pc' = "idle" <=> pc = "idle"
  PROVE  ClientRight'
<1> USE DEF ClientRight, clientState
<1>1. ClientTypes' BY Zenon DEF ClientTypes, NetBuf
<1>2. StackRight' BY Zenon DEF StackRight, Fetches, Op
<1>3. SizeRight' /\ Counted' BY Zenon DEF SizeRight, Counted, NetBuf
<1>4. Clean' => Clean BY DEF Clean
<1>5. Between' BY <1>4, Zenon DEF Between, NetBuf
<1>6. Fetching' BY <1>4, Zenon DEF Fetching, Fetches, NetBuf
<1>7. StreamIntact' BY Zenon DEF StreamIntact
<1> QED BY <1>1, <1>2, <1>3, <1>5, <1>6, <1>7, Zenon

\* Steps that leave the reader's state alone.
LEMMA OutsideStep ==
  ASSUME V2Inv, Outside, UNCHANGED clientState, pc' = "idle" <=> pc = "idle"
  PROVE  V2Inv'
<1> USE DEF V2Inv
<1>1. UNCHANGED <<param, file, filecnt>> BY Zenon DEF clientState
<1>2. ServerRight' BY <1>1, ServerStays, Zenon DEF Outside
<1>3. ClientRight' BY ClientStays, Zenon DEF Outside
<1>4. NetSound' BY <1>1, NetStays, Zenon DEF Outside, ClientRight, ClientTypes
<1> QED BY <1>2, <1>3, <1>4, Zenon

\* Steps of the client that send nothing.
LEMMA ClientStep ==
  ASSUME V2Inv, net' \subseteq net, UNCHANGED <<param, sl, file, filecnt, crossed>>, ClientRight'
  PROVE  V2Inv'
<1> USE DEF V2Inv
<1>1. ServerRight' BY ServerStays, Zenon
<1>2. NetSound' BY NetStays, Zenon DEF ClientRight, ClientTypes
<1> QED BY <1>1, <1>2, Zenon

----------------------------------------------------------------------------
(* The servers, and what goes wrong.                                       *)

LEMMA MainStep == ASSUME V2Inv, NEW s \in Servers, MainReceives(s) PROVE V2Inv'
<1>1. UNCHANGED clientState /\ UNCHANGED <<sl, pc, crossed>>
  BY Zenon DEF MainReceives, clientState, fileVars, blockVars, readerVars, history
<1>2. PICK m \in net : MainServes(s, m) BY Zenon DEF MainReceives
<1>3. \A k \in net' : k \in net \/ k.cmd \in {"found", "port"}
  <2>1. CASE stop_services[s] = 1 BY <1>2, <2>1, Zenon DEF MainServes, MainEnds
  <2>2. CASE stop_services[s] # 1
    <3> DEFINE a == IF m.cmd = "find" THEN [cmd |-> "found", s |-> s]
                    ELSE [cmd |-> "port", s |-> s, inc |-> inc[s]]
    <3>1. net' = Put(net \ {m}, {a}) BY <1>2, <2>2, Zenon DEF MainServes
    <3>2. a.cmd \in {"found", "port"} BY Zenon
    <3> HIDE DEF a
    <3> QED BY <3>1, <3>2, PutAdds
  <2> QED BY <2>1, <2>2, Zenon
<1>4. Outside BY <1>1, <1>3, Zenon DEF Outside, Sound
<1> QED BY <1>1, <1>4, OutsideStep, Zenon

\* Faults lose packets and entries, and restart servers.
LEMMA FaultStep == ASSUME V2Inv, Faults PROVE V2Inv'
<1> USE DEF Faults, Lose, Crash, Restart, BadPacket, stiov2_pause
<1>1. UNCHANGED clientState /\ UNCHANGED <<pc, crossed>> /\ net' \subseteq net
  BY Zenon DEF clientState, faultRest, fileVars, blockVars, readerVars, history, MainEnds
<1>2. UNCHANGED sl \/ \E s \in Servers : sl' = [sl EXCEPT ![s] = NoFile] BY Zenon
<1>3. NoFile \in Entry /\ NoFile.fd = None
  <2>1. Junk \in Piece BY Zenon DEF Junk, Piece
  <2> QED BY <2>1 DEF NoFile, Entry
<1>4. Outside BY <1>1, <1>2, <1>3, Zenon DEF Outside, EntryRight
<1> QED BY <1>1, <1>4, OutsideStep, Zenon

\* A packet is taken, and the answers added are sound.
LEMMA AnswerOutside ==
  ASSUME NEW n, n \subseteq net, NEW ms, net' = Put(n, ms), crossed' \in {crossed, 1},
         \A k \in ms : Sound(k, filecnt, file, crossed', NetBuf),
         \/ UNCHANGED sl
         \/ \E s \in Servers, e \in Entry :
               EntryRight(e, NetBuf * DiskFact) /\ sl' = [sl EXCEPT ![s] = e]
  PROVE  Outside
<1>1. \A k \in net' : k \in net \/ k \in ms BY PutAdds, Zenon
<1> QED BY <1>1, Zenon DEF Outside

\* remote_openfile answers with the file or its absence.
LEMMA EntryOpens ==
  ASSUME V2Inv, NEW s \in Servers, NEW m \in net, m.cmd = "open", remote_openfile(s, m)
  PROVE  Outside
<1>1. Numbered(m, filecnt) /\ Named(m, filecnt, file) BY Zenon DEF V2Inv, NetSound, Sound
<1>2. sl[s] \in Entry BY Zenon DEF V2Inv, ServerRight
<1>3. CASE Size[m.file] > 0
  <2> DEFINE a == [cmd |-> "opened", file |-> m.file, cnt |-> m.cnt]
             e == [NoFile EXCEPT !.fd = m.file, !.buf = sl[s].buf]
  <2>1. sl' = [sl EXCEPT ![s] = e] /\ net' = Put(net \ {m}, {a}) /\ UNCHANGED crossed
    BY <1>3, Zenon DEF remote_openfile
  <2>2. e = [fd |-> m.file, pos |-> 0, blkcnt |-> -1, buf |-> sl[s].buf]
    <3>1. PICK b : NoFile = [fd |-> None, pos |-> 0, blkcnt |-> -1, buf |-> b]
      BY Zenon DEF NoFile
    <3>2. e = [[fd |-> None, pos |-> 0, blkcnt |-> -1, buf |-> b] EXCEPT
               !.fd = m.file, !.buf = sl[s].buf]
      BY <3>1, Zenon
    <3> HIDE DEF e
    <3> QED BY <3>2, Zenon
  <2>3. Sound(a, filecnt, file, crossed', NetBuf) BY <1>1, Zenon DEF Sound, Numbered, Named
  <2> HIDE DEF a, e
  <2>4. m.file \in Files /\ sl[s].buf \in [0 .. NetBuf * DiskFact - 1 -> Piece]
    BY <1>1, <1>2, Zenon DEF Entry, Named
  <2>5. e \in Entry /\ e.blkcnt = -1 /\ e.pos = 0 BY <2>2, <2>4 DEF Entry
  <2>6. EntryRight(e, NetBuf * DiskFact) BY <2>5, Zenon DEF EntryRight
  <2> QED BY <2>1, <2>3, <2>5, <2>6, AnswerOutside, Zenon
<1>4. CASE ~(Size[m.file] > 0)
  <2> DEFINE a == [cmd |-> "error", cnt |-> m.cnt]
             e == [sl[s] EXCEPT !.fd = None]
  <2>1. sl' = [sl EXCEPT ![s] = e] /\ net' = Put(net \ {m}, {a}) /\ UNCHANGED crossed
    BY <1>4, Zenon DEF remote_openfile
  <2>2. e \in Entry /\ e.fd = None BY <1>2, Zenon DEF Entry
  <2>3. Size[m.file] = 0 BY <1>1, <1>4, V2Assumption DEF Named
  <2>4. Sound(a, filecnt, file, crossed', NetBuf) BY <1>1, <2>3, Zenon DEF Sound, Numbered, Named
  <2> HIDE DEF a, e
  <2>5. EntryRight(e, NetBuf * DiskFact) BY <2>2, Zenon DEF EntryRight
  <2> QED BY <2>1, <2>2, <2>4, <2>5, AnswerOutside, Zenon
<1> QED BY <1>3, <1>4, Zenon

\* The data that remote_fetch_file sends is what the packet's numbers say,
\* unless another file is open.
LEMMA DataSound ==
  ASSUME V2Inv, NEW e \in Entry, e.fd # None, EntryRight(e, NetBuf * DiskFact),
         NEW m, Sound(m, filecnt, file, crossed, NetBuf), m.cmd = "fetch", NEW i \in m.map,
         NEW x, x = IF e.fd # m.file THEN 1 ELSE crossed
  PROVE  Sound([cmd |-> "data", cnt |-> m.cnt, nd |-> m.nd, i |-> i,
                p |-> Buffered(e, m.nd).buf[(m.nd % DiskFact) * NetBuf + i]],
               filecnt, file, x, NetBuf)
<1> DEFINE p == Buffered(e, m.nd).buf[(m.nd % DiskFact) * NetBuf + i]
           a == [cmd |-> "data", cnt |-> m.cnt, nd |-> m.nd, i |-> i, p |-> p]
<1>1. /\ Numbered(m, filecnt) /\ Named(m, filecnt, file)
      /\ m.nd \in Nat /\ i \in 0 .. NetBuf - 1
  BY Zenon DEF Sound
<1>2. p \in Piece /\ (m.nd * NetBuf + i < Size[e.fd] => p = PieceOf(e.fd, m.nd * NetBuf + i))
  BY <1>1, Served, Zenon DEF V2Inv, ServerRight
<1> HIDE DEF p
<1>3. m.cnt = filecnt /\ x = 0 => e.fd = file BY <1>1 DEF Named
<1>4. a.cmd = "data" /\ a.cnt = m.cnt /\ a.nd = m.nd /\ a.i = i /\ a.p = p BY Zenon
<1> HIDE DEF a
<1>5. Sound(a, filecnt, file, x, NetBuf)
  BY <1>1, <1>2, <1>3, <1>4, Zenon DEF Sound, Numbered
<1> QED BY <1>5, Zenon DEF a, p

LEMMA EntryFetches ==
  ASSUME V2Inv, NEW s \in Servers, NEW m \in net, m.cmd = "fetch", remote_fetch_file(s, m)
  PROVE  Outside
<1>1. CASE sl[s].fd = None
  <2> DEFINE a == [cmd |-> "reopen"]
  <2>1. net' = Put(net \ {m}, {a}) /\ UNCHANGED <<sl, crossed>> BY <1>1, Zenon DEF remote_fetch_file
  <2>2. Sound(a, filecnt, file, crossed', NetBuf) BY Zenon DEF Sound
  <2> HIDE DEF a
  <2> QED BY <2>1, <2>2, AnswerOutside, Zenon
<1>2. CASE sl[s].fd # None
  <2> DEFINE e == Buffered(sl[s], m.nd)
             ms == {[cmd |-> "data", cnt |-> m.cnt, nd |-> m.nd, i |-> i,
                     p |-> e.buf[(m.nd % DiskFact) * NetBuf + i]] : i \in m.map}
  <2>1. /\ sl' = [sl EXCEPT ![s] = e] /\ net' = Put(net \ {m}, ms)
        /\ crossed' = IF e.fd # m.file THEN 1 ELSE crossed
    BY <1>2, Zenon DEF remote_fetch_file
  <2>2. /\ sl[s] \in Entry /\ EntryRight(sl[s], NetBuf * DiskFact) /\ param \in Parameters
        /\ Sound(m, filecnt, file, crossed, NetBuf)
    BY Zenon DEF V2Inv, ServerRight, NetSound
  <2>3. m.nd \in Nat BY <2>2, Zenon DEF Sound
  <2>4. e \in Entry /\ EntryRight(e, NetBuf * DiskFact) /\ e.fd = sl[s].fd
    BY <1>2, <2>2, <2>3, BufferedRight, Zenon
  <2>5. crossed' = IF sl[s].fd # m.file THEN 1 ELSE crossed BY <2>1, <2>4, Zenon
  <2>6. \A k \in ms : Sound(k, filecnt, file, crossed', NetBuf)
    BY <1>2, <2>2, <2>5, DataSound, Zenon
  <2> HIDE DEF ms, e
  <2>7. crossed' \in {crossed, 1} BY <2>5, Zenon
  <2> QED BY <2>1, <2>4, <2>6, <2>7, AnswerOutside, Zenon
<1> QED BY <1>1, <1>2, Zenon

LEMMA EntryStep == ASSUME V2Inv, NEW s \in Servers, EntryReceives(s) PROVE V2Inv'
<1>1. UNCHANGED clientState /\ UNCHANGED pc
  BY Zenon DEF EntryReceives, clientState, fileVars, blockVars, readerVars
<1>2. PICK m \in net :
        /\ m.cmd \in {"open", "fetch"}
        /\ IF stop_services[s] = 1 THEN net' = net \ {m} /\ UNCHANGED <<sl, crossed>>
           ELSE IF m.cmd = "open" THEN remote_openfile(s, m) ELSE remote_fetch_file(s, m)
  BY Zenon DEF EntryReceives
<1>3. stop_services[s] = 1 => Outside BY <1>2, Zenon DEF Outside
<1>4. stop_services[s] # 1 => Outside BY <1>2, EntryOpens, EntryFetches, Zenon
<1> QED BY <1>1, <1>3, <1>4, OutsideStep, Zenon

----------------------------------------------------------------------------
(* client_main.                                                            *)

\* A piece that is taken is one fewer to wait for.
LEMMA OneLess ==
  ASSUME NEW k \in Nat, NEW S, Members(k, S), NEW x \in S
  PROVE  k - 1 \in Nat /\ Members(k - 1, S \ {x})
<1>1. PICK f \in [1 .. k -> S] : /\ \A a, b \in 1 .. k : f[a] = f[b] => a = b
                                 /\ \A y \in S : \E a \in 1 .. k : f[a] = y
  BY Zenon DEF Members
<1>2. PICK j \in 1 .. k : f[j] = x BY <1>1, Zenon
<1> DEFINE g == [a \in 1 .. k - 1 |-> IF a = j THEN f[k] ELSE f[a]]
<1>3. g \in [1 .. k - 1 -> S \ {x}] BY <1>1, <1>2
<1>4. \A a, b \in 1 .. k - 1 : g[a] = g[b] => a = b BY <1>1, <1>2
<1>5. ASSUME NEW y \in S \ {x} PROVE \E a \in 1 .. k - 1 : g[a] = y
  <2>1. PICK a \in 1 .. k : f[a] = y BY <1>1, Zenon
  <2>2. CASE a = k
    <3>1. j \in 1 .. k - 1 /\ g[j] = y BY <1>2, <2>1, <2>2
    <3> QED BY <3>1, Zenon
  <2>3. CASE a # k
    <3>1. a \in 1 .. k - 1 /\ g[a] = y BY <1>2, <2>1, <2>3
    <3> QED BY <3>1, Zenon
  <2> QED BY <2>2, <2>3, Zenon
<1> HIDE DEF g
<1>6. k - 1 \in Nat BY <1>2
<1>7. Members(k - 1, S \ {x}) BY <1>3, <1>4, <1>5, Zenon DEF Members
<1> QED BY <1>6, <1>7, Zenon

\* The first n numbers.
LEMMA FirstMembers == ASSUME NEW n \in Nat PROVE Members(n, 0 .. n - 1)
<1> DEFINE f == [a \in 1 .. n |-> a - 1]
<1>1. f \in [1 .. n -> 0 .. n - 1] /\ (\A a, b \in 1 .. n : f[a] = f[b] => a = b) OBVIOUS
<1>2. ASSUME NEW y \in 0 .. n - 1 PROVE \E a \in 1 .. n : f[a] = y
  <2>1. y + 1 \in 1 .. n /\ f[y + 1] = y OBVIOUS
  <2> QED BY <2>1, Zenon
<1> HIDE DEF f
<1> QED BY <1>1, <1>2, Zenon DEF Members

\* No piece is awaited when the count is zero.
LEMMA NoneLeft == ASSUME Counted, request_map = 0 PROVE map = {}
BY DEF Counted, Members

\* The answer to an open gives the size of the open file, or is of another open.
LEMMA OpenAnswer ==
  ASSUME ClientRight, NEW m, Sound(m, filecnt, file, crossed, NetBuf),
         m.cmd \in {"opened", "error"}, ResponseOpen(m),
         UNCHANGED <<param, file, filecnt, abort, buffer, bidx, blen, ndcnt, ndtotal>>,
         UNCHANGED <<stack, pc, rc, due, wrong, early, crossed>>
  PROVE  ClientRight'
<1> USE DEF ClientRight
<1>1. need_filesize' = 0 /\ UNCHANGED <<map, request_map, copying>> BY Zenon DEF ResponseOpen
<1>2. /\ fsize' = IF need_filesize = 0 THEN fsize ELSE IF m.cmd = "opened" THEN Size[m.file] ELSE 0
      /\ stale' = IF need_filesize = 1 /\ m.cnt # filecnt THEN 1 ELSE stale
  BY Zenon DEF ResponseOpen
<1>3. stale' \in {0, 1} /\ (stale' = 0 => stale = 0) /\ (Clean' => Clean)
  BY <1>2, Zenon DEF ClientTypes, Clean
<1>4. m.cmd = "opened" => m.file \in Files BY Zenon DEF Sound, Named
<1>5. fsize' \in Int BY <1>2, <1>4, V2Assumption DEF ClientTypes
<1>6. ClientTypes' BY <1>1, <1>3, <1>5, Zenon DEF ClientTypes, NetBuf
<1>7. StackRight' BY <1>1 DEF StackRight, Fetches, Op
<1>8. stale' = 0 /\ file \in Files => fsize' = Size[file]
  <2>1. CASE need_filesize = 0 BY <1>2, <2>1 DEF SizeRight
  <2>2. CASE need_filesize = 1 /\ m.cnt = filecnt BY <1>2, <2>2 DEF Sound, Named
  <2> QED BY <1>2, <2>1, <2>2, Zenon DEF ClientTypes
<1>9. SizeRight' BY <1>3, <1>8, Zenon DEF SizeRight, NetBuf
<1>10. Counted' BY <1>1, Zenon DEF Counted
<1>11. Between' BY <1>1, <1>3, Zenon DEF Between, NetBuf
<1>12. Fetching' BY <1>1, <1>3, Zenon DEF Fetching, Fetches, NetBuf
<1>13. StreamIntact' BY <1>2, Zenon DEF StreamIntact
<1> QED BY <1>6, <1>7, <1>9, <1>10, <1>11, <1>12, <1>13, Zenon

\* Where a fetch is: the block begins before the end of the file and the pieces
\* asked for end with it or with the file.
LEMMA BlockFetched ==
  ASSUME ClientTypes, StackRight, SizeRight, Fetching, Fetches, abort = 0, stale = 0
  PROVE  /\ file \in Files /\ Size[file] \in Nat /\ due = ndcnt * NetBuf
         /\ rc \in 1 .. NetBuf /\ due + rc <= Size[file]
         /\ due + rc = Shorter((ndcnt + 1) * NetBuf, Size[file])
<1>1. NetBuf \in Nat \ {0} BY Positive, Zenon DEF ClientTypes
<1>2. /\ ndcnt < ndtotal /\ due = ndcnt * NetBuf /\ rc = Shorter(NetBuf, Size[file] - due)
      /\ ndtotal \in Nat /\ ndcnt \in Nat /\ due \in Nat
      /\ file \in Files /\ Total(ndtotal, NetBuf, Size[file])
  BY Zenon DEF Fetching, SizeRight, StackRight, ClientTypes
<1>3. Size[file] \in Nat BY <1>2, V2Assumption, Zenon
<1>4. Fits(ndcnt, NetBuf, Size[file]) BY <1>1, <1>2, <1>3, BlockFits, Zenon
<1>5. rc \in 1 .. NetBuf /\ due + rc = Shorter((ndcnt + 1) * NetBuf, Size[file])
  BY <1>2, <1>4, Zenon DEF Fits
<1>6. rc <= Size[file] - due BY <1>1, <1>2, <1>3 DEF Shorter
<1> QED BY <1>1, <1>2, <1>3, <1>5, <1>6

\* Data that is taken is the awaited piece, or the answer to another fetch.
LEMMA FetchAnswer ==
  ASSUME ClientRight, NEW m, Sound(m, filecnt, file, crossed, NetBuf), m.cmd = "data",
         request_map > 0, m.i \in map, copying = <<>>, ResponseFetch(m),
         UNCHANGED <<param, file, filecnt, abort, buffer, bidx, blen, ndcnt, ndtotal>>,
         UNCHANGED <<stack, pc, rc, due, wrong, early, crossed>>
  PROVE  ClientRight'
<1> USE DEF ClientRight
<1>1. /\ map' = map \ {m.i} /\ request_map' = request_map - 1 /\ copying' = <<m>>
      /\ UNCHANGED <<fsize, need_filesize>>
  BY Zenon DEF ResponseFetch
<1>2. stale' = IF <<m.cnt, m.nd>> # <<filecnt, ndcnt>> THEN 1 ELSE stale BY Zenon DEF ResponseFetch
<1>3. stale' \in {0, 1} /\ (stale' = 0 => stale = 0 /\ m.cnt = filecnt /\ m.nd = ndcnt)
  BY <1>2 DEF ClientTypes
<1>4. m.i \in 0 .. NetBuf - 1 /\ m.p \in Piece BY Zenon DEF Sound
<1>5. copying' # <<>> /\ copying'[1] = m BY <1>1, Zenon
<1>6. ClientTypes'
  <2>1. map \subseteq 0 .. NetBuf - 1 /\ request_map \in Int BY Zenon DEF ClientTypes
  <2>2. map' \subseteq 0 .. NetBuf - 1 BY <1>1, <2>1, Zenon
  <2>3. request_map' \in Int BY <1>1, <2>1
  <2> QED BY <1>1, <1>3, <1>4, <1>5, <2>2, <2>3, Zenon DEF ClientTypes, NetBuf
<1>7. StackRight' BY <1>1, Zenon DEF StackRight, Fetches, Op
<1>8. SizeRight' BY <1>1, <1>3, Zenon DEF SizeRight, NetBuf
<1>9. Counted'
  <2>1. request_map \in Nat /\ Members(request_map, map) BY Zenon DEF Counted
  <2>2. Members(request_map - 1, map \ {m.i}) BY <2>1, OneLess, Zenon
  <2> QED BY <1>1, <2>1, <2>2 DEF Counted
<1>10. Between' BY <1>1, <1>3, Zenon DEF Between, NetBuf, Clean
<1>11. Fetches /\ Clean /\ stale' = 0 /\ m.i < rc => m.p = PieceOf(file, due + m.i)
  <2> SUFFICES ASSUME Fetches, Clean, stale' = 0, m.i < rc PROVE m.p = PieceOf(file, due + m.i)
    BY Zenon
  <2>1. m.cnt = filecnt /\ m.nd = ndcnt /\ crossed = 0 BY <1>3, Zenon DEF Clean
  <2>2. due = ndcnt * NetBuf /\ rc \in Nat /\ due + rc <= Size[file] /\ Size[file] \in Nat
    BY BlockFetched DEF Clean
  <2>3. m.nd * NetBuf + m.i < Size[file] /\ m.nd * NetBuf = due
    BY <1>4, <2>1, <2>2 DEF ClientTypes
  <2> QED BY <2>1, <2>3, Zenon DEF Sound
<1>12. Fetching' BY <1>1, <1>3, <1>5, <1>11, Zenon DEF Fetching, Fetches, Clean, NetBuf
<1>13. StreamIntact' BY <1>3, Zenon DEF StreamIntact, ClientTypes
<1> QED BY <1>6, <1>7, <1>8, <1>9, <1>10, <1>12, <1>13, Zenon

LEMMA ReceiveStep == ASSUME V2Inv, NEW cmds, Receive(cmds) PROVE V2Inv'
<1>1. PICK m \in net, again \in {0, 1} :
        LET n == IF again = 1 THEN net ELSE net \ {m} IN
        IF m.cmd \in {"found", "port"} THEN cs_generic(m, n)
        ELSE net' = n /\ Response(m) /\ UNCHANGED server
  BY Zenon DEF Receive
<1>2. /\ UNCHANGED <<param, file, filecnt, abort, buffer, bidx, blen, ndcnt, ndtotal>>
      /\ UNCHANGED <<stack, pc, rc, due, wrong, early, crossed>>
      /\ UNCHANGED sl /\ copying = <<>>
  BY Zenon DEF Receive, serverVars, readerVars
<1>3. ClientRight /\ Sound(m, filecnt, file, crossed, NetBuf) BY Zenon DEF V2Inv, NetSound
<1>4. ASSUME UNCHANGED <<fsize, need_filesize, map, request_map, copying, stale>>,
             \A k \in net' : k \in net \/ k.cmd = "regist"
      PROVE  V2Inv'
  <2>1. UNCHANGED clientState BY <1>2, <1>4, Zenon DEF clientState
  <2>2. Outside BY <1>2, <1>4, Zenon DEF Outside, Sound
  <2> QED BY <1>2, <2>1, <2>2, OutsideStep, Zenon
<1>5. CASE m.cmd \in {"found", "port"}
  <2> DEFINE n == IF again = 1 THEN net ELSE net \ {m}
             a == [cmd |-> "regist", s |-> m.s]
  <2>1. /\ net' = n \/ net' = Put(n, {a})
        /\ UNCHANGED <<fsize, need_filesize, map, request_map, copying, stale>>
    BY <1>1, <1>5, Zenon DEF cs_generic
  <2>2. a.cmd = "regist" /\ n \subseteq net BY Zenon
  <2> HIDE DEF a, n
  <2> QED BY <1>4, <2>1, <2>2, PutAdds
<1>6. CASE m.cmd \notin {"found", "port"}
  <2>1. net' \subseteq net /\ Response(m) BY <1>1, <1>6, Zenon
  <2>2. CASE m.cmd \in {"opened", "error"} /\ ResponseOpen(m)
    <3>1. ClientRight' BY <1>2, <1>3, <2>2, OpenAnswer, Zenon
    <3> QED BY <1>2, <2>1, <3>1, ClientStep, Zenon
  <2>3. CASE m.cmd = "reopen" /\ ResponseReopen BY <1>4, <2>1, <2>3, Zenon DEF ResponseReopen
  <2>4. CASE m.cmd = "data" /\ ResponseFetch(m)
    <3>1. CASE request_map > 0 /\ m.i \in map
      <4>1. ClientRight' BY <1>2, <1>3, <2>4, <3>1, FetchAnswer, Zenon
      <4> QED BY <1>2, <2>1, <4>1, ClientStep
    <3>2. CASE ~(request_map > 0 /\ m.i \in map) BY <1>4, <2>1, <2>4, <3>2, Zenon DEF ResponseFetch
    <3> QED BY <3>1, <3>2, Zenon
  <2> QED BY <2>1, <2>2, <2>3, <2>4, Zenon DEF Response
<1> QED BY <1>5, <1>6, Zenon

\* The memcpy puts the piece where it belongs.
LEMMA CopyStep == ASSUME V2Inv, ResponseCopy PROVE V2Inv'
<1> USE DEF ClientRight
<1>0. ClientRight BY Zenon DEF V2Inv
<1>1. /\ UNCHANGED <<param, sl, net, file, filecnt, fsize, need_filesize, abort>>
      /\ UNCHANGED <<map, request_map, bidx, blen, ndcnt, ndtotal>>
      /\ UNCHANGED <<stack, pc, rc, due, wrong, stale, early, crossed>>
  BY Zenon DEF ResponseCopy, serverVars, fileVars, readerVars, history
<1>2. copying # <<>> /\ copying' = <<>> BY Zenon DEF ResponseCopy
<1>3. PICK j, p : copying[1].i = j /\ copying[1].p = p BY Zenon
<1>4. buffer' = [buffer EXCEPT ![j] = p] BY <1>3, Zenon DEF ResponseCopy
<1>5. /\ j \in 0 .. NetBuf - 1 /\ p \in Piece /\ buffer \in [0 .. NetBuf - 1 -> Piece]
  BY <1>0, <1>2, <1>3, Zenon DEF ClientTypes
<1>6. buffer' \in [0 .. NetBuf - 1 -> Piece] BY <1>4, <1>5, Zenon
<1>7. ClientTypes' BY <1>0, <1>1, <1>2, <1>6, Zenon DEF ClientTypes, NetBuf
<1>8. StackRight' BY <1>0, <1>1, Zenon DEF StackRight, Fetches, Op
<1>9. SizeRight' /\ Counted' BY <1>0, <1>1, Zenon DEF SizeRight, Counted, NetBuf
<1>10. Between' BY <1>0, <1>1, <1>2, Zenon DEF Between, NetBuf, Clean
<1>11. Fetching'
  <2>1. NetBuf \in Nat BY <1>0, Positive, Zenon DEF ClientTypes
  <2>2. Fetches /\ Clean => rc <= NetBuf BY <1>0, BlockFetched, <2>1 DEF Clean
  <2>3. ASSUME Fetches, Clean, NEW i \in 0 .. rc - 1, i \notin map
        PROVE  buffer'[i] = PieceOf(file, due + i)
    <3>1. i \in 0 .. NetBuf - 1 /\ i < rc BY <1>0, <2>1, <2>2, <2>3 DEF ClientTypes
    <3>2. CASE i = j
      <4>1. p = PieceOf(file, due + i) BY <1>0, <1>2, <1>3, <2>3, <3>1, <3>2, Zenon DEF Fetching
      <4> QED BY <1>4, <1>5, <3>1, <3>2, <4>1, Zenon
    <3>3. CASE i # j
      <4>1. buffer[i] = PieceOf(file, due + i) BY <1>0, <1>3, <2>3, <3>3, Zenon DEF Fetching
      <4> QED BY <1>4, <1>5, <3>1, <3>3, <4>1, Zenon
    <3> QED BY <3>2, <3>3, Zenon
  <2> QED BY <1>0, <1>1, <1>2, <2>3, Zenon DEF Fetching, Fetches, NetBuf, Clean
<1>12. StreamIntact' BY <1>0, <1>1, Zenon DEF StreamIntact
<1>13. ClientRight' BY <1>7, <1>8, <1>9, <1>10, <1>11, <1>12, Zenon
<1> QED BY <1>1, <1>13, ClientStep, Zenon

----------------------------------------------------------------------------
(* The reader.                                                             *)

\* A request is of the open file, for pieces of the block.
LEMMA SendStep == ASSUME V2Inv, Send PROVE V2Inv'
<1>1. UNCHANGED clientState /\ UNCHANGED <<sl, crossed>> /\ pc # "idle" /\ pc' # "idle"
  BY Zenon DEF Send, clientState, clientRest, serverVars, blockVars, history
<1>2. /\ file \in Files /\ filecnt \in Nat /\ ndcnt \in Nat /\ map \subseteq 0 .. NetBuf - 1
  BY <1>1, Zenon DEF V2Inv, ClientRight, StackRight, ClientTypes
<1>3. Sound(Packet, filecnt, file, crossed', NetBuf)
  <2>1. CASE Op = "open" BY <1>2, <2>1 DEF Packet, Sound, Numbered, Named
  <2>2. CASE Op # "open" BY <1>2, <2>2 DEF Packet, Sound, Numbered, Named
  <2> QED BY <2>1, <2>2, Zenon
<1>4. ASSUME NEW t \in Servers
      PROVE  Sound([cmd |-> "find", s |-> t], filecnt, file, crossed', NetBuf)
  BY Zenon DEF Sound
<1> DEFINE finds == {[cmd |-> "find", s |-> t] : t \in Servers}
<1>5. \A k \in finds : Sound(k, filecnt, file, crossed', NetBuf) BY <1>4, Zenon
<1>6. net' = Put(net, {Packet}) \/ net' = Put(net, finds) BY Zenon DEF Send
<1> HIDE DEF finds
<1>7. CASE net' = Put(net, {Packet})
  <2>1. Outside BY <1>1, <1>3, <1>7, AnswerOutside, Zenon
  <2> QED BY <1>1, <2>1, OutsideStep, Zenon
<1>8. CASE net' = Put(net, finds)
  <2>1. Outside BY <1>1, <1>5, <1>8, AnswerOutside, Zenon
  <2> QED BY <1>1, <2>1, OutsideStep
<1> QED BY <1>6, <1>7, <1>8, Zenon

\* Waiting for a server, giving it up, and sending again.
LEMMA WaitStep == ASSUME V2Inv, Find \/ Timeout \/ (Again /\ abort # 1) PROVE V2Inv'
<1> USE DEF Find, Timeout, Again
<1>1. UNCHANGED clientState /\ UNCHANGED <<net, sl, crossed>> /\ pc # "idle" /\ pc' # "idle"
  BY Zenon DEF clientState, clientRest, serverVars, blockVars, history
<1>2. Outside BY <1>1, Zenon DEF Outside
<1> QED BY <1>1, <1>2, OutsideStep, Zenon

\* internal_reopen within a sendwait awaits the size once more.
LEMMA ReopenStep == ASSUME V2Inv, Reopen PROVE V2Inv'
<1> USE DEF ClientRight
<1>0. ClientRight BY DEF V2Inv
<1>1. /\ UNCHANGED <<param, sl, net, file, filecnt, abort, map, request_map, buffer>>
      /\ UNCHANGED <<bidx, blen, ndcnt, ndtotal, rc, copying, due, wrong, stale, early, crossed>>
      /\ fsize' = 0 /\ need_filesize' = 1 /\ pc # "idle" /\ pc' # "idle"
  BY Zenon DEF Reopen, clientRest, serverVars, blockVars, history
<1>2. stack' = Append(stack, "open") /\ stack \in Seq({"open", "fetch"}) /\ stack # <<>>
  BY <1>0, <1>1, Zenon DEF Reopen, StackRight, ClientTypes
<1>3. /\ stack' \in Seq({"open", "fetch"}) /\ stack' # <<>> /\ Len(stack') = Len(stack) + 1
      /\ \A i \in 1 .. Len(stack) : stack'[i] = stack[i]
      /\ stack'[Len(stack) + 1] = "open" /\ Len(stack) \in Nat \ {0}
  BY <1>2
<1>4. stack'[1] = stack[1] /\ Fetches' = Fetches /\ Op' = "open" BY <1>2, <1>3 DEF Fetches, Op
<1>5. ClientTypes' BY <1>0, <1>1, <1>3 DEF ClientTypes, NetBuf
<1>6. StackRight' BY <1>0, <1>1, <1>2, <1>3, <1>4 DEF StackRight
<1>7. SizeRight' BY <1>0, <1>1 DEF SizeRight, NetBuf
<1>8. Counted' /\ StreamIntact' BY <1>0, <1>1, Zenon DEF Counted, StreamIntact
<1>9. Between' BY <1>3, Zenon DEF Between
<1>10. Fetching' BY <1>0, <1>1, <1>4, Zenon DEF Fetching, NetBuf, Clean
<1>11. ClientRight' BY <1>5, <1>6, <1>7, <1>8, <1>9, <1>10, Zenon
<1> QED BY <1>1, <1>11, ClientStep, Zenon

\* An open within another call returns.
LEMMA PopNested ==
  ASSUME ClientRight, NEW ok, Pop(ok), Len(stack) > 1, UNCHANGED early,
         need_filesize = 1 => abort = 1
  PROVE  ClientRight'
<1> USE DEF ClientRight
<1>1. /\ UNCHANGED <<param, file, filecnt, fsize, need_filesize, abort>>
      /\ UNCHANGED <<map, request_map, buffer, bidx, blen, ndcnt, ndtotal>>
      /\ UNCHANGED <<rc, copying, due, wrong, stale, early, crossed>>
      /\ pc' = "again"
  BY DEF Pop, clientRest, serverVars
<1>2. stack' = SubSeq(stack, 1, Len(stack) - 1) /\ stack \in Seq({"open", "fetch"})
  BY Zenon DEF Pop, ClientTypes
<1>3. /\ stack' \in Seq({"open", "fetch"}) /\ Len(stack') = Len(stack) - 1 /\ Len(stack) \in Nat
      /\ \A i \in 1 .. Len(stack) - 1 : stack'[i] = stack[i]
  BY <1>2
<1>4. stack' # <<>> /\ stack # <<>> /\ stack'[1] = stack[1]
  <2>1. 1 \in 1 .. Len(stack) - 1 BY <1>3
  <2>2. Len(stack') # 0 /\ Len(stack) # 0 BY <1>3
  <2> QED BY <1>3, <2>1, <2>2
<1>5. Fetches' = Fetches BY <1>4, Zenon DEF Fetches
<1>6. ClientTypes' BY <1>1, <1>3, Zenon DEF ClientTypes, NetBuf
<1>7. StackRight' BY <1>1, <1>3, <1>4, <1>5 DEF StackRight
<1>8. SizeRight' BY <1>1, Zenon DEF SizeRight, NetBuf
<1>9. Counted' /\ StreamIntact' BY <1>1, Zenon DEF Counted, StreamIntact
<1>10. Between' BY <1>4, Zenon DEF Between
<1>11. Fetching' BY <1>1, <1>5, Zenon DEF Fetching, NetBuf, Clean
<1> QED BY <1>6, <1>7, <1>8, <1>9, <1>10, <1>11, Zenon

\* internal_reopen returns to cli_openfile, which counts the blocks.
LEMMA PopOpen ==
  ASSUME ClientRight, NEW ok \in BOOLEAN, Pop(ok), Len(stack) = 1, Op = "open",
         UNCHANGED early, ok => need_filesize # 1, ~ok => abort = 1
  PROVE  ClientRight'
<1> USE DEF ClientRight
<1> DEFINE size == IF ok THEN fsize ELSE -1
<1>1. /\ UNCHANGED <<param, file, filecnt, fsize, need_filesize, abort>>
      /\ UNCHANGED <<map, request_map, buffer, bidx, blen, ndcnt>>
      /\ UNCHANGED <<copying, due, wrong, stale, early, crossed>>
      /\ ndtotal' = IF size > 0 THEN (size + NetBuf - 1) \div NetBuf ELSE ndtotal
      /\ pc' = "idle" /\ rc' = 0
  BY DEF Pop, OpenDone, clientRest, serverVars
<1>2. stack \in Seq({"open", "fetch"}) /\ stack' = SubSeq(stack, 1, Len(stack) - 1)
  BY Zenon DEF Pop, ClientTypes
<1>3. stack' = <<>> /\ stack # <<>> /\ stack[1] = "open"
  <2>1. stack' \in Seq({"open", "fetch"}) /\ Len(stack') = 0 BY <1>2
  <2>2. stack' = <<>> /\ stack # <<>> BY <1>2, <2>1
  <2> QED BY <2>2, Zenon DEF Op
<1>4. ndtotal = 0 /\ blen = 0 /\ ndcnt = 0 /\ due = 0 /\ file \in Files
  BY <1>3, Zenon DEF StackRight, SizeRight
<1>5. NetBuf \in Nat \ {0} /\ Size[file] \in Nat /\ fsize \in Int
  BY <1>4, Positive, V2Assumption, Zenon DEF ClientTypes
<1>6. ndtotal' \in Nat
  <2>1. CASE size > 0
    <3>1. size \in Nat BY <1>5, <2>1
    <3> QED BY <1>1, <1>5, <2>1, <3>1, Blocks, Zenon
  <2>2. CASE ~(size > 0) BY <1>1, <1>4, <2>2, Zenon
  <2> QED BY <2>1, <2>2, Zenon
<1>7. stale = 0 /\ ndtotal' > 0 => Total(ndtotal', NetBuf, Size[file])
  <2> SUFFICES ASSUME stale = 0, ndtotal' > 0 PROVE Total(ndtotal', NetBuf, Size[file])
    BY Zenon
  <2>1. size > 0 /\ ok /\ ndtotal' = (size + NetBuf - 1) \div NetBuf BY <1>1, <1>4
  <2>2. need_filesize = 0 BY <2>1, Zenon DEF ClientTypes
  <2>3. fsize = Size[file] BY <1>4, <2>2, Zenon DEF SizeRight
  <2> QED BY <1>5, <2>1, <2>3, Blocks, Zenon
<1> HIDE DEF size
<1>8. ClientTypes' BY <1>1, <1>3, <1>6 DEF ClientTypes, NetBuf
<1>9. StackRight' BY <1>1, <1>3 DEF StackRight, Fetches, ClientTypes
<1>10. SizeRight' BY <1>1, <1>4, <1>7, Zenon DEF SizeRight, NetBuf
<1>11. Counted' /\ StreamIntact' BY <1>1, Zenon DEF Counted, StreamIntact
<1>12. Between'
  <2>1. ndcnt' <= ndtotal' /\ blen' = 0 BY <1>1, <1>4, <1>6
  <2>2. due' + blen' = Shorter(ndcnt' * NetBuf', Size[file'])
    BY <1>1, <1>4, <1>5 DEF Shorter, NetBuf
  <2> QED BY <2>1, <2>2 DEF Between
<1>13. Fetching' BY <1>3, Zenon DEF Fetching, Fetches
<1> QED BY <1>8, <1>9, <1>10, <1>11, <1>12, <1>13, Zenon

\* What a read gives of the block that internal_read has fetched.
LEMMA BlockGiven ==
  ASSUME ClientRight, Fetches, abort = 0, request_map = 0, NEW l \in 1 .. NetBuf,
         Gives(0, rc, l), ndcnt' = ndcnt + 1, stack' = <<>>,
         early' = IF copying # <<>> THEN 1 ELSE early,
         UNCHANGED <<param, file, ndtotal, abort, map, buffer, copying, stale, crossed>>
  PROVE  Between' /\ StreamIntact'
<1> USE DEF ClientRight
<1>1. map = {} BY NoneLeft, Zenon
<1>2. NetBuf \in Nat /\ early \in {0, 1} /\ wrong \in {0, 1} /\ due \in Nat
  BY Positive, Zenon DEF ClientTypes
<1>3. CASE stale # 0
  <2>1. stale = 1 /\ stale' = 1 BY <1>3, Zenon DEF ClientTypes
  <2> QED BY <2>1 DEF Between, StreamIntact, Clean
<1>4. CASE stale = 0
  <2>1. /\ rc \in 1 .. NetBuf /\ due + rc = Shorter((ndcnt + 1) * NetBuf, Size[file])
        /\ ndcnt < ndtotal /\ ndcnt \in Nat /\ ndtotal \in Nat
    BY <1>4, BlockFetched, Zenon DEF Fetching, ClientTypes
  <2> DEFINE k == Shorter(rc, l)
  <2>2. k \in 1 .. rc BY <2>1 DEF Shorter
  <2>3. /\ wrong' = IF Due(0, k) \/ abort = 1 THEN wrong ELSE 1
        /\ blen' = rc - k /\ bidx' = 0 + k /\ due' = due + k
    BY <2>1 DEF Gives
  <2> HIDE DEF k
  <2>4. blen' \in Nat /\ due' + blen' = due + rc BY <1>2, <2>1, <2>2, <2>3
  <2>5. crossed = 0 /\ early' = 0 =>
          copying = <<>> /\ \A i \in 0 .. rc - 1 : buffer[i] = PieceOf(file, due + i)
    BY <1>1, <1>4 DEF Fetching, Clean
  <2>6. StreamIntact'
    <3>1. ASSUME crossed = 0, early' = 0 PROVE Due(0, k)
      <4>1. ASSUME NEW i \in 0 .. k - 1 PROVE buffer[0 + i] = PieceOf(file, due + i)
        <5>1. i \in 0 .. rc - 1 /\ 0 + i = i BY <2>1, <2>2
        <5> QED BY <2>5, <3>1, <5>1, Zenon
      <4> QED BY <4>1, Zenon DEF Due, PieceOf
    <3>2. wrong = 1 => early = 1 \/ crossed = 1 BY <1>4 DEF StreamIntact
    <3> QED BY <1>2, <2>3, <3>1, <3>2, Zenon DEF StreamIntact, ClientTypes
  <2>7. ASSUME crossed = 0, early' = 0, NEW i \in 0 .. blen' - 1
        PROVE  buffer[bidx' + i] = PieceOf(file, due' + i)
    <3>1. k + i \in 0 .. rc - 1 /\ bidx' + i = k + i /\ due' + i = due + (k + i)
      BY <1>2, <2>1, <2>2, <2>3, <2>4, <2>7
    <3> QED BY <2>5, <2>7, <3>1, Zenon
  <2>8. /\ blen' \in Nat /\ ndcnt' <= ndtotal'
        /\ due' + blen' = Shorter(ndcnt' * NetBuf', Size[file'])
    BY <2>1, <2>4 DEF NetBuf
  <2>9. Clean' /\ early' = 0 =>
          /\ map' = {} /\ copying' = <<>>
          /\ \A i \in 0 .. blen' - 1 : buffer'[bidx' + i] = PieceOf(file', due' + i)
    BY <1>1, <2>5, <2>7, Zenon DEF Clean
  <2> QED BY <2>6, <2>8, <2>9, Zenon DEF Between
<1> QED BY <1>3, <1>4, Zenon

\* internal_read returns to cli_read.
LEMMA PopFetch ==
  ASSUME ClientRight, NEW ok \in BOOLEAN, Pop(ok), Len(stack) = 1, Op = "fetch",
         ok => request_map = 0 /\ early' = IF copying # <<>> THEN 1 ELSE early,
         ~ok => abort = 1 /\ UNCHANGED early
  PROVE  ClientRight'
<1> USE DEF ClientRight
<1> DEFINE n == IF ok THEN rc ELSE -1
<1>1. /\ UNCHANGED <<param, file, filecnt, fsize, need_filesize, abort>>
      /\ UNCHANGED <<map, request_map, buffer, copying, stale, crossed, ndtotal>>
      /\ ndcnt' = ndcnt + 1 /\ pc' = "idle" /\ rc' = 0
  BY DEF Pop, ReadDone, clientRest, serverVars
<1>2. PICK l \in 1 .. NetBuf : Gives(0, n, l) BY DEF Pop, ReadDone
<1>3. stack \in Seq({"open", "fetch"}) /\ stack' = SubSeq(stack, 1, Len(stack) - 1)
  BY Zenon DEF Pop, ClientTypes
<1>4. stack' = <<>> /\ stack # <<>> /\ stack[1] = "fetch"
  <2>1. stack' \in Seq({"open", "fetch"}) /\ Len(stack') = 0 BY <1>3
  <2>2. stack' = <<>> /\ stack # <<>> BY <1>3, <2>1
  <2> QED BY <2>2, Zenon DEF Op
<1>5. /\ due \in Nat /\ rc \in Int /\ NetBuf \in Nat /\ ndtotal > 0 /\ ndcnt \in Nat
      /\ early \in {0, 1} /\ wrong \in {0, 1}
  BY <1>4, Positive, Zenon DEF ClientTypes, StackRight, Fetches
<1>6. blen' \in Int /\ bidx' \in Nat /\ due' \in Nat /\ wrong' \in {0, 1}
  <2>1. CASE n <= 0 BY <1>2, <1>5, <2>1 DEF Gives
  <2>2. CASE ~(n <= 0)
    <3>1. n \in Nat /\ Shorter(n, l) \in Nat BY <1>5, <2>2 DEF Shorter
    <3> QED BY <1>2, <1>5, <2>2, <3>1 DEF Gives
  <2> QED BY <2>1, <2>2, Zenon
<1>7. early' \in {0, 1} /\ (early = 1 => early' = 1) BY <1>5, Zenon
<1>8. ClientTypes' BY <1>1, <1>4, <1>5, <1>6, <1>7 DEF ClientTypes, NetBuf
<1>9. StackRight' BY <1>1, <1>4 DEF StackRight, Fetches
<1>10. SizeRight' BY <1>1, <1>5 DEF SizeRight, NetBuf
<1>11. Counted' BY <1>1, Zenon DEF Counted
<1>12. Fetching' BY <1>4, Zenon DEF Fetching, Fetches
<1>13. Between' /\ StreamIntact'
  <2>1. CASE abort = 0 BY <1>1, <1>2, <1>4, <2>1, BlockGiven DEF Fetches
  <2>2. CASE abort # 0
    <3>1. abort = 1 BY <2>2, Zenon DEF ClientTypes
    <3>2. UNCHANGED wrong BY <1>2, <3>1, Zenon DEF Gives
    <3> QED BY <1>1, <1>7, <3>1, <3>2 DEF Between, StreamIntact, Clean
  <2> QED BY <2>1, <2>2, Zenon
<1> QED BY <1>8, <1>9, <1>10, <1>11, <1>12, <1>13, Zenon

LEMMA OneOrMore == ASSUME NEW S, NEW q \in Seq(S), q # <<>> PROVE Len(q) > 1 \/ Len(q) = 1
<1>1. PICK n \in Nat : n = Len(q) /\ n # 0 OBVIOUS
<1>2. n > 1 \/ n = 1 BY <1>1
<1> QED BY <1>1, <1>2, Zenon

\* A sendwait that is answered or aborted.
LEMMA PopStep == ASSUME V2Inv, Answered \/ (Again /\ abort = 1) PROVE V2Inv'
<1>1. PICK ok \in BOOLEAN :
        /\ Pop(ok) /\ pc # "idle"
        /\ ok => ~Waits /\ early' = IF Op = "fetch" /\ copying # <<>> THEN 1 ELSE early
        /\ ~ok => abort = 1 /\ UNCHANGED early
  <2>1. CASE Answered BY <2>1, Zenon DEF Answered
  <2>2. CASE Again /\ abort = 1 BY <2>2, Zenon DEF Again
  <2> QED BY <2>1, <2>2, Zenon
<1>2. UNCHANGED <<net, param, sl, file, filecnt, crossed>>
  BY <1>1, Zenon DEF Pop, clientRest, serverVars
<1>3. ClientRight BY Zenon DEF V2Inv
<1>4. stack \in Seq({"open", "fetch"}) /\ stack # <<>>
  BY <1>1, <1>3, Zenon DEF ClientRight, ClientTypes, StackRight
<1>5. Len(stack) \in Nat /\ Op \in {"open", "fetch"} BY <1>4 DEF Op
<1>6. CASE Len(stack) > 1
  <2>1. Op = "open" BY <1>3, <1>5, <1>6 DEF ClientRight, StackRight, Op
  <2>2. UNCHANGED early /\ (need_filesize = 1 => abort = 1) BY <1>1, <2>1, Zenon DEF Waits
  <2>3. ClientRight' BY <1>1, <1>3, <1>6, <2>2, PopNested, Zenon
  <2> QED BY <1>2, <2>3, ClientStep, Zenon
<1>7. CASE Len(stack) = 1 /\ Op = "open"
  <2>1. UNCHANGED early /\ (ok => need_filesize # 1) BY <1>1, <1>7, Zenon DEF Waits
  <2>2. ClientRight' BY <1>1, <1>3, <1>7, <2>1, PopOpen, Zenon
  <2> QED BY <1>2, <2>2, ClientStep
<1>8. CASE Len(stack) = 1 /\ Op = "fetch"
  <2>1. ok => request_map = 0 /\ early' = IF copying # <<>> THEN 1 ELSE early
    BY <1>1, <1>8, Zenon DEF Waits
  <2>2. ClientRight' BY <1>1, <1>3, <1>8, <2>1, PopFetch, Zenon
  <2> QED BY <1>2, <2>2, ClientStep
<1>9. Len(stack) > 1 \/ Len(stack) = 1 BY <1>4, OneOrMore, Zenon
<1> QED BY <1>5, <1>6, <1>7, <1>8, <1>9, Zenon

LEMMA ReaderStep == ASSUME V2Inv, Reader PROVE V2Inv'
BY SendStep, WaitStep, ReopenStep, PopStep, Zenon DEF Reader

----------------------------------------------------------------------------
(* The calls.                                                              *)

\* A new number: every packet on the way is of an earlier open.
LEMMA OpenCall == ASSUME V2Inv, NEW f \in Files, cli_openfile(f) PROVE V2Inv'
<1> USE DEF cli_openfile
<1>1. UNCHANGED <<net, param, sl, map, request_map, buffer, rc, copying>> BY Zenon DEF serverVars
<1>2. ServerRight /\ NetSound /\ ClientTypes /\ Counted BY Zenon DEF V2Inv, ClientRight
<1>3. ServerRight' BY <1>1, <1>2, ServerStays, Zenon
<1>4. NetSound' BY <1>1, <1>2, NetStays, Zenon DEF ClientTypes
<1>5. stack' = <<"open">> /\ pc' # "idle" BY Zenon
<1>6. /\ stack' \in Seq({"open", "fetch"}) /\ Len(stack') = 1 /\ stack' # <<>>
      /\ stack'[1] = "open"
  BY <1>5
<1>7. ~Fetches' /\ Op' = "open" BY <1>6, Zenon DEF Fetches, Op
<1>8. ClientTypes' BY <1>1, <1>2, <1>6 DEF ClientTypes, NetBuf
<1>9. StackRight' BY <1>5, <1>6, <1>7 DEF StackRight
<1>10. SizeRight' BY DEF SizeRight
<1>11. Counted' /\ StreamIntact' BY <1>1, <1>2, Zenon DEF Counted, StreamIntact
<1>12. Between' /\ Fetching' BY <1>6, <1>7, Zenon DEF Between, Fetching
<1> QED BY <1>3, <1>4, <1>8, <1>9, <1>10, <1>11, <1>12, Zenon DEF V2Inv, ClientRight

\* The rest of a block.
LEMMA BufferedCall == ASSUME V2Inv, NEW l \in 1 .. NetBuf, ReadBuffered(l) PROVE V2Inv'
<1> USE DEF ClientRight
<1>0. ClientRight BY Zenon DEF V2Inv
<1>1. /\ UNCHANGED <<param, sl, net, file, filecnt, fsize, need_filesize, abort>>
      /\ UNCHANGED <<map, request_map, buffer, ndcnt, ndtotal, stack, pc, rc, copying>>
      /\ UNCHANGED <<stale, early, crossed>>
      /\ pc = "idle" /\ blen > 0
  BY Zenon DEF ReadBuffered, Ask, serverVars, fileVars, readerVars
<1>2. stack = <<>> BY <1>0, <1>1, Zenon DEF StackRight
<1> DEFINE k == Shorter(blen, l)
<1>3. /\ blen \in Nat /\ bidx \in Nat /\ due \in Nat /\ NetBuf \in Nat /\ wrong \in {0, 1}
      /\ ndtotal > 0
  BY <1>0, <1>1, Positive DEF ClientTypes, SizeRight
<1>4. k \in 1 .. blen BY <1>1, <1>3 DEF Shorter
<1>5. /\ wrong' = IF Due(bidx, k) \/ abort = 1 THEN wrong ELSE 1
      /\ blen' = blen - k /\ bidx' = bidx + k /\ due' = due + k
  BY <1>1, <1>3 DEF ReadBuffered, Gives
<1> HIDE DEF k
<1>6. /\ blen' \in Nat /\ bidx' \in Nat /\ due' \in Nat /\ wrong' \in {0, 1}
      /\ due' + blen' = due + blen
  BY <1>3, <1>4, <1>5
<1>7. ClientTypes' BY <1>0, <1>1, <1>6 DEF ClientTypes, NetBuf
<1>8. StackRight' BY <1>0, <1>1, Zenon DEF StackRight, Fetches, Op
<1>9. SizeRight' BY <1>0, <1>1, <1>3 DEF SizeRight, NetBuf
<1>10. Counted' BY <1>0, <1>1, Zenon DEF Counted
<1>11. Clean /\ early = 0 =>
         /\ map = {} /\ copying = <<>>
         /\ \A i \in 0 .. blen - 1 : buffer[bidx + i] = PieceOf(file, due + i)
  BY <1>0, <1>1, <1>2, Zenon DEF Between
<1>12. Between'
  <2>1. ASSUME Clean, early = 0, NEW i \in 0 .. blen' - 1
        PROVE  buffer[bidx' + i] = PieceOf(file, due' + i)
    <3>1. k + i \in 0 .. blen - 1 BY <1>3, <1>4, <1>5
    <3>2. bidx' + i = bidx + (k + i) /\ due' + i = due + (k + i) BY <1>3, <1>4, <1>5
    <3> QED BY <1>11, <2>1, <3>1, <3>2, Zenon
  <2>2. Clean' /\ early' = 0 =>
          /\ map' = {} /\ copying' = <<>>
          /\ \A i \in 0 .. blen' - 1 : buffer'[bidx' + i] = PieceOf(file', due' + i)
    BY <1>1, <1>11, <2>1, Zenon DEF Clean
  <2>3. abort' = 0 /\ stale' = 0 =>
          /\ blen' \in Nat /\ ndcnt' <= ndtotal'
          /\ due' + blen' = Shorter(ndcnt' * NetBuf', Size[file'])
    BY <1>0, <1>1, <1>2, <1>3, <1>6, Zenon DEF Between, NetBuf
  <2> QED BY <2>2, <2>3, Zenon DEF Between
<1>13. Fetching' BY <1>1, <1>2, Zenon DEF Fetching, Fetches
<1>14. StreamIntact'
  <2>1. ASSUME Clean, early = 0 PROVE Due(bidx, k)
    <3>1. ASSUME NEW i \in 0 .. k - 1 PROVE buffer[bidx + i] = PieceOf(file, due + i)
      <4>1. i \in 0 .. blen - 1 BY <1>3, <1>4
      <4> QED BY <1>11, <2>1, <4>1, Zenon
    <3> QED BY <3>1, Zenon DEF Due, PieceOf
  <2> QED BY <1>0, <1>1, <1>5, <2>1, Zenon DEF StreamIntact, Clean, ClientTypes
<1>15. ClientRight' BY <1>7, <1>8, <1>9, <1>10, <1>12, <1>13, <1>14, Zenon
<1> QED BY <1>1, <1>15, ClientStep, Zenon

\* The end is given at the end.
LEMMA EndCall == ASSUME V2Inv, ReadEnd PROVE V2Inv'
<1> USE DEF ClientRight
<1>0. ClientRight BY DEF V2Inv
<1>1. /\ UNCHANGED <<param, sl, net, file, filecnt, fsize, need_filesize, abort>>
      /\ UNCHANGED <<map, request_map, buffer, bidx, blen, ndcnt, ndtotal, stack, pc, rc>>
      /\ UNCHANGED <<copying, due, stale, early, crossed>>
      /\ pc = "idle" /\ blen <= 0 /\ ndcnt >= ndtotal
      /\ wrong' = IF abort = 1 \/ ndtotal = 0 \/ due = Size[file] THEN wrong ELSE 1
  BY Zenon DEF ReadEnd, Ask, serverVars, fileVars, blockVars, readerVars
<1>2. ASSUME abort = 0, ndtotal # 0, stale = 0 PROVE due = Size[file]
  <2>1. stack = <<>> /\ ndtotal \in Nat /\ ndcnt \in Nat /\ due \in Nat /\ NetBuf \in Nat \ {0}
    BY <1>0, <1>1, Positive, Zenon DEF StackRight, ClientTypes
  <2>2. ndtotal > 0 BY <1>2, <2>1
  <2>3. file \in Files /\ Total(ndtotal, NetBuf, Size[file])
    BY <1>0, <1>2, <2>2, Zenon DEF SizeRight
  <2>4. blen \in Nat /\ due + blen = Shorter(ndcnt * NetBuf, Size[file])
    BY <1>0, <1>2, <2>1, <2>2, Zenon DEF Between
  <2>5. Size[file] \in Nat BY <2>3, V2Assumption, Zenon
  <2>6. Shorter(ndcnt * NetBuf, Size[file]) = Size[file]
    BY <1>1, <2>1, <2>3, <2>5, BlocksEnd, Zenon
  <2> QED BY <1>1, <2>1, <2>4, <2>5, <2>6
<1>3. wrong' \in {0, 1} /\ StreamIntact'
  BY <1>0, <1>1, <1>2, Zenon DEF ClientTypes, StreamIntact
<1>4. ClientTypes' BY <1>0, <1>1, <1>3, Zenon DEF ClientTypes, NetBuf
<1>5. StackRight' BY <1>0, <1>1, Zenon DEF StackRight, Fetches, Op
<1>6. SizeRight' /\ Counted' BY <1>0, <1>1, Zenon DEF SizeRight, Counted, NetBuf
<1>7. Between' BY <1>0, <1>1, Zenon DEF Between, NetBuf, Clean
<1>8. Fetching' BY <1>0, <1>1, Zenon DEF Fetching, Fetches, NetBuf, Clean
<1>9. ClientRight' BY <1>3, <1>4, <1>5, <1>6, <1>7, <1>8, Zenon
<1> QED BY <1>1, <1>9, ClientStep, Zenon

\* A block is asked for: every piece of it is awaited.
LEMMA BlockCall == ASSUME V2Inv, ReadBlock PROVE V2Inv'
<1> USE DEF ClientRight
<1>0. ClientRight BY DEF V2Inv
<1>1. /\ UNCHANGED <<param, sl, net, file, filecnt, fsize, need_filesize, abort>>
      /\ UNCHANGED <<buffer, blen, ndcnt, ndtotal, copying, due, stale, crossed>>
      /\ pc = "idle" /\ blen <= 0 /\ ndcnt < ndtotal
      /\ bidx' = 0 /\ wrong' = 0 /\ early' = 0
  BY Zenon DEF ReadBlock, Ask, serverVars, fileVars
<1>2. /\ rc' = Shorter(NetBuf, fsize - ndcnt * NetBuf)
      /\ request_map' = rc' /\ map' = 0 .. rc' - 1
      /\ stack' = <<"fetch">> /\ pc' # "idle"
  BY Zenon DEF ReadBlock
<1>3. /\ stack = <<>> /\ ndtotal \in Nat /\ ndcnt \in Nat /\ due \in Nat /\ fsize \in Int
      /\ NetBuf \in Nat \ {0} /\ need_filesize \in {0, 1}
  BY <1>0, <1>1, Positive, Zenon DEF StackRight, ClientTypes
<1>4. /\ ndtotal > 0 /\ file \in Files /\ Size[file] \in Nat
      /\ need_filesize = 1 => abort = 1
  BY <1>0, <1>1, <1>3, V2Assumption DEF SizeRight, StackRight, ClientTypes
<1>5. rc' \in Int /\ rc' <= NetBuf BY <1>2, <1>3 DEF Shorter
<1>6. /\ stack' \in Seq({"open", "fetch"}) /\ Len(stack') = 1 /\ stack' # <<>>
      /\ stack'[1] = "fetch"
  BY <1>2
<1>7. ClientTypes'
  <2>1. map' \subseteq 0 .. NetBuf - 1 BY <1>2, <1>3, <1>5
  <2> QED BY <1>0, <1>1, <1>2, <1>5, <1>6, <2>1, Zenon DEF ClientTypes, NetBuf
<1>8. StackRight' BY <1>1, <1>2, <1>4, <1>6 DEF StackRight, Fetches
<1>9. SizeRight' BY <1>0, <1>1, Zenon DEF SizeRight, NetBuf
<1>10. Counted'
  <2>1. CASE rc' \in Nat BY <1>2, <2>1, FirstMembers, Zenon DEF Counted
  <2>2. CASE rc' \notin Nat
    <3>1. map' = {} BY <1>2, <1>5, <2>2
    <3> QED BY <3>1, Zenon DEF Counted
  <2> QED BY <2>1, <2>2, Zenon
<1>11. Between' BY <1>6, Zenon DEF Between
<1>12. ASSUME abort = 0, stale = 0
       PROVE  blen = 0 /\ due = ndcnt * NetBuf /\ rc' = Shorter(NetBuf, Size[file] - due)
  <2>1. blen \in Nat /\ due + blen = Shorter(ndcnt * NetBuf, Size[file])
    BY <1>0, <1>3, <1>4, <1>12, Zenon DEF Between
  <2>2. fsize = Size[file] BY <1>0, <1>3, <1>4, <1>12, Zenon DEF SizeRight
  <2>3. Total(ndtotal, NetBuf, Size[file]) BY <1>0, <1>4, <1>12, Zenon DEF SizeRight
  <2>4. Fits(ndcnt, NetBuf, Size[file]) BY <1>1, <1>3, <1>4, <2>3, BlockFits, Zenon
  <2>5. ndcnt * NetBuf < Size[file] BY <2>4, Zenon DEF Fits
  <2>6. blen = 0 BY <1>1, <2>1
  <2>7. due = ndcnt * NetBuf BY <1>3, <1>4, <2>1, <2>5, <2>6 DEF Shorter
  <2> QED BY <1>2, <2>2, <2>6, <2>7, Zenon
<1>13. copying # <<>> => (copying[1].i < rc' => copying[1].i \in map')
  BY <1>0, <1>2, <1>3, <1>5 DEF ClientTypes
<1>14. Fetching'
  <2>1. abort' = 0 /\ stale' = 0 =>
          /\ blen' = 0 /\ ndcnt' < ndtotal' /\ due' = ndcnt' * NetBuf'
          /\ rc' = Shorter(NetBuf', Size[file'] - due')
    BY <1>1, <1>12, Zenon DEF NetBuf
  <2>2. copying' # <<>> => (copying'[1].i < rc' => copying'[1].i \in map') BY <1>1, <1>13, Zenon
  <2> QED BY <1>2, <2>1, <2>2, Zenon DEF Fetching
<1>15. StreamIntact' BY <1>1, Zenon DEF StreamIntact
<1>16. ClientRight' BY <1>7, <1>8, <1>9, <1>10, <1>11, <1>14, <1>15, Zenon
<1> QED BY <1>1, <1>16, ClientStep, Zenon

\* cli_reopen starts the file again.
LEMMA RestartCall == ASSUME V2Inv, cli_reopen PROVE V2Inv'
<1> USE DEF ClientRight
<1>0. ClientRight BY DEF V2Inv
<1>1. /\ UNCHANGED <<param, sl, net, file, filecnt, fsize, need_filesize, abort>>
      /\ UNCHANGED <<map, request_map, buffer, ndtotal, stack, pc, rc, copying>>
      /\ UNCHANGED <<wrong, stale, early, crossed>> /\ pc = "idle"
      /\ ndcnt' = 0 /\ bidx' = 0 /\ blen' = 0 /\ due' = 0
  BY Zenon DEF cli_reopen, Ask, serverVars, fileVars, readerVars
<1>2. stack = <<>> /\ NetBuf \in Nat /\ ndtotal \in Nat
  BY <1>0, <1>1, Positive, Zenon DEF StackRight, ClientTypes
<1>3. ClientTypes' BY <1>0, <1>1 DEF ClientTypes, NetBuf
<1>4. StackRight' BY <1>0, <1>1, Zenon DEF StackRight, Fetches, Op
<1>5. SizeRight' /\ Counted' BY <1>0, <1>1, Zenon DEF SizeRight, Counted, NetBuf
<1>6. ndtotal > 0 => Shorter(0 * NetBuf, Size[file]) = 0
  BY <1>0, <1>2, V2Assumption DEF SizeRight, Shorter
<1>7. Between' BY <1>1, <1>2, <1>6 DEF Between, NetBuf
<1>8. Fetching' BY <1>1, <1>2, Zenon DEF Fetching, Fetches
<1>9. StreamIntact' BY <1>0, <1>1, Zenon DEF StreamIntact
<1>10. ClientRight' BY <1>3, <1>4, <1>5, <1>7, <1>8, <1>9
<1> QED BY <1>1, <1>10, ClientStep, Zenon

\* After an abort nothing is promised of the file that is open.
LEMMA AbortCall == ASSUME V2Inv, cli_abort PROVE V2Inv'
<1> USE DEF ClientRight
<1>0. ClientRight BY DEF V2Inv
<1>1. /\ UNCHANGED <<param, sl, net, file, filecnt, fsize, need_filesize, pc, stack, rc>>
      /\ UNCHANGED <<map, request_map, buffer, bidx, blen, ndcnt, ndtotal, copying>>
      /\ UNCHANGED <<due, wrong, stale, early, crossed>> /\ abort' = 1
  BY Zenon DEF cli_abort, serverVars, fileVars, blockVars, readerVars, history
<1>2. ClientTypes' BY <1>0, <1>1, Zenon DEF ClientTypes, NetBuf
<1>3. StackRight' BY <1>0, <1>1 DEF StackRight, Fetches, Op
<1>4. SizeRight' /\ Counted' BY <1>0, <1>1, Zenon DEF SizeRight, Counted, NetBuf
<1>5. Between' /\ Fetching' BY <1>1 DEF Between, Fetching, Clean
<1>6. StreamIntact' BY <1>0, <1>1, Zenon DEF StreamIntact
<1>7. ClientRight' BY <1>2, <1>3, <1>4, <1>5, <1>6, Zenon
<1> QED BY <1>1, <1>7, ClientStep, Zenon

LEMMA CloseCall == ASSUME V2Inv, cli_closefile PROVE V2Inv'
<1>1. UNCHANGED clientState /\ UNCHANGED <<net, sl, crossed, pc>>
  BY Zenon DEF cli_closefile, clientState, serverVars, blockVars, readerVars, history
<1>2. Outside BY <1>1, Zenon DEF Outside
<1> QED BY <1>1, <1>2, OutsideStep, Zenon

LEMMA CallStep == ASSUME V2Inv, Calls PROVE V2Inv'
BY OpenCall, BufferedCall, BlockCall, EndCall, RestartCall, CloseCall, AbortCall, Zenon DEF Calls

----------------------------------------------------------------------------
(* The theorem.                                                            *)

LEMMA V2Initially == ASSUME V2Init PROVE V2Inv
<1> USE DEF V2Init
<1>1. NetBuf \in Nat \ {0} /\ DiskFact \in Nat \ {0} BY Positive, Zenon
<1>2. Junk \in Piece BY Zenon DEF Junk, Piece
<1>3. NoFile \in Entry /\ NoFile.fd = None BY <1>2 DEF NoFile, Entry
<1>4. ServerRight BY <1>3, Zenon DEF ServerRight, EntryRight
<1>5. NetSound BY Zenon DEF NetSound
<1>6. ClientTypes BY <1>1, <1>2 DEF ClientTypes
<1>7. StackRight /\ SizeRight /\ Counted BY V2Assumption DEF StackRight, Fetches, SizeRight, Counted
<1>8. Between /\ Fetching /\ StreamIntact BY DEF Between, Fetching, Fetches, StreamIntact
<1> QED BY <1>4, <1>5, <1>6, <1>7, <1>8, Zenon DEF V2Inv, ClientRight

LEMMA V2Stutters == ASSUME V2Inv, UNCHANGED v2vars PROVE V2Inv'
<1> USE DEF v2vars, serverVars, fileVars, blockVars, readerVars, history
<1>1. UNCHANGED clientState /\ UNCHANGED <<net, sl, crossed, pc>> BY Zenon DEF clientState
<1>2. Outside BY <1>1, Zenon DEF Outside
<1> QED BY <1>1, <1>2, OutsideStep, Zenon

\* Every read gives the pieces of the open file that follow those given before
\* and the end only at the end, unless since it was opened the client took an
\* answer to another request, a server served another file, or the block was
\* read before its last memcpy: cli_read and client_main against ce_svc_main.
THEOREM StreamIsIntact == V2Spec => []StreamIntact
<1>1. V2Init => V2Inv BY V2Initially, Zenon
<1>2. V2Inv /\ [V2Next]_v2vars => V2Inv'
  <2> SUFFICES ASSUME V2Inv, [V2Next]_v2vars PROVE V2Inv' BY Zenon
  <2>1. CASE V2Next
    BY <2>1, ReaderStep, CallStep, FaultStep, CopyStep, MainStep, EntryStep, ReceiveStep, Zenon
    DEF V2Next
  <2>2. CASE UNCHANGED v2vars BY <2>2, V2Stutters, Zenon
  <2> QED BY <2>1, <2>2, Zenon
<1>3. V2Inv => StreamIntact BY Zenon DEF V2Inv, ClientRight
<1> QED BY <1>1, <1>2, <1>3, PTL DEF V2Spec

=============================================================================

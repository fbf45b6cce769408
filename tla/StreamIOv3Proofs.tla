-------------------------- MODULE StreamIOv3Proofs --------------------------
(***************************************************************************)
(* The table of stations of the server by itself, and then the client and  *)
(* the server over a network that loses, delays and reorders packets, for  *)
(* any sizes, files and numbers of stations and service threads.           *)
(***************************************************************************)
EXTENDS StreamIOv3, TLAPS

(***************************************************************************)
(* The table: a station's buffer holds what its file has at the disk block *)
(* it is said to hold, and therefore every packet carries at least the     *)
(* bytes that its header names.                                            *)
(***************************************************************************)
Openable == {f \in Files : SizeOf[f] >= 0}

Typed ==
    /\ fd \in [Stations -> Openable \cup {Closed}]
    /\ pos \in [Stations -> Nat] /\ buflen \in [Stations -> Nat]
    /\ cdkio_block \in [Stations -> Int]
    /\ buffer \in [Stations -> [file : Openable \cup {Closed}, start : Nat]]
    /\ request_block \in [Stations -> Nat]
    /\ map \in [Stations -> SUBSET Pieces]
    /\ svc \in [Threads -> Stations \cup {Idle}]
    /\ netq \in Seq(Stations)

LEMMA Sizes ==
  /\ BlockLen \in Nat \ {0} /\ PieceLen \in Nat \ {0} /\ PerDisk \in Nat \ {0}
  /\ DiskLen \in Nat \ {0}
BY SizesAssumption DEF DiskLen

LEMMA SizeIs == \A f \in Openable : f \in Files /\ SizeOf[f] \in Nat
BY FilesAssumption DEF Openable

\* The start of a disk block, without a product in sight.
LEMMA Bases ==
  ASSUME NEW c \in Int, c >= -1
  PROVE  /\ c * DiskLen \in Int /\ (c >= 0 => c * DiskLen \in Nat)
         /\ (c + 1) * DiskLen = c * DiskLen + DiskLen /\ 0 * DiskLen = 0
<1> DEFINE d == DiskLen
<1>1. d \in Nat BY Sizes, Zenon
<1> HIDE DEF d
<1>2. c * d \in Int BY <1>1
<1>3. c >= 0 => c * d \in Nat BY <1>1
<1>4. (c + 1) * d = c * d + d /\ 0 * d = 0 BY <1>1
<1> QED BY <1>2, <1>3, <1>4, Zenon DEF d

-----------------------------------------------------------------------------
\* What read delivers of file f from an offset on.
Got(f, from) ==
    IF f = Closed \/ from >= SizeOf[f] THEN 0
    ELSE IF SizeOf[f] - from < DiskLen THEN SizeOf[f] - from ELSE DiskLen

\* Disk block c of file f is in the buffer, and the offset is behind it.
Fits(f, c, buf, len, p) ==
    \/ c = -1 /\ p = 0
    \/ /\ c >= 0 /\ c * DiskLen < SizeOf[f]
       /\ buf = [file |-> f, start |-> c * DiskLen]
       /\ len = Got(f, c * DiskLen) /\ p = c * DiskLen + len
    \/ /\ c >= 0 /\ c * DiskLen >= SizeOf[f]
       /\ len = 0 /\ p >= SizeOf[f]

LEMMA InStepFits ==
  BufferInStep <=> \A n \in Stations : fd[n] # Closed =>
                       Fits(fd[n], cdkio_block[n], buffer[n], buflen[n], pos[n])
BY Zenon DEF BufferInStep, Fits, Got, Delivered

Want(n) == request_block[n] \div PerDisk

LEMMA WantIs == ASSUME Typed, NEW n \in Stations PROVE Want(n) \in Nat
<1>1. request_block[n] \in Nat BY Zenon DEF Typed
<1>2. \A a \in Nat, b \in Nat \ {0} : a \div b \in Nat OBVIOUS
<1> QED BY <1>1, <1>2, Sizes, Zenon DEF Want

\* A read leaves the buffer with the disk block that was wanted.
LEMMA ReadFits ==
  ASSUME Typed, NEW n \in Stations, fd[n] # Closed,
         Fits(fd[n], cdkio_block[n], buffer[n], buflen[n], pos[n])
  PROVE  LET r == stbtbl_read(n) IN Fits(fd[n], Want(n), r.buffer, r.buflen, r.pos)
<1> DEFINE f == fd[n]
           c == cdkio_block[n]
           w == Want(n)
           from == ReadFrom(n)
           r == stbtbl_read(n)
<1>1. f \in Openable /\ SizeOf[f] \in Nat /\ w \in Nat /\ c \in Int /\ pos[n] \in Nat
  BY WantIs, SizeIs, Zenon DEF Typed
<1>2. c >= -1 BY <1>1 DEF Fits
<1>3. CASE w = c
  <2>1. r = [buffer |-> buffer[n], buflen |-> buflen[n], pos |-> pos[n]]
    BY <1>3, Zenon DEF stbtbl_read, Want
  <2> QED BY <1>3, <2>1
<1>4. CASE w # c
  <2>1. r = [buffer |-> [file |-> f, start |-> from], buflen |-> Got(f, from),
             pos |-> from + Got(f, from)]
    BY <1>4, Zenon DEF stbtbl_read, Want, Delivered, Got
  <2>2. from = IF w = c + 1 THEN pos[n] ELSE w * DiskLen BY Zenon DEF ReadFrom, Want
  <2>3. w * DiskLen \in Nat /\ c * DiskLen \in Int /\ DiskLen \in Nat \ {0} /\ 0 * DiskLen = 0
        /\ (c + 1) * DiskLen = c * DiskLen + DiskLen
    <3>1. w \in Int /\ w >= -1 /\ w >= 0 BY <1>1
    <3>2. w * DiskLen \in Nat /\ 0 * DiskLen = 0 BY <3>1, Bases, Zenon
    <3>3. c * DiskLen \in Int /\ (c + 1) * DiskLen = c * DiskLen + DiskLen BY <1>1, <1>2, Bases, Zenon
    <3> QED BY <3>2, <3>3, Sizes, Zenon
  <2>4. from = w * DiskLen \/ (w * DiskLen >= SizeOf[f] /\ from >= SizeOf[f] /\ from \in Nat)
    <3>1. CASE w = c + 1
      BY <1>1, <2>2, <2>3, <3>1 DEF Fits, Got
    <3> QED BY <2>2, <3>1, Zenon
  <2>5. CASE from = w * DiskLen
    <3>1. r.buffer = [file |-> f, start |-> w * DiskLen] /\ r.buflen = Got(f, w * DiskLen)
          /\ r.pos = w * DiskLen + Got(f, w * DiskLen)
      BY <2>1, <2>5
    <3>2. CASE w * DiskLen < SizeOf[f] BY <1>1, <3>1, <3>2 DEF Fits
    <3>3. CASE w * DiskLen >= SizeOf[f] BY <1>1, <2>3, <3>1, <3>3 DEF Fits, Got
    <3> QED BY <1>1, <2>3, <3>2, <3>3
  <2>6. CASE w * DiskLen >= SizeOf[f] /\ from >= SizeOf[f] /\ from \in Nat
    <3>1. Got(f, from) = 0 BY <1>1, <2>6, Sizes, Zenon DEF Got
    <3> QED BY <1>1, <2>1, <2>3, <2>6, <3>1 DEF Fits
  <2> QED BY <2>4, <2>5, <2>6, Zenon
<1> QED BY <1>3, <1>4, Zenon

-----------------------------------------------------------------------------
IInv == Typed /\ BufferInStep

LEMMA ReadTyped ==
  ASSUME IInv, NEW n \in Stations
  PROVE  /\ stbtbl_read(n).buffer \in [file : Openable \cup {Closed}, start : Nat]
         /\ stbtbl_read(n).buflen \in Nat /\ stbtbl_read(n).pos \in Nat
<1>1. fd[n] \in Openable \cup {Closed} /\ pos[n] \in Nat /\ buflen[n] \in Nat
      /\ buffer[n] \in [file : Openable \cup {Closed}, start : Nat]
  BY Zenon DEF IInv, Typed
<1>2. Want(n) \in Nat /\ Want(n) * DiskLen \in Nat
  BY WantIs, Bases, Sizes DEF IInv
<1>3. ReadFrom(n) \in Nat BY <1>1, <1>2, Zenon DEF ReadFrom, Want
<1>4. Delivered(n, ReadFrom(n)) \in Nat
  <2>1. CASE fd[n] = Closed BY <2>1, Zenon DEF Delivered
  <2>2. CASE fd[n] # Closed
    <3>1. SizeOf[fd[n]] \in Nat BY <1>1, <2>2, SizeIs, Zenon
    <3> QED BY <1>3, <3>1, Sizes DEF Delivered
  <2> QED BY <2>1, <2>2, Zenon
<1> QED BY <1>1, <1>3, <1>4 DEF stbtbl_read

LEMMA Initially == Init => IInv
<1> SUFFICES ASSUME Init PROVE IInv BY Zenon
<1>1. Typed BY DEF Init, Typed
<1>2. BufferInStep BY Zenon DEF Init, BufferInStep
<1> QED BY <1>1, <1>2, Zenon DEF IInv

\* A step that leaves a station's file and buffer alone leaves them in step.
LEMMA Untouched ==
  ASSUME BufferInStep, NEW n \in Stations, fd'[n] # Closed,
         fd'[n] = fd[n], pos'[n] = pos[n], cdkio_block'[n] = cdkio_block[n],
         buffer'[n] = buffer[n], buflen'[n] = buflen[n]
  PROVE  Fits(fd'[n], cdkio_block'[n], buffer'[n], buflen'[n], pos'[n])
BY InStepFits, Zenon

LEMMA InStepNext ==
  (\A n \in Stations : fd'[n] # Closed =>
      Fits(fd'[n], cdkio_block'[n], buffer'[n], buflen'[n], pos'[n])) => BufferInStep'
BY Zenon DEF BufferInStep, Fits, Got, Delivered

LEMMA OpenStep ==
  ASSUME IInv, NEW n \in Stations, NEW f \in Files, NEW id, NEW cnt,
         stbtbl_setfile(n, id, cnt, f)
  PROVE  IInv'
<1> USE DEF stbtbl_setfile, OpenIt, request, work
<1>1. Typed' BY FilesAssumption DEF IInv, Typed, Openable
<1>2. BufferInStep'
  <2> SUFFICES ASSUME NEW m \in Stations, fd'[m] # Closed
               PROVE  Fits(fd'[m], cdkio_block'[m], buffer'[m], buflen'[m], pos'[m])
    BY InStepNext, Zenon
  <2>1. CASE m = n BY <2>1, Zenon DEF IInv, Typed, Fits
  <2>2. CASE m # n BY <2>2, Untouched, Zenon DEF IInv, Typed
  <2> QED BY <2>1, <2>2, Zenon
<1> QED BY <1>1, <1>2, Zenon DEF IInv

LEMMA RequestStep ==
  ASSUME IInv, NEW n \in Stations, NEW cnt, NEW block \in Nat, NEW pieces \in SUBSET Pieces,
         stbtbl_setrequest(n, cnt, block, pieces)
  PROVE  IInv'
<1> USE DEF stbtbl_setrequest, file, disk
<1>1. netq' \in Seq(Stations)
  <2>1. netq \in Seq(Stations) /\ Append(netq, n) \in Seq(Stations) BY DEF IInv, Typed
  <2> QED BY <2>1, Zenon DEF stbtbl_push
<1>2. Typed' BY <1>1, Zenon DEF IInv, Typed
<1>3. BufferInStep' BY InStepNext, Untouched, Zenon DEF IInv
<1> QED BY <1>2, <1>3, Zenon DEF IInv

LEMMA PopStep == ASSUME IInv, NEW t \in Threads, stbtbl_pop(t) PROVE IInv'
<1> USE DEF stbtbl_pop, file, disk, request
<1>1. Head(netq) \in Stations /\ Tail(netq) \in Seq(Stations) BY DEF IInv, Typed
<1>2. svc' \in [Threads -> Stations \cup {Idle}] BY <1>1, Zenon DEF IInv, Typed
<1>3. Typed' BY <1>1, <1>2, Zenon DEF IInv, Typed
<1>4. BufferInStep' BY InStepNext, Untouched, Zenon DEF IInv
<1> QED BY <1>3, <1>4, Zenon DEF IInv

LEMMA ServiceStep == ASSUME IInv, NEW t \in Threads, streamio_v3_service(t) PROVE IInv'
<1> DEFINE n == svc[t]
           r == stbtbl_read(n)
<1>1. n \in Stations BY Zenon DEF IInv, Typed, streamio_v3_service
<1>2. /\ cdkio_block' = [cdkio_block EXCEPT ![n] = Want(n)]
      /\ buffer' = [buffer EXCEPT ![n] = r.buffer]
      /\ buflen' = [buflen EXCEPT ![n] = r.buflen]
      /\ pos' = [pos EXCEPT ![n] = r.pos]
      /\ svc' = [svc EXCEPT ![t] = Idle]
      /\ UNCHANGED <<fd, request_block, map, netq>>
  BY Zenon DEF streamio_v3_service, Want, request
<1>3. Want(n) \in Nat BY <1>1, WantIs, Zenon DEF IInv
<1>4. /\ r.buffer \in [file : Openable \cup {Closed}, start : Nat]
      /\ r.buflen \in Nat /\ r.pos \in Nat
  BY <1>1, ReadTyped, Zenon
<1> HIDE DEF r, n
<1>5. Typed' BY <1>1, <1>2, <1>3, <1>4 DEF IInv, Typed
<1>6. BufferInStep'
  <2> SUFFICES ASSUME NEW m \in Stations, fd'[m] # Closed
               PROVE  Fits(fd'[m], cdkio_block'[m], buffer'[m], buflen'[m], pos'[m])
    BY InStepNext, Zenon
  <2>1. CASE m = n
    <3>1. Fits(fd[m], cdkio_block[m], buffer[m], buflen[m], pos[m])
      BY <1>2, InStepFits, Zenon DEF IInv
    <3>2. Fits(fd[n], Want(n), r.buffer, r.buflen, r.pos)
      BY <1>2, <2>1, <3>1, ReadFits, Zenon DEF IInv, r
    <3>3. cdkio_block'[n] = Want(n) /\ buffer'[n] = r.buffer /\ buflen'[n] = r.buflen
          /\ pos'[n] = r.pos /\ fd'[n] = fd[n]
      BY <1>1, <1>2, Zenon DEF IInv, Typed
    <3> QED BY <2>1, <3>2, <3>3, Zenon
  <2>2. CASE m # n BY <1>2, <2>2, Untouched, Zenon DEF IInv, Typed
  <2> QED BY <2>1, <2>2, Zenon
<1> QED BY <1>5, <1>6, Zenon DEF IInv

LEMMA CloseStep == ASSUME IInv, NEW n \in Stations, CloseOne(n) PROVE IInv'
<1> USE DEF CloseOne, disk, request, work
<1>1. Typed' BY Zenon DEF IInv, Typed
<1>2. BufferInStep'
  <2> SUFFICES ASSUME NEW m \in Stations, fd'[m] # Closed
               PROVE  Fits(fd'[m], cdkio_block'[m], buffer'[m], buflen'[m], pos'[m])
    BY InStepNext, Zenon
  <2>1. m # n BY Zenon DEF IInv, Typed
  <2> QED BY <2>1, Untouched, Zenon DEF IInv, Typed
<1> QED BY <1>1, <1>2, Zenon DEF IInv

LEMMA StillStep == ASSUME IInv, UNCHANGED <<file, disk, request, work>> PROVE IInv'
<1> USE DEF file, disk, request, work
<1>1. Typed' BY Zenon DEF IInv, Typed
<1>2. BufferInStep' BY InStepNext, Untouched, Zenon DEF IInv
<1> QED BY <1>1, <1>2, Zenon DEF IInv

LEMMA Inductive == IInv /\ [Next]_vars => IInv'
<1> SUFFICES ASSUME IInv, [Next]_vars PROVE IInv' BY Zenon
<1>1. CASE Main
  <2>1. PICK n \in Stations, cnt \in Counts :
          \/ \E id \in StbIds, f \in Files : stbtbl_setfile(n, id, cnt, f)
          \/ \E f \in Files, pieces \in SUBSET Pieces :
               \E block \in 0 .. Blocks(f) - 1 : stbtbl_setrequest(n, cnt, block, pieces)
    BY <1>1, Zenon DEF Main
  <2>2. CASE \E id \in StbIds, f \in Files : stbtbl_setfile(n, id, cnt, f)
    BY <2>2, OpenStep, Zenon
  <2>3. CASE \E f \in Files, pieces \in SUBSET Pieces :
               \E block \in 0 .. Blocks(f) - 1 : stbtbl_setrequest(n, cnt, block, pieces)
    <3>0. PICK f \in Files, pieces \in SUBSET Pieces :
            \E block \in 0 .. Blocks(f) - 1 : stbtbl_setrequest(n, cnt, block, pieces)
      BY <2>3, Zenon
    <3>1. PICK block \in 0 .. Blocks(f) - 1 : stbtbl_setrequest(n, cnt, block, pieces)
      BY <3>0, Zenon
    <3>2. SizeOf[f] \in Int /\ Blocks(f) \in Int
      BY FilesAssumption, Sizes DEF Blocks, CeilDiv
    <3>3. block \in Nat BY <3>2
    <3> QED BY <3>1, <3>3, RequestStep, Zenon
  <2> QED BY <2>1, <2>2, <2>3, Zenon
<1>2. CASE \E t \in Threads : Service(t) BY <1>2, PopStep, ServiceStep, Zenon DEF Service
<1>3. CASE CloseAll
  <2>1. CASE \E n \in Stations : CloseOne(n) BY <2>1, CloseStep, Zenon
  <2>2. CASE CloseAllBegin \/ CloseAllQueueEmpty \/ stbtbl_close_all
    BY <2>2, StillStep, Zenon DEF CloseAllBegin, CloseAllQueueEmpty, stbtbl_close_all
  <2> QED BY <1>3, <2>1, <2>2, Zenon DEF CloseAll
<1>4. CASE \E p \in {0, 1} : stiov3_pause(p) BY <1>4, StillStep, Zenon DEF stiov3_pause
<1>5. CASE UNCHANGED vars BY <1>5, StillStep, Zenon DEF vars
<1> QED BY <1>1, <1>2, <1>3, <1>4, <1>5, Zenon DEF Next

\* However opens, requests, service threads and close_all interleave, the buffer
\* of stbtbl_read holds what the open file has at cdkio_block, and the offset of
\* the file is where the read that skips its lseek expects it.
THEOREM BuffersInStep == Spec => []BufferInStep
<1>1. IInv => BufferInStep BY Zenon DEF IInv
<1> QED BY <1>1, Initially, Inductive, PTL DEF Spec

-----------------------------------------------------------------------------
\* Division and products, in the forms the packets need.
LEMMA DivMod ==
  ASSUME NEW a \in Nat, NEW b \in Nat \ {0}
  PROVE  /\ a \div b \in Nat /\ a % b \in Nat /\ a % b < b
         /\ a = (a \div b) * b + (a % b)
<1> DEFINE q == a \div b
           m == a % b
<1>1. q \in Nat OBVIOUS
<1>2. m \in Nat /\ m < b OBVIOUS
<1>3. \A x \in Int, y \in Int : y > 0 => x = y * (x \div y) + (x % y) BY Z3
<1>4. a = b * q + m BY <1>3
<1>5. a = q * b + m
  <2> HIDE DEF q, m
  <2> QED BY <1>1, <1>2, <1>4
<1> QED BY <1>1, <1>2, <1>5, Zenon

LEMMA Monotone ==
  ASSUME NEW a \in Nat, NEW b \in Nat, NEW c \in Nat, a <= b
  PROVE  a * c \in Nat /\ b * c \in Nat /\ a * c <= b * c
OBVIOUS

\* A piece that is not whole begins in the last pieces of the buffer.
LEMMA Piece ==
  ASSUME NEW len \in Nat, NEW i \in Nat
  PROVE  /\ i * PieceLen \in Nat
         /\ \/ PieceLength(len, i) = PieceLen
            \/ PieceLength(len, i) \in Nat /\ len <= i * PieceLen + PieceLength(len, i)
<1> DEFINE k == PieceLen
           q == len \div k
           m == len % k
<1>0. k \in Nat \ {0} BY Sizes, Zenon
<1>1. q \in Nat /\ m \in Nat /\ len = q * k + m
  <2> HIDE DEF k
  <2> QED BY <1>0, DivMod, Zenon
<1>2. i * k \in Nat BY <1>0, Monotone
<1>3. CASE i < q BY <1>2, <1>3, Zenon DEF PieceLength
<1>4. CASE ~(i < q)
  <2>1. q <= i BY <1>1, <1>4
  <2>2. q * k <= i * k /\ q * k \in Nat
    <3> HIDE DEF k, q
    <3> QED BY <1>0, <1>1, <2>1, Monotone, Zenon
  <2>3. PieceLength(len, i) = m BY <1>4, Zenon DEF PieceLength
  <2>4. len <= i * k + m
    <3> HIDE DEF k, q, m
    <3> QED BY <1>1, <1>2, <2>2
  <2> QED BY <1>1, <1>2, <2>3, <2>4, Zenon
<1> QED BY <1>3, <1>4, Zenon

\* What the file has of a block at off in a disk block is what the buffer has of it.
LEMMA LastBlock ==
  ASSUME NEW s \in Nat, NEW base \in Nat, NEW off \in Nat, NEW l \in Nat, NEW d \in Nat,
         off + l <= d, base + off < s
  PROVE  off + (IF s - base - off < l THEN s - base - off ELSE l) <=
           IF s - base < d THEN s - base ELSE d
OBVIOUS

LEMMA InBuffer ==
  ASSUME NEW base \in Nat, NEW off \in Nat, NEW at \in Nat, NEW need \in Nat, NEW l \in Nat,
         NEW len \in Nat, off + l <= len, need <= l - at
  PROVE  base + off + at + need <= base + len
OBVIOUS

\* Where block b is in the disk block that holds it.
LEMMA BlockPlace ==
  ASSUME NEW b \in Nat
  PROVE  LET w == b \div PerDisk
             m == b % PerDisk
         IN  /\ w * DiskLen \in Nat /\ m * BlockLen \in Nat
             /\ b * BlockLen = w * DiskLen + m * BlockLen
             /\ m * BlockLen + BlockLen <= DiskLen
<1> DEFINE k == PerDisk
           l == BlockLen
           w == b \div k
           m == b % k
<1>1. k \in Nat \ {0} /\ l \in Nat \ {0} BY Sizes, Zenon
<1>2. w \in Nat /\ m \in Nat /\ m < k /\ b = w * k + m
  <2> HIDE DEF k
  <2> QED BY <1>1, DivMod, Zenon
<1> HIDE DEF k, l, w, m
<1>3. b * l = w * (l * k) + m * l BY <1>1, <1>2
<1>4. (m + 1) * l <= k * l
  <2>1. m + 1 \in Nat /\ m + 1 <= k BY <1>1, <1>2
  <2> QED BY <1>1, <2>1, Monotone, Zenon
<1>5. (m + 1) * l = m * l + l /\ k * l = l * k /\ m * l \in Nat BY <1>1, <1>2
<1>6. w * (l * k) \in Nat BY <1>1, <1>2
<1> QED BY <1>3, <1>4, <1>5, <1>6, Zenon DEF k, l, w, m, DiskLen

LEMMA TruthInStep == IInv => PacketsTruthful
<1> SUFFICES ASSUME IInv, NEW n \in Stations, fd[n] # Closed, NEW p \in Packets(n)
             PROVE  Truthful(p, fd[n])
  BY Zenon DEF PacketsTruthful
<1> DEFINE r == stbtbl_read(n)
           b == request_block[n]
           w == b \div PerDisk
           m == b % PerDisk
           size == SizeOf[fd[n]]
           base == w * DiskLen
           off == m * BlockLen
<1>1. PICK i \in map[n] :
        p = [filecnt |-> filecount[n], block |-> b, bid |-> i,
             len |-> PieceLength(r.buflen, i),
             file |-> r.buffer.file, have |-> r.buffer.start + r.buflen,
             at |-> r.buffer.start + off + i * PieceLen]
  BY Zenon DEF Packets, stbtbl_fill
<1>2. i \in Nat /\ b \in Nat /\ size \in Nat
  <2>1. i \in Pieces BY Zenon DEF IInv, Typed
  <2>2. i \in Nat BY <2>1, SizesAssumption DEF Pieces
  <2> QED BY <2>2, SizeIs, Zenon DEF IInv, Typed
<1>3. /\ base \in Nat /\ off \in Nat /\ b * BlockLen = base + off
      /\ off + BlockLen <= DiskLen
  BY <1>2, BlockPlace, Zenon
<1>4. Fits(fd[n], w, r.buffer, r.buflen, r.pos)
  BY ReadFits, InStepFits, Zenon DEF IInv, Want
<1>5. r.buflen \in Nat BY ReadTyped, Zenon
<1> DEFINE need == Needed(size, b, i)
           len == PieceLength(r.buflen, i)
           inblock == IF size - b * BlockLen < BlockLen THEN size - b * BlockLen ELSE BlockLen
           at == i * PieceLen
<1> SUFFICES ASSUME need > 0
             PROVE  /\ r.buffer.file = fd[n]
                    /\ r.buffer.start + off + at = b * BlockLen + at
                    /\ need <= len
                    /\ r.buffer.start + off + at + need <= r.buffer.start + r.buflen
  BY <1>1, Zenon DEF Truthful
<1>6. need = IF inblock - at <= 0 THEN 0
             ELSE IF inblock - at < PieceLen THEN inblock - at ELSE PieceLen
  BY Zenon DEF Needed
<1>7. /\ at \in Nat
      /\ len = PieceLen \/ (len \in Nat /\ r.buflen <= at + len)
  BY <1>2, <1>5, Piece, Zenon
<1> HIDE DEF r, b, w, m, base, off, at, len, need
<1>8. size - b * BlockLen = size - base - off /\ BlockLen \in Nat /\ DiskLen \in Nat
      /\ PieceLen \in Nat
  <2>1. BlockLen \in Nat /\ DiskLen \in Nat /\ PieceLen \in Nat BY Sizes, Zenon
  <2>2. \A x \in Nat, y \in Nat, z \in Nat : x - (y + z) = x - y - z OBVIOUS
  <2>3. size - (base + off) = size - base - off BY <1>2, <1>3, <2>2, Zenon
  <2> QED BY <1>3, <2>1, <2>3, Zenon
<1>9. inblock > at /\ need <= PieceLen /\ need <= inblock - at /\ need \in Nat /\ inblock \in Nat
  <2>1. inblock \in Int BY <1>2, <1>3, <1>8
  <2> HIDE DEF inblock
  <2> QED BY <1>6, <1>7, <1>8, <2>1
<1>10. base + off < size BY <1>2, <1>3, <1>7, <1>8, <1>9
<1>11. /\ r.buffer = [file |-> fd[n], start |-> base]
       /\ r.buflen = IF size - base < DiskLen THEN size - base ELSE DiskLen
  <2>1. base < size /\ w >= 0 BY <1>2, <1>3, <1>10, DivMod, Sizes DEF w
  <2> QED BY <1>2, <1>3, <1>4, <2>1 DEF Fits, Got, base
<1>12. off + inblock <= r.buflen
  <2>1. inblock = IF size - base - off < BlockLen THEN size - base - off ELSE BlockLen
    BY <1>8, Zenon
  <2> HIDE DEF inblock
  <2> QED BY <1>2, <1>3, <1>8, <1>10, <1>11, <2>1, LastBlock
<1>13. need <= len BY <1>3, <1>5, <1>7, <1>8, <1>9, <1>12
<1>14. base + off + at + need <= base + r.buflen
  <2> HIDE DEF inblock
  <2> QED BY <1>3, <1>5, <1>7, <1>9, <1>12, InBuffer, Zenon
<1> QED BY <1>3, <1>11, <1>13, <1>14

\* Every packet a service thread sends carries at least the bytes of the open
\* file that its header names, whatever the sizes of blocks, pieces and disk
\* reads (stbtbl_fill takes the piece's length from the whole buffer).
THEOREM PacketsAreTruthful == Spec => []PacketsTruthful
BY TruthInStep, Initially, Inductive, PTL DEF Spec

-----------------------------------------------------------------------------
(***************************************************************************)
(* The network: what the reader has collected is the block it wants of the *)
(* file it opened, unless a packet was stored that had ceased to pass the  *)
(* response thread's test.                                                 *)
(***************************************************************************)
\* The file a station has open is the one the client named under that count.
ServedFile ==
    \A n \in Stations : fd[n] # Closed =>
        filecount[n] \in 1 .. filecnt /\ fd[n] = opened[filecount[n]]

\* No bytes are ever sent from a file that could not be opened.
ClosedEmpty ==
    \A n \in Stations : fd[n] = Closed => cdkio_block[n] = -1 \/ buflen[n] = 0

\* A data packet says the truth about the file that the client named under its count.
Carried(p) == p.filecnt \in 1 .. filecnt /\ p.bid \in Pieces /\ Truthful(p, opened[p.filecnt])

Message(m) ==
    /\ m.cmd = "OPENFILE" => m.filecnt \in 1 .. filecnt /\ m.file = opened[m.filecnt]
    /\ m.cmd = "FETCH" => m.block \in Nat /\ m.map \in SUBSET Pieces
    /\ m.cmd = "DATA" => Carried(m)

ServerInv == IInv /\ filecount \in [Stations -> Nat] /\ ServedFile /\ ClosedEmpty
NetInv == (\A m \in net : Message(m)) /\ (rpc # None => Carried(rpc))

ClientTyped ==
    /\ opened \in Seq(Files)
    /\ blockwant \in Nat /\ bufok \subseteq Pieces /\ DOMAIN bbuf = Pieces
    /\ cpc \in {"idle", "open", "reset", "resp", "data", "reopen"}
    /\ back \in {"idle", "resp", "data"} /\ (cpc = "reopen" => back # "idle")
    /\ cpc # "idle" \/ isopen = 1 => filecnt > 0

\* A reopen in the middle of a read keeps what was collected.
Collected ==
    stale = 0 /\ cpc \in {"resp", "data", "reopen"} =>
        \A i \in Pieces \ bufok :
            bbuf[i] # None /\ Truthful(bbuf[i], Current) /\ bbuf[i].block = blockwant

ReadInv == ServerInv /\ NetInv /\ ClientTyped /\ Collected

LEMMA NetInitially == Init /\ ClientInit => ReadInv
<1> SUFFICES ASSUME Init, ClientInit PROVE ReadInv BY Zenon
<1>1. IInv BY Initially, Zenon
<1>2. ServerInv BY <1>1, Zenon DEF Init, ServerInv, ServedFile, ClosedEmpty
<1>3. NetInv BY Zenon DEF ClientInit, NetInv
<1>4. ClientTyped BY DEF ClientInit, ClientTyped, filecnt
<1>5. Collected BY Zenon DEF ClientInit, Collected
<1> QED BY <1>2, <1>3, <1>4, <1>5, Zenon DEF ReadInv

\* openfile adds a name and never changes one.
Grows ==
    /\ opened \in Seq(Files) /\ opened' \in Seq(Files)
    /\ Len(opened) <= Len(opened')
    /\ \A k \in 1 .. Len(opened) : opened'[k] = opened[k]

LEMMA CarriedOn == ASSUME Grows, NEW p, Carried(p) PROVE Carried(p)'
<1>1. p.filecnt \in 1 .. Len(opened') /\ opened'[p.filecnt] = opened[p.filecnt]
  <2>1. p.filecnt \in 1 .. Len(opened) BY Zenon DEF Carried, filecnt
  <2>2. Len(opened) \in Nat /\ Len(opened') \in Nat /\ Len(opened) <= Len(opened')
    BY DEF Grows
  <2> QED BY <2>1, <2>2 DEF Grows
<1> QED BY <1>1, Zenon DEF Carried, filecnt, Truthful

LEMMA MessageOn == ASSUME Grows, NEW m, Message(m) PROVE Message(m)'
<1>1. m.cmd = "OPENFILE" => m.filecnt \in 1 .. Len(opened') /\ m.file = opened'[m.filecnt]
  BY DEF Grows, Message, filecnt
<1>2. m.cmd = "DATA" => Carried(m)' BY CarriedOn, Zenon DEF Message
<1> QED BY <1>1, <1>2, Zenon DEF Message, filecnt

\* Packets that were in flight stay as true as they were; the new ones are to be shown.
LEMMA NetStep ==
  ASSUME NetInv, Grows, NEW rest \in SUBSET net, NEW msgs, net' \subseteq rest \cup msgs,
         \A m \in msgs : Message(m)', rpc' = rpc \/ rpc' = None
  PROVE  NetInv'
<1>1. ASSUME NEW m \in net' PROVE Message(m)'
  BY <1>1, MessageOn, Zenon DEF NetInv
<1>2. ASSUME rpc' # None PROVE Carried(rpc)'
  <2>1. rpc' = rpc /\ Carried(rpc) BY <1>2, Zenon DEF NetInv
  <2> QED BY <2>1, CarriedOn, Zenon
<1> QED BY <1>1, <1>2, Zenon DEF NetInv

LEMMA SameTruth ==
  ASSUME NEW p, NEW q, NEW f, Truthful(p, f),
         q.block = p.block, q.bid = p.bid, q.len = p.len, q.file = p.file,
         q.have = p.have, q.at = p.at
  PROVE  Truthful(q, f)
BY Zenon DEF Truthful

LEMMA NetKept ==
  ASSUME NetInv, Grows, net' \subseteq net, rpc' = rpc \/ rpc' = None
  PROVE  NetInv'
<1>1. \A m \in net' : Message(m)' BY MessageOn, Zenon DEF NetInv
<1>2. ASSUME rpc' # None PROVE Carried(rpc)'
  <2>1. rpc' = rpc /\ Carried(rpc) BY <1>2, Zenon DEF NetInv
  <2> QED BY <2>1, CarriedOn, Zenon
<1> QED BY <1>1, <1>2, Zenon DEF NetInv

\* Nothing is sent from an empty buffer.
LEMMA EmptySendsNothing == \A i \in Pieces : PieceLength(0, i) = 0
<1>1. \A k \in Nat \ {0} : 0 \div k = 0 /\ 0 % k = 0 BY Z3
<1> QED BY <1>1, SizesAssumption, Sizes DEF Pieces, PieceLength

\* What read delivers of a closed file.
LEMMA ReadsNothing ==
  ASSUME ServerInv, NEW n \in Stations, fd[n] = Closed
  PROVE  stbtbl_read(n).buflen = 0
<1>1. cdkio_block[n] = -1 \/ buflen[n] = 0 BY Zenon DEF ServerInv, ClosedEmpty
<1>2. Want(n) \in Nat BY WantIs, Zenon DEF ServerInv, IInv
<1>3. CASE Want(n) = cdkio_block[n]
  <2>1. stbtbl_read(n).buflen = buflen[n] BY <1>3, Zenon DEF stbtbl_read, Want
  <2> QED BY <1>1, <1>2, <1>3, <2>1
<1>4. CASE Want(n) # cdkio_block[n]
  <2>1. stbtbl_read(n).buflen = Delivered(n, ReadFrom(n)) BY <1>4, Zenon DEF stbtbl_read, Want
  <2> QED BY <2>1, Zenon DEF Delivered
<1> QED BY <1>3, <1>4, Zenon

\* What a service thread sends is true of the file the client named.
LEMMA SentIsCarried ==
  ASSUME ServerInv, NEW n \in Stations, NEW p \in Packets(n)
  PROVE  Message(DataPacket(p))
<1> DEFINE len == stbtbl_read(n).buflen
           q == DataPacket(p)
<1>0. IInv BY Zenon DEF ServerInv
<1>1. PICK i \in stbtbl_fill(n, len) : p.filecnt = filecount[n] /\ p.bid = i
  BY DEF Packets
<1>2. i \in map[n] /\ i \in Pieces /\ PieceLength(len, i) > 0
  <2> HIDE DEF len
  <2>1. i \in map[n] /\ \A j \in map[n] : j <= i => PieceLength(len, j) > 0
    BY <1>1, Zenon DEF stbtbl_fill
  <2>2. i \in Pieces BY <1>0, <2>1, Zenon DEF IInv, Typed
  <2>3. i <= i BY <2>2, SizesAssumption DEF Pieces
  <2> QED BY <2>1, <2>2, <2>3, Zenon
<1>3. fd[n] # Closed
  <2> SUFFICES ASSUME fd[n] = Closed PROVE FALSE BY Zenon
  <2>1. len = 0 BY ReadsNothing, Zenon
  <2> HIDE DEF len
  <2>2. PieceLength(len, i) = 0 BY <1>2, <2>1, EmptySendsNothing, Zenon
  <2> QED BY <1>2, <2>2
<1>4. filecount[n] \in 1 .. filecnt /\ fd[n] = opened[filecount[n]]
  BY <1>3, Zenon DEF ServerInv, ServedFile
<1>5. Truthful(p, fd[n]) BY <1>0, <1>3, TruthInStep, Zenon DEF PacketsTruthful
<1>6. /\ q.cmd = "DATA" /\ q.filecnt = filecount[n] /\ q.block = p.block /\ q.bid = p.bid
      /\ q.len = p.len /\ q.file = p.file /\ q.have = p.have /\ q.at = p.at
  BY <1>1, Zenon DEF DataPacket
<1> HIDE DEF q, len
<1>7. Truthful(q, fd[n]) BY <1>5, <1>6, SameTruth, Zenon
<1>8. Carried(q) BY <1>1, <1>2, <1>4, <1>6, <1>7, Zenon DEF Carried
<1> QED BY <1>6, <1>8, Zenon DEF Message, q

-----------------------------------------------------------------------------
(* The server's steps. *)

LEMMA ServerStill == ASSUME ServerInv, UNCHANGED server, Grows PROVE ServerInv'
<1>1. UNCHANGED <<file, disk, request, work>> BY Zenon DEF server
<1>2. IInv' BY <1>1, StillStep, Zenon DEF ServerInv
<1>3. UNCHANGED <<fd, filecount, cdkio_block, buflen>> BY <1>1, Zenon DEF file, disk
<1>4. ServedFile'
  <2> SUFFICES ASSUME NEW n \in Stations, fd[n] # Closed
               PROVE  filecount[n] \in 1 .. Len(opened') /\ fd[n] = opened'[filecount[n]]
    BY <1>3, Zenon DEF ServedFile, filecnt
  <2>1. filecount[n] \in 1 .. Len(opened) /\ fd[n] = opened[filecount[n]]
    BY Zenon DEF ServerInv, ServedFile, filecnt
  <2>2. Len(opened) \in Nat /\ Len(opened') \in Nat /\ Len(opened) <= Len(opened')
    BY DEF Grows
  <2> QED BY <2>1, <2>2 DEF Grows
<1>5. ClosedEmpty' BY <1>3, Zenon DEF ServerInv, ClosedEmpty
<1> QED BY <1>2, <1>3, <1>4, <1>5, Zenon DEF ServerInv

LEMMA OpensFile ==
  ASSUME ServerInv, NEW cnt \in 1 .. filecnt, opened \in Seq(Files), opened' = opened,
         stbtbl_setfile(stn, 1, cnt, opened[cnt])
  PROVE  ServerInv'
<1> DEFINE f == opened[cnt]
<1>1. stn \in Stations /\ f \in Files /\ cnt \in Nat
  BY ClientAssumption DEF stn, filecnt
<1>2. IInv' BY <1>1, OpenStep, Zenon DEF ServerInv
<1>3. /\ filecount' = [filecount EXCEPT ![stn] = cnt]
      /\ fd' = [fd EXCEPT ![stn] = IF SizeOf[f] < 0 THEN Closed ELSE f]
      /\ cdkio_block' = [cdkio_block EXCEPT ![stn] = -1] /\ buflen' = buflen
  BY Zenon DEF stbtbl_setfile, OpenIt
<1>4. /\ filecount \in [Stations -> Nat] /\ DOMAIN fd = Stations
      /\ DOMAIN cdkio_block = Stations
  BY Zenon DEF ServerInv, IInv, Typed
<1> HIDE DEF f
<1>5. fd'[stn] \in {Closed, f} /\ filecount'[stn] = cnt /\ cdkio_block'[stn] = -1
  BY <1>1, <1>3, <1>4, Zenon
<1>6. \A n \in Stations \ {stn} :
        fd'[n] = fd[n] /\ filecount'[n] = filecount[n] /\ cdkio_block'[n] = cdkio_block[n]
  BY <1>3, <1>4, Zenon
<1>7. filecount' \in [Stations -> Nat] BY <1>1, <1>3, <1>4, Zenon
<1>8. ServedFile'
  <2> SUFFICES ASSUME NEW n \in Stations, fd'[n] # Closed
               PROVE  filecount'[n] \in 1 .. filecnt /\ fd'[n] = opened[filecount'[n]]
    BY Zenon DEF ServedFile, filecnt
  <2>1. CASE n = stn BY <1>5, <2>1, Zenon DEF f
  <2>2. CASE n # stn BY <1>6, <2>2, Zenon DEF ServerInv, ServedFile
  <2> QED BY <2>1, <2>2, Zenon
<1>9. ClosedEmpty' BY <1>3, <1>5, <1>6, Zenon DEF ServerInv, ClosedEmpty
<1> QED BY <1>2, <1>7, <1>8, <1>9, Zenon DEF ServerInv

\* A step that keeps the files and the buffers.
LEMMA SameFile ==
  ASSUME ServerInv, IInv', UNCHANGED <<fd, filecount, cdkio_block, buflen, opened>>
  PROVE  ServerInv'
BY Zenon DEF ServerInv, ServedFile, ClosedEmpty, filecnt

LEMMA TakesRequest ==
  ASSUME ServerInv, NEW cnt, NEW block \in Nat, NEW pieces \in SUBSET Pieces,
         stbtbl_setrequest(stn, cnt, block, pieces), opened' = opened
  PROVE  ServerInv'
<1>1. IInv' BY RequestStep, ClientAssumption, Zenon DEF ServerInv, stn
<1>2. UNCHANGED <<fd, filecount, cdkio_block, buflen>> BY Zenon DEF stbtbl_setrequest, file, disk
<1> QED BY <1>1, <1>2, SameFile, Zenon

LEMMA Pops == ASSUME ServerInv, NEW t \in Threads, stbtbl_pop(t), opened' = opened PROVE ServerInv'
<1>1. IInv' BY PopStep, Zenon DEF ServerInv
<1>2. UNCHANGED <<fd, filecount, cdkio_block, buflen>> BY Zenon DEF stbtbl_pop, file, disk
<1> QED BY <1>1, <1>2, SameFile, Zenon

LEMMA Serves ==
  ASSUME ServerInv, NEW t \in Threads, streamio_v3_service(t), opened' = opened
  PROVE  ServerInv' /\ svc[t] \in Stations
<1> DEFINE n == svc[t]
           len == stbtbl_read(n).buflen
<1>1. IInv' BY ServiceStep DEF ServerInv
<1>2. /\ n \in Stations /\ UNCHANGED <<fd, filecount>>
      /\ buflen' = [buflen EXCEPT ![n] = len]
  BY Zenon DEF streamio_v3_service, ServerInv, IInv, Typed
<1>3. \A m \in Stations \ {n} : cdkio_block'[m] = cdkio_block[m] /\ buflen'[m] = buflen[m]
  BY Zenon DEF streamio_v3_service, ServerInv, IInv, Typed
<1>4. fd[n] = Closed => len = 0 BY <1>2, ReadsNothing, Zenon
<1> HIDE DEF len, n
<1>5. buflen'[n] = len BY <1>2, Zenon DEF ServerInv, IInv, Typed
<1>6. ClosedEmpty'
  <2> SUFFICES ASSUME NEW m \in Stations, fd[m] = Closed
               PROVE  cdkio_block'[m] = -1 \/ buflen'[m] = 0
    BY <1>2, Zenon DEF ClosedEmpty
  <2>1. CASE m = n BY <1>4, <1>5, <2>1, Zenon
  <2>2. CASE m # n BY <1>3, <2>2, Zenon DEF ServerInv, ClosedEmpty
  <2> QED BY <2>1, <2>2, Zenon
<1>7. ServedFile' BY <1>2, Zenon DEF ServerInv, ServedFile, filecnt
<1> QED BY <1>1, <1>2, <1>6, <1>7, Zenon DEF ServerInv, n

LEMMA Restarts == ASSUME ServerInv, ServerRestart, opened' = opened PROVE ServerInv'
<1>0. stn \in Stations /\ IInv /\ filecount \in [Stations -> Nat]
  BY ClientAssumption, Zenon DEF stn, ServerInv
<1>1. Typed' BY <1>0 DEF IInv, Typed, ServerRestart
<1>2. fd'[stn] = Closed /\ buflen'[stn] = 0 /\ filecount' \in [Stations -> Nat]
  BY <1>0, Zenon DEF ServerRestart, IInv, Typed
<1>3. \A n \in Stations \ {stn} :
        /\ fd'[n] = fd[n] /\ filecount'[n] = filecount[n] /\ cdkio_block'[n] = cdkio_block[n]
        /\ buflen'[n] = buflen[n] /\ buffer'[n] = buffer[n] /\ pos'[n] = pos[n]
  BY <1>0, Zenon DEF ServerRestart, IInv, Typed
<1>4. BufferInStep'
  <2> SUFFICES ASSUME NEW m \in Stations, fd'[m] # Closed
               PROVE  Fits(fd'[m], cdkio_block'[m], buffer'[m], buflen'[m], pos'[m])
    BY InStepNext, Zenon
  <2>1. m # stn BY <1>2, Zenon
  <2> QED BY <1>0, <1>3, <2>1, Untouched, Zenon DEF IInv
<1>5. ServedFile' BY <1>2, <1>3 DEF ServerInv, ServedFile, filecnt
<1>6. ClosedEmpty' BY <1>2, <1>3, Zenon DEF ServerInv, ClosedEmpty
<1> QED BY <1>1, <1>2, <1>4, <1>5, <1>6, Zenon DEF ServerInv, IInv

-----------------------------------------------------------------------------
(* The client's steps. *)

LEMMA NamesStay == ASSUME ClientTyped, opened' = opened PROVE Grows
BY DEF ClientTyped, Grows

LEMMA SendsOnly ==
  ASSUME NEW rest, NEW msgs, Send(rest, msgs) PROVE net' \subseteq rest \cup msgs
BY Zenon DEF Send

\* A step of the server alone.
LEMMA ClientStill ==
  ASSUME ClientTyped, Collected, UNCHANGED client
  PROVE  ClientTyped' /\ Collected'
<1> USE DEF client, opening, reading, wait
<1>1. ClientTyped' BY Zenon DEF ClientTyped, filecnt
<1>2. Collected' BY Zenon DEF Collected, Current, filecnt, Truthful
<1> QED BY <1>1, <1>2, Zenon

\* A step that leaves what was collected alone and does not begin a collection.
LEMMA CollectedStill ==
  ASSUME Collected, UNCHANGED <<opened, bufok, bbuf, blockwant, stale>>,
         cpc' \in {"resp", "data", "reopen"} => cpc \in {"resp", "data", "reopen"}
  PROVE  Collected'
BY Zenon DEF Collected, Current, filecnt, Truthful

LEMMA OpenfileStep ==
  ASSUME ReadInv, NEW f \in Files, stiov3_openfile(f) PROVE ReadInv'
<1> USE DEF stiov3_openfile
<1>1. opened \in Seq(Files) /\ opened' = Append(opened, f) BY Zenon DEF ReadInv, ClientTyped
<1>2. Grows /\ Len(opened') > 0 BY <1>1 DEF Grows
<1>3. ServerInv' BY <1>2, ServerStill, Zenon DEF ReadInv
<1>4. NetInv'
  <2>1. NetInv /\ net' \subseteq net /\ rpc' = rpc BY Zenon DEF ReadInv
  <2> QED BY <1>2, <2>1, NetKept, Zenon
<1>5. ClientTyped' BY <1>2, Zenon DEF ReadInv, ClientTyped, filecnt, Grows
<1>6. Collected' BY Zenon DEF Collected
<1> QED BY <1>3, <1>4, <1>5, <1>6, Zenon DEF ReadInv

\* The other steps of the client send nothing new.
LEMMA ReaderFrame ==
  ASSUME ReadInv, UNCHANGED <<server, opened>>, net' \subseteq net, rpc' = rpc \/ rpc' = None
  PROVE  ServerInv' /\ NetInv'
<1>1. Grows BY NamesStay, Zenon DEF ReadInv
<1>2. ServerInv' BY <1>1, ServerStill, Zenon DEF ReadInv
<1>3. NetInv' BY <1>1, NetKept, Zenon DEF ReadInv
<1> QED BY <1>2, <1>3, Zenon

LEMMA ReaderStep == ASSUME ReadInv, Reader PROVE ReadInv'
<1>1. CASE \E f \in Files : stiov3_openfile(f) BY <1>1, OpenfileStep, Zenon
<1>2. CASE \E b \in SeekTo : stiov3_seek(b)
  <2> PICK b \in SeekTo : stiov3_seek(b) BY <1>2, Zenon
  <2> USE DEF stiov3_seek, opening, wait
  <2>1. ServerInv' /\ NetInv' BY ReaderFrame, Zenon
  <2>2. ClientTyped' BY ClientAssumption, Zenon DEF ReadInv, ClientTyped, filecnt
  <2>3. Collected' BY Zenon DEF Collected
  <2> QED BY <2>1, <2>2, <2>3, Zenon DEF ReadInv
<1>3. CASE ReadBegin
  <2> USE <1>3 DEF ReadBegin, opening
  <2>1. ServerInv' /\ NetInv' BY ReaderFrame, Zenon
  <2>2. ClientTyped' BY Zenon DEF ReadInv, ClientTyped, filecnt
  <2>3. Collected' BY Zenon DEF Collected
  <2> QED BY <2>1, <2>2, <2>3, Zenon DEF ReadInv
<1>4. CASE stiov3_abort
  <2> USE <1>4 DEF stiov3_abort, opening, reading
  <2>1. ServerInv' /\ NetInv' BY ReaderFrame, Zenon
  <2>2. ClientTyped' BY Zenon DEF ReadInv, ClientTyped, filecnt
  <2>3. Collected' BY CollectedStill, Zenon DEF ReadInv
  <2> QED BY <2>1, <2>2, <2>3, Zenon DEF ReadInv
<1>5. CASE unset_VODserver
  <2> USE <1>5 DEF unset_VODserver, opening, reading, wait
  <2>1. ServerInv' /\ NetInv' BY ReaderFrame, Zenon
  <2>2. ClientTyped' BY Zenon DEF ReadInv, ClientTyped, filecnt
  <2>3. Collected' BY CollectedStill, Zenon DEF ReadInv
  <2> QED BY <2>1, <2>2, <2>3, Zenon DEF ReadInv
<1>6. CASE CutReturns
  <2> USE <1>6 DEF CutReturns, opening
  <2>1. ServerInv' /\ NetInv' BY ReaderFrame, Zenon
  <2>2. ClientTyped' BY Zenon DEF ReadInv, ClientTyped, filecnt, Waiting
  <2>3. Collected' BY Zenon DEF Collected
  <2> QED BY <2>1, <2>2, <2>3, Zenon DEF ReadInv
<1> QED BY <1>1, <1>2, <1>3, <1>4, <1>5, <1>6, Zenon DEF Reader

LEMMA ProgressStep == ASSUME ReadInv, Progress PROVE ReadInv'
<1>1. CASE OpenDone
  <2> USE <1>1 DEF OpenDone, reading
  <2>1. ServerInv' /\ NetInv' BY ReaderFrame, Zenon
  <2>2. ClientTyped' BY Zenon DEF ReadInv, ClientTyped, filecnt
  <2>3. Collected' BY CollectedStill, Zenon DEF ReadInv
  <2> QED BY <2>1, <2>2, <2>3, Zenon DEF ReadInv
<1>2. CASE ReadReset
  <2> USE <1>2 DEF ReadReset, opening
  <2>1. ServerInv' /\ NetInv' BY ReaderFrame, Zenon
  <2>2. ClientTyped' BY Zenon DEF ReadInv, ClientTyped, filecnt
  <2>3. Collected' BY Zenon DEF Collected
  <2> QED BY <2>1, <2>2, <2>3, Zenon DEF ReadInv
<1>3. CASE ResponseSeen
  <2> USE <1>3 DEF ResponseSeen, opening
  <2>1. ServerInv' /\ NetInv' BY ReaderFrame, Zenon
  <2>2. ClientTyped' BY Zenon DEF ReadInv, ClientTyped, filecnt
  <2>3. Collected' BY CollectedStill, Zenon DEF ReadInv
  <2> QED BY <2>1, <2>2, <2>3, Zenon DEF ReadInv
<1>4. CASE internal_read
  <2> USE <1>4 DEF internal_read, opening
  <2>1. ServerInv' /\ NetInv' BY ReaderFrame, Zenon
  <2>2. ClientTyped' BY DEF ReadInv, ClientTyped, filecnt
  <2>3. Collected' BY Zenon DEF Collected
  <2> QED BY <2>1, <2>2, <2>3, Zenon DEF ReadInv
<1>5. CASE FindServer
  <2> USE <1>5 DEF FindServer, opening, reading, wait
  <2>1. ServerInv' /\ NetInv' BY ReaderFrame, Zenon
  <2>2. ClientTyped' BY Zenon DEF ReadInv, ClientTyped, filecnt
  <2>3. Collected' BY CollectedStill, Zenon DEF ReadInv
  <2> QED BY <2>1, <2>2, <2>3, Zenon DEF ReadInv
<1>6. CASE internal_reopen_file
  <2> USE <1>6 DEF internal_reopen_file, reading
  <2>1. ServerInv' /\ NetInv' BY ReaderFrame, Zenon
  <2>2. ClientTyped' BY Zenon DEF ReadInv, ClientTyped, filecnt
  <2>3. Collected' BY CollectedStill, Zenon DEF ReadInv, Waiting
  <2> QED BY <2>1, <2>2, <2>3, Zenon DEF ReadInv
<1> QED BY <1>1, <1>2, <1>3, <1>4, <1>5, <1>6, Zenon DEF Progress

LEMMA RequestSent == ASSUME ReadInv, sendto_vod PROVE ReadInv'
<1> USE DEF sendto_vod
<1>1. UNCHANGED client /\ UNCHANGED server BY Zenon DEF client
<1>2. opened' = opened /\ rpc' = rpc BY Zenon DEF opening, reading
<1>3. Grows BY <1>2, NamesStay, Zenon DEF ReadInv
<1>4. Message(Request)
  <2>1. filecnt \in 1 .. filecnt BY DEF ReadInv, ClientTyped, Waiting, filecnt
  <2>2. blockwant \in Nat /\ bufok \subseteq Pieces BY Zenon DEF ReadInv, ClientTyped
  <2> QED BY <2>1, <2>2, Zenon DEF Message, Request
<1>5. net' \subseteq net \cup {Request} BY SendsOnly, Zenon
<1>6. NetInv'
  <2>1. \A m \in {Request} : Message(m)'
    <3>1. \A m : Message(m) => Message(m)' BY <1>3, MessageOn, Zenon
    <3> QED BY <1>4, <3>1, Zenon
  <2> QED BY <1>2, <1>3, <1>5, <2>1, NetStep, Zenon DEF ReadInv
<1> QED BY <1>1, <1>3, <1>6, ServerStill, ClientStill, Zenon DEF ReadInv

LEMMA ReceiveStep == ASSUME ReadInv, NEW m \in net, Receive(m) PROVE ReadInv'
<1>1. UNCHANGED server /\ net' \subseteq net /\ Message(m)
  BY Zenon DEF Receive, ReadInv, NetInv
<1>2. CASE NeedRegist(m)
  <2> USE <1>2 DEF NeedRegist, opening, reading, wait
  <2>1. ServerInv' /\ NetInv' BY <1>1, ReaderFrame, Zenon
  <2>2. ClientTyped' BY Zenon DEF ReadInv, ClientTyped, filecnt
  <2>3. Collected' BY CollectedStill, Zenon DEF ReadInv
  <2> QED BY <2>1, <2>2, <2>3, Zenon DEF ReadInv
<1>3. CASE OpenfileAnswer(m)
  <2> USE <1>3 DEF OpenfileAnswer, reading
  <2>1. ServerInv' /\ NetInv' BY <1>1, ReaderFrame, Zenon
  <2>2. ClientTyped' BY Zenon DEF ReadInv, ClientTyped, filecnt
  <2>3. Collected' BY CollectedStill, Zenon DEF ReadInv
  <2> QED BY <2>1, <2>2, <2>3, Zenon DEF ReadInv
<1>4. CASE FetchResponse(m)
  <2> USE <1>4 DEF FetchResponse, opening, wait
  <2>1. ServerInv' /\ NetInv' BY <1>1, ReaderFrame, Zenon
  <2>2. ClientTyped' BY Zenon DEF ReadInv, ClientTyped, filecnt
  <2>3. Collected' BY CollectedStill, Zenon DEF ReadInv
  <2> QED BY <2>1, <2>2, <2>3, Zenon DEF ReadInv
<1>5. CASE NeedReopen(m)
  <2> USE <1>5 DEF NeedReopen, opening, reading
  <2>1. ServerInv' /\ NetInv' BY <1>1, ReaderFrame, Zenon
  <2>2. ClientTyped' BY Zenon DEF ReadInv, ClientTyped, filecnt
  <2>3. Collected' BY CollectedStill, Zenon DEF ReadInv
  <2> QED BY <2>1, <2>2, <2>3, Zenon DEF ReadInv
<1>6. CASE FetchData(m)
  <2> USE <1>6 DEF FetchData, opening, wait
  <2>1. opened' = opened /\ (rpc' = m \/ rpc' = None) BY Zenon
  <2>2. Grows BY <2>1, NamesStay, Zenon DEF ReadInv
  <2>3. ServerInv' BY <1>1, <2>2, ServerStill, Zenon DEF ReadInv
  <2>4. NetInv'
    <3>1. \A p : Carried(p) => Carried(p)' BY <2>2, CarriedOn, Zenon
    <3>2. \A k \in net' : Message(k)' BY <1>1, <2>2, MessageOn, Zenon DEF ReadInv, NetInv
    <3>3. Carried(m) BY <1>1, Zenon DEF Message
    <3>4. rpc' # None => Carried(rpc)'
      <4> SUFFICES ASSUME rpc' = m PROVE Carried(rpc)' BY <2>1, Zenon
      <4> QED BY <3>1, <3>3, Zenon DEF Carried
    <3> QED BY <3>2, <3>4, Zenon DEF NetInv
  <2>5. ClientTyped' BY Zenon DEF ReadInv, ClientTyped, filecnt
  <2>6. Collected' BY CollectedStill, Zenon DEF ReadInv
  <2> QED BY <2>3, <2>4, <2>5, <2>6, Zenon DEF ReadInv
<1> QED BY <1>2, <1>3, <1>4, <1>5, <1>6, Zenon DEF Receive

\* A packet that still passes its test is a piece of the block that is wanted.
LEMMA StoreStep == ASSUME ReadInv, StoreData PROVE ReadInv'
<1> USE DEF StoreData
<1>1. UNCHANGED <<server, opened, net, cpc, back, isopen, blockwant>> /\ rpc' = None
  BY Zenon DEF opening, wait
<1>2. ServerInv' /\ NetInv' BY <1>1, ReaderFrame, Zenon
<1>3. Carried(rpc) /\ rpc # None BY Zenon DEF ReadInv, NetInv
<1>4. ClientTyped' BY <1>1, Zenon DEF ReadInv, ClientTyped, filecnt
<1>5. CASE rpc.bid \notin bufok
  <2>1. Collected' BY <1>1, <1>5, CollectedStill, Zenon DEF ReadInv
  <2> QED BY <1>2, <1>4, <2>1, Zenon DEF ReadInv
<1>6. CASE rpc.bid \in bufok
  <2> SUFFICES Collected' BY <1>2, <1>4, Zenon DEF ReadInv
  <2> SUFFICES ASSUME stale' = 0, cpc' \in {"resp", "data", "reopen"},
                      NEW i \in Pieces \ bufok'
               PROVE  /\ bbuf'[i] # None /\ Truthful(bbuf'[i], opened[Len(opened)])
                      /\ bbuf'[i].block = blockwant
    BY <1>1, Zenon DEF Collected, Current, filecnt, Truthful
  <2>1. Matches(rpc) /\ stale = 0 BY <1>6
  <2>2. DOMAIN bbuf = Pieces /\ bbuf' = [bbuf EXCEPT ![rpc.bid] = rpc]
        /\ bufok' = bufok \ {rpc.bid}
    BY <1>6, Zenon DEF ReadInv, ClientTyped
  <2>3. CASE i = rpc.bid
    <3>1. bbuf'[i] = rpc BY <2>2, <2>3, Zenon
    <3>2. rpc.filecnt = Len(opened) /\ rpc.block = blockwant BY <2>1, Zenon DEF Matches, filecnt
    <3>3. Truthful(rpc, opened[Len(opened)]) BY <1>3, <3>2, Zenon DEF Carried
    <3> QED BY <1>3, <3>1, <3>2, <3>3, Zenon
  <2>4. CASE i # rpc.bid
    <3>1. bbuf'[i] = bbuf[i] /\ i \in Pieces \ bufok BY <2>2, <2>4, Zenon
    <3>2. cpc \in {"resp", "data", "reopen"} BY <1>1, Zenon
    <3> QED BY <2>1, <3>1, <3>2, Zenon DEF ReadInv, Collected, Current, filecnt
  <2> QED BY <2>3, <2>4, Zenon
<1> QED BY <1>5, <1>6, Zenon

-----------------------------------------------------------------------------
\* What the server answers: only data packets carry anything to be shown.
LEMMA ServerSends ==
  ASSUME ReadInv, ServerInv', UNCHANGED client, NEW rest \in SUBSET net, NEW msgs,
         Send(rest, msgs), \A m \in msgs : Message(m)
  PROVE  ReadInv'
<1>1. opened' = opened /\ rpc' = rpc BY Zenon DEF client, opening, reading
<1>2. Grows BY <1>1, NamesStay, Zenon DEF ReadInv
<1>3. \A m \in msgs : Message(m)' BY <1>2, MessageOn, Zenon
<1>4. NetInv' BY <1>1, <1>2, <1>3, NetStep, SendsOnly, Zenon DEF ReadInv
<1> QED BY <1>4, ClientStill, Zenon DEF ReadInv

\* An answer without data is always as it should be.
LEMMA AnswerIsMessage ==
  ASSUME NEW a, a.cmd \notin {"OPENFILE", "FETCH", "DATA"} PROVE \A k \in {a} : Message(k)
BY Zenon DEF Message

LEMMA MainStep == ASSUME ReadInv, NEW m \in net, streamio_v3_main(m) PROVE ReadInv'
<1>1. UNCHANGED client /\ Message(m) /\ net \ {m} \in SUBSET net
  BY Zenon DEF streamio_v3_main, ReadInv, NetInv
<1>2. opened' = opened BY <1>1, Zenon DEF client, opening
<1>3. ServerInv /\ opened \in Seq(Files) /\ Grows
  BY <1>2, NamesStay, Zenon DEF ReadInv, ClientTyped
<1>4. UNCHANGED server => ServerInv' BY <1>3, ServerStill, Zenon
<1>5. CASE HandleUnregistered(m)
  <2> DEFINE msgs == {[cmd |-> "NEED_REGIST"]}
  <2>1. Send(net \ {m}, msgs) /\ UNCHANGED server BY <1>5, Zenon DEF HandleUnregistered
  <2>2. \A k \in msgs : Message(k) BY AnswerIsMessage, Zenon
  <2> HIDE DEF msgs
  <2> QED BY <1>1, <1>4, <2>1, <2>2, ServerSends, Zenon
<1>6. CASE HandleOpenfile(m)
  <2> DEFINE msgs == {[cmd |-> "OPENFILE_ANSWER", filecnt |-> m.filecnt,
                       filesize |-> Reply(stn, 1, m.filecnt, m.file)]}
  <2>1. Send(net \ {m}, msgs) /\ m.cmd = "OPENFILE" BY <1>6, Zenon DEF HandleOpenfile
  <2>2. m.filecnt \in 1 .. filecnt /\ m.file = opened[m.filecnt] BY <1>1, <2>1, Zenon DEF Message
  <2>3. ServerInv'
    <3>1. CASE UNCHANGED server BY <1>4, <3>1, Zenon
    <3>2. CASE stbtbl_setfile(stn, 1, m.filecnt, m.file)
      BY <1>2, <1>3, <2>2, <3>2, OpensFile, Zenon
    <3> QED BY <1>6, <3>1, <3>2, Zenon DEF HandleOpenfile
  <2>4. \A k \in msgs : Message(k) BY AnswerIsMessage, Zenon
  <2> HIDE DEF msgs
  <2> QED BY <1>1, <2>1, <2>3, <2>4, ServerSends, Zenon
<1>7. CASE HandleFetch(m)
  <2>1. m.block \in Nat /\ m.map \in SUBSET Pieces BY <1>1, <1>7, Zenon DEF HandleFetch, Message
  <2>2. CASE stbtbl_setrequest(stn, m.filecnt, m.block, m.map) /\
             Send(net \ {m}, {[cmd |-> "FETCH_RESPONSE", filecnt |-> m.filecnt, block |-> m.block]})
    <3> DEFINE msgs == {[cmd |-> "FETCH_RESPONSE", filecnt |-> m.filecnt, block |-> m.block]}
    <3>1. ServerInv' BY <1>2, <1>3, <2>1, <2>2, TakesRequest, Zenon
    <3>2. \A k \in msgs : Message(k) BY AnswerIsMessage, Zenon
    <3>3. Send(net \ {m}, msgs) BY <2>2, Zenon
    <3> HIDE DEF msgs
    <3> QED BY <1>1, <3>1, <3>2, <3>3, ServerSends, Zenon
  <2>3. CASE UNCHANGED server /\
             Send(net \ {m}, {[cmd |-> "NEED_REOPEN", filecnt |-> m.filecnt, block |-> m.block]})
    <3> DEFINE msgs == {[cmd |-> "NEED_REOPEN", filecnt |-> m.filecnt, block |-> m.block]}
    <3>1. \A k \in msgs : Message(k) BY AnswerIsMessage, Zenon
    <3>2. Send(net \ {m}, msgs) BY <2>3, Zenon
    <3> HIDE DEF msgs
    <3> QED BY <1>1, <1>4, <2>3, <3>1, <3>2, ServerSends, Zenon
  <2> QED BY <1>7, <2>2, <2>3, Zenon DEF HandleFetch
<1> QED BY <1>5, <1>6, <1>7, Zenon DEF streamio_v3_main

LEMMA PopNetStep == ASSUME ReadInv, NEW t \in Threads, ServerPop(t) PROVE ReadInv'
<1>1. UNCHANGED client /\ UNCHANGED net /\ stbtbl_pop(t) BY Zenon DEF ServerPop
<1>2. opened' = opened /\ rpc' = rpc BY <1>1, Zenon DEF client, opening, reading
<1>3. ServerInv' BY <1>1, <1>2, Pops, Zenon DEF ReadInv
<1>4. Grows /\ net' \subseteq net BY <1>1, <1>2, NamesStay, Zenon DEF ReadInv
<1>5. NetInv' BY <1>2, <1>4, NetKept, Zenon DEF ReadInv
<1> QED BY <1>1, <1>3, <1>5, ClientStill, Zenon DEF ReadInv

LEMMA ServeStep == ASSUME ReadInv, NEW t \in Threads, ServerSend(t) PROVE ReadInv'
<1> DEFINE msgs == {DataPacket(p) : p \in Packets(svc[t])}
<1>1. UNCHANGED client /\ streamio_v3_service(t) /\ Send(net, msgs) BY Zenon DEF ServerSend
<1>2. opened' = opened BY <1>1, Zenon DEF client, opening
<1>3. ServerInv' /\ svc[t] \in Stations BY <1>1, <1>2, Serves, Zenon DEF ReadInv
<1>4. \A m \in msgs : Message(m) BY <1>3, SentIsCarried, Zenon DEF ReadInv
<1>5. net \in SUBSET net BY Zenon
<1> HIDE DEF msgs
<1> QED BY <1>1, <1>3, <1>4, <1>5, ServerSends, Zenon

LEMMA RestartStep == ASSUME ReadInv, ServerRestart PROVE ReadInv'
<1>1. UNCHANGED client /\ UNCHANGED net BY Zenon DEF ServerRestart
<1>2. opened' = opened /\ rpc' = rpc BY <1>1, Zenon DEF client, opening, reading
<1>3. ServerInv' BY <1>2, Restarts, Zenon DEF ReadInv
<1>4. Grows /\ net' \subseteq net BY <1>1, <1>2, NamesStay, Zenon DEF ReadInv
<1>5. NetInv' BY <1>2, <1>4, NetKept, Zenon DEF ReadInv
<1> QED BY <1>1, <1>3, <1>5, ClientStill, Zenon DEF ReadInv

LEMMA ReadInductive == ReadInv /\ [NetNext]_allvars => ReadInv'
<1> SUFFICES ASSUME ReadInv, [NetNext]_allvars PROVE ReadInv' OBVIOUS
<1>1. CASE NetNext
  BY <1>1, ReaderStep, ProgressStep, RequestSent, ReceiveStep, StoreStep, MainStep, PopNetStep,
     ServeStep, RestartStep, Zenon DEF NetNext
<1>2. CASE UNCHANGED allvars
  <2>1. UNCHANGED <<server, opened>> /\ net' \subseteq net /\ rpc' = rpc /\ UNCHANGED client
    BY <1>2, Zenon DEF allvars, opening, reading, client
  <2> QED BY <2>1, ReaderFrame, ClientStill, Zenon DEF ReadInv
<1> QED BY <1>1, <1>2, Zenon

\* However packets are lost, delayed, repeated and reordered, the server is
\* restarted, service threads interleave and the caller aborts, the block that
\* internal_read hands to its caller is the one it wanted of the file it opened,
\* as long as no packet was stored that had ceased to match between the test and
\* the mutex of streamio_v3_response.
THEOREM BlocksIntact == NetSpec => []BlockIntactUnlessStale
<1>1. ReadInv => BlockIntactUnlessStale
  BY Zenon DEF ReadInv, Collected, BlockIntactUnlessStale
<1> QED BY <1>1, NetInitially, ReadInductive, PTL DEF NetSpec
=============================================================================

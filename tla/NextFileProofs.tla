----------------------------- MODULE NextFileProofs -----------------------------
(***************************************************************************)
(* The blocks that a player is given across two files, for files, buffers  *)
(* and read-ahead caches of any size: while the caller keeps to the order  *)
(* it has announced, they are the blocks of the opened file, in order and  *)
(* to its end, whichever thread read them.                                 *)
(***************************************************************************)
EXTENDS NextFile, TLAPS

\* Nothing that Seamless excepts has happened.
Regular == strayed = 0 /\ late = 0

Channel == [file : Files \cup {None}, pos : Nat]
Block == [file : Files \cup {None}, start : Nat, n : Nat]
Types ==
    /\ chan \in Channel /\ pbc \in Seq(Block)
    /\ next \in Files \cup {None} /\ opened \in Files \cup {None}
    /\ {strayed, late, already, need_reopen, use_prev} \subseteq {0, 1}
    /\ enable_kbuf \in 0 .. 2 /\ kbuf_pos = 0 /\ due \in Int /\ pbc_off \in Nat

\* The caller's places: P has been joined from OpenBegin or ResetStop on,
\* and whoever opens has forgotten the next file.
Places ==
    /\ opc \in {"close", "check", "towait", "waiting", "open"} => arg \in Files
    /\ opc \in {"close_reset", "reset_join"} \/ ppc \in {"made", "fill"} => opened # None
    /\ opc \in {"check", "towait", "waiting", "open", "reset_join"} => ppc = "off"
    /\ opc = "open" => next = None
    /\ opc \in {"check", "towait", "waiting"} /\ strayed = 0 => next = arg
    /\ ppc \in {"made", "fill"} /\ strayed = 0 => next = None

\* From its lock until it has closed, Q has a next file, and its flag is down.
Reading ==
    /\ qpc \in {"open", "read"} => in_pq = 1 /\ next # None
    /\ qpc \in {"open", "read", "end", "ended"} => already = 0

\* The channel is that of the opened file whenever P may be started on it.
Owned ==
    /\ strayed = 0 /\ next = None /\ need_reopen = 0
          /\ opc \notin {"check", "towait", "waiting", "open"} => chan.file = opened
    /\ strayed = 0 /\ qpc = "off" => chan.file = opened
    /\ strayed = 0 /\ ppc \in {"made", "fill"} => chan.file = opened
    /\ Regular /\ qpc = "off" => already = 0

\* b holds full blocks of f, one behind the other, from unit s on.
Run(b, f, s) ==
    /\ b # <<>> => b[1].start = s
    /\ \A i \in 1 .. Len(b) :
          b[i].file = f /\ b[i].n = BSize /\ b[i].start + BSize <= Size[f]
    /\ \A i \in 1 .. Len(b) - 1 : b[i + 1].start = b[i].start + BSize
EndOf(b) == IF b = <<>> THEN 0 ELSE b[Len(b)].start + BSize

\* What Q has read so far, and whose blocks the flag announces.
Ahead ==
    /\ Regular /\ qpc = "read" => chan.file = next /\ Run(pbc, next, 0) /\ chan.pos = EndOf(pbc)
                                  /\ chan.pos <= Size[next]
    /\ Regular /\ qpc \in {"end", "ended"} /\ stop_pq = 0 /\ next # None => Run(pbc, next, 0)
    /\ Regular /\ already = 1 =>
          IF next # None THEN Run(pbc, next, 0)
          ELSE \/ opc = "open" /\ Run(pbc, arg, 0)
               \/ ppc = "made" /\ Run(pbc, opened, 0)

\* Where P stands.
Due ==
    /\ Regular /\ ppc = "made" => chan.pos = 0 /\ due = 0
    /\ Regular /\ ppc = "fill" =>
          /\ due >= 0 /\ due <= Size[opened]
          /\ IF use_prev = 1 THEN Run(pbc, opened, due) /\ pbc_off = due ELSE chan.pos = due

NextInv == Types /\ Places /\ Reading /\ Owned /\ Ahead /\ Due /\ Seamless

----------------------------------------------------------------------------
(* Runs of blocks.                                                         *)

\* Nothing is a run of any file.
LEMMA RunEmpty == ASSUME NEW f, NEW s PROVE Run(<<>>, f, s) /\ EndOf(<<>>) = 0
BY DEF Run, EndOf

\* A run goes on with a full block that begins where it ends.
LEMMA RunAppend ==
  ASSUME NEW b \in Seq(Block), NEW f \in Files, Run(b, f, 0), NEW c \in Block,
         c = [file |-> f, start |-> EndOf(b), n |-> BSize], EndOf(b) + BSize <= Size[f]
  PROVE  Run(Append(b, c), f, 0) /\ EndOf(Append(b, c)) = EndOf(b) + BSize
<1> DEFINE a == Append(b, c)
<1>1. /\ a \in Seq(Block) /\ Len(a) = Len(b) + 1 /\ a[Len(b) + 1] = c /\ Len(b) \in Nat
      /\ \A i \in 1 .. Len(b) : a[i] = b[i]
  OBVIOUS
<1> HIDE DEF a
<1>2. a # <<>> BY <1>1
<1>3. c.file = f /\ c.n = BSize /\ c.start = EndOf(b) BY Zenon
<1>4. a[1].start = 0
  <2>1. CASE b = <<>> BY <1>1, <1>3, <2>1 DEF EndOf
  <2>2. CASE b # <<>> BY <1>1, <2>2 DEF Run
  <2> QED BY <2>1, <2>2, Zenon
<1>5. ASSUME NEW i \in 1 .. Len(a)
      PROVE  a[i].file = f /\ a[i].n = BSize /\ a[i].start + BSize <= Size[f]
  <2>1. i \in 1 .. Len(b) \/ i = Len(b) + 1 BY <1>1
  <2> QED BY <1>1, <1>3, <2>1, Zenon DEF Run
<1>6. ASSUME NEW i \in 1 .. Len(a) - 1 PROVE a[i + 1].start = a[i].start + BSize
  <2>1. CASE i = Len(b)
    <3>1. b # <<>> /\ a[i] = b[Len(b)] /\ a[i + 1] = c BY <1>1, <1>6, <2>1
    <3> QED BY <1>3, <3>1, Zenon DEF EndOf
  <2>2. CASE i # Len(b)
    <3>1. i \in 1 .. Len(b) - 1 /\ a[i] = b[i] /\ a[i + 1] = b[i + 1] BY <1>1, <1>6, <2>2
    <3> QED BY <3>1, Zenon DEF Run
  <2> QED BY <2>1, <2>2, Zenon
<1>7. EndOf(a) = EndOf(b) + BSize
  <2>1. a[Len(a)] = c BY <1>1, Zenon
  <2> QED BY <1>2, <1>3, <2>1, Zenon DEF EndOf
<1>8. Run(a, f, 0) BY <1>4, <1>5, <1>6, Zenon DEF Run
<1> QED BY <1>7, <1>8, Zenon DEF a

\* What the first block of a run is, and what it leaves.
LEMMA RunTail ==
  ASSUME NEW b \in Seq(Block), NEW f \in Files, NEW s \in Int, Run(b, f, s), b # <<>>
  PROVE  /\ Head(b).file = f /\ Head(b).start = s /\ Head(b).n = BSize
         /\ s + BSize <= Size[f] /\ Run(Tail(b), f, s + BSize)
<1> DEFINE t == Tail(b)
<1>1. /\ Head(b) = b[1] /\ Len(b) \in Nat /\ Len(b) >= 1 /\ Len(t) = Len(b) - 1
      /\ \A i \in 1 .. Len(b) - 1 : t[i] = b[i + 1]
      /\ t \in Seq(Block)
  OBVIOUS
<1> HIDE DEF t
<1>2. 1 \in 1 .. Len(b) BY <1>1
<1>3. Head(b).file = f /\ Head(b).start = s /\ Head(b).n = BSize /\ s + BSize <= Size[f]
  BY <1>1, <1>2, Zenon DEF Run
<1>4. t # <<>> => t[1].start = s + BSize
  <2> SUFFICES ASSUME t # <<>> PROVE t[1].start = s + BSize BY Zenon
  <2>1. Len(b) > 1 BY <1>1
  <2>2. 1 \in 1 .. Len(b) - 1 /\ t[1] = b[1 + 1] BY <1>1, <2>1
  <2> QED BY <1>1, <1>3, <2>2, Zenon DEF Run
<1>5. ASSUME NEW i \in 1 .. Len(t)
      PROVE  t[i].file = f /\ t[i].n = BSize /\ t[i].start + BSize <= Size[f]
  <2>1. t[i] = b[i + 1] /\ i + 1 \in 1 .. Len(b) BY <1>1, <1>5
  <2> QED BY <2>1, Zenon DEF Run
<1>6. ASSUME NEW i \in 1 .. Len(t) - 1 PROVE t[i + 1].start = t[i].start + BSize
  <2>1. t[i] = b[i + 1] /\ t[i + 1] = b[(i + 1) + 1] /\ i + 1 \in 1 .. Len(b) - 1
    BY <1>1, <1>6
  <2> QED BY <2>1, Zenon DEF Run
<1>7. Run(t, f, s + BSize) BY <1>4, <1>5, <1>6, Zenon DEF Run
<1> QED BY <1>3, <1>7, Zenon DEF t

\* What a read of the channel returns.
LEMMA ReadIs ==
  ASSUME NEW c \in Channel
  PROVE  /\ ReadAt(c) \in Int /\ ReadAt(c) <= BSize /\ c.pos + ReadAt(c) \in Nat
         /\ c.file # None /\ c.pos <= Size[c.file] =>
               /\ ReadAt(c) >= 0 /\ c.pos + ReadAt(c) <= Size[c.file]
               /\ ReadAt(c) = 0 => c.pos = Size[c.file]
BY NextFileAssumption DEF Channel, ReadAt

----------------------------------------------------------------------------
(* The thread that reads ahead.                                            *)

\* Every step of prefetch_queue_main keeps the invariant.
LEMMA QueueStep == ASSUME NextInv, Queue PROVE NextInv'
<1>0. Types /\ Places /\ Reading /\ Owned /\ Ahead /\ Due /\ Seamless BY Zenon DEF NextInv
<1>1. CASE QBegin
  <2>1. UNCHANGED <<chan, next, in_pq, already, need_reopen, abort_flag, pbc,
           enable_kbuf, kbuf_pos, ppc, use_prev, pbc_off, opc, arg, opened, due, block,
           strayed, late>>
    BY <1>1, Zenon DEF QBegin, flags, keep, pVars, qVars, cVars, hist
  <2>2. qpc = "made" /\ qpc' = "lock"
    BY <1>1, Zenon DEF QBegin
  <2>3. Types' BY <1>0, <2>1, Zenon DEF Types
  <2>4. Places' BY <1>0, <2>1, Zenon DEF Places
  <2>5. Reading' BY <1>0, <2>1, <2>2, Zenon DEF Types, Reading
  <2>6. Owned' BY <1>0, <2>1, <2>2, Zenon DEF Types, Places, Reading, Owned, Regular
  <2>7. Ahead' BY <1>0, <2>1, <2>2, Zenon DEF Types, Places, Reading, Ahead, Regular
  <2>8. Due' BY <1>0, <2>1, Zenon DEF Due, Regular
  <2>9. Seamless' BY <1>0, <2>1, Zenon DEF Seamless
  <2> QED BY <2>3, <2>4, <2>5, <2>6, <2>7, <2>8, <2>9, Zenon DEF NextInv
<1>2. CASE QLock
  <2>1. UNCHANGED <<chan, next, stop_pq, need_reopen, abort_flag, pbc, enable_kbuf,
           kbuf_pos, ppc, use_prev, pbc_off, opc, arg, opened, due, block, strayed, late>>
    BY <1>2, Zenon DEF QLock, flags, keep, pVars, qVars, cVars, hist
  <2>2. already' = 0 /\ in_pq' = 1 /\ qpc = "lock"
        /\ qpc' = IF next = None THEN "end" ELSE "open"
    BY <1>2, Zenon DEF QLock
  <2>3. Types' BY <1>0, <2>1, <2>2, Zenon DEF Types
  <2>4. Places' BY <1>0, <2>1, Zenon DEF Places
  <2>5. Reading' BY <1>0, <2>1, <2>2, Zenon DEF Types, Reading
  <2>6. Owned' BY <1>0, <2>1, <2>2, Zenon DEF Types, Places, Reading, Owned, Regular
  <2>7. Ahead' BY <1>0, <2>1, <2>2, Zenon DEF Types, Places, Reading, Ahead, Regular
  <2>8. Due' BY <1>0, <2>1, Zenon DEF Due, Regular
  <2>9. Seamless' BY <1>0, <2>1, Zenon DEF Seamless
  <2> QED BY <2>3, <2>4, <2>5, <2>6, <2>7, <2>8, <2>9 DEF NextInv
<1>3. CASE QOpen
  <2>1. UNCHANGED <<next, in_pq, already, stop_pq, abort_flag, enable_kbuf, kbuf_pos,
           ppc, use_prev, pbc_off, opc, arg, opened, due, block, strayed>>
    BY <1>3, Zenon DEF QOpen, flags, keep, pVars, qVars, cVars, hist
  <2>2. /\ qpc = "open" /\ need_reopen' = 1
        /\ \/ chan' = [file |-> next, pos |-> 0] /\ pbc' = <<>> /\ qpc' = "read" /\ late' = late
           \/ /\ chan' = [chan EXCEPT !.pos = 0] /\ qpc' = "end"
              /\ late' = (IF pbc # <<>> THEN 1 ELSE late) /\ pbc' = pbc
    BY <1>3, Zenon DEF QOpen
  <2>3. chan' \in Channel /\ pbc' \in Seq(Block)
    <3>1. chan \in Channel /\ pbc \in Seq(Block) /\ next \in Files \cup {None} BY <1>0, Zenon DEF Types
    <3>2. [file |-> next, pos |-> 0] \in Channel /\ [chan EXCEPT !.pos = 0] \in Channel
      BY <3>1, Zenon DEF Channel
    <3>3. <<>> \in Seq(Block) OBVIOUS
    <3> QED BY <2>2, <3>1, <3>2, <3>3, Zenon
  <2>4. Types' BY <1>0, <2>1, <2>2, <2>3, Zenon DEF Types
  <2>5. Places' BY <1>0, <2>1, Zenon DEF Places
  <2>6. Reading' BY <1>0, <2>1, <2>2, Zenon DEF Types, Reading
  <2>7. Owned' BY <1>0, <2>1, <2>2, Zenon DEF Types, Places, Reading, Owned, Regular
  <2>8. Ahead' BY <1>0, <2>1, <2>2, RunEmpty, NextFileAssumption DEF Types, Places, Reading, Ahead, Regular
  <2>9. Due' BY <1>0, <2>1, <2>2, Zenon DEF Types, Places, Reading, Due, Regular
  <2>10. Seamless' BY <1>0, <2>1, <2>2, Zenon DEF Seamless, Types
  <2> QED BY <2>4, <2>5, <2>6, <2>7, <2>8, <2>9, <2>10 DEF NextInv
<1>4. CASE QRead
  <2> DEFINE n == ReadAt(chan)
             c == [file |-> chan.file, start |-> chan.pos, n |-> n]
  <2>1. UNCHANGED <<next, in_pq, already, stop_pq, need_reopen, abort_flag, enable_kbuf, kbuf_pos,
                    ppc, use_prev, pbc_off, opc, arg, opened, due, block, strayed, late>>
    BY <1>4, Zenon DEF QRead, flags, keep, pVars, qVars, cVars, hist
  <2>2. /\ qpc = "read" /\ qpc' \in {"read", "end"}
        /\ \/ qpc' = "end" /\ UNCHANGED <<chan, pbc>>
           \/ chan' = [chan EXCEPT !.pos = @ + n] /\ n = BSize /\ pbc' = Append(pbc, c)
           \/ chan' = [chan EXCEPT !.pos = @ + n] /\ n # BSize /\ qpc' = "end" /\ pbc' = pbc
    <3>1. n \in Int /\ n <= BSize /\ BSize \in Nat
      BY <1>0, ReadIs, NextFileAssumption, Zenon DEF Types
    <3> QED BY <1>4, <3>1 DEF QRead
  <2>3. chan.pos + n \in Nat /\ chan \in Channel /\ BSize \in Nat BY <1>0, ReadIs, NextFileAssumption, Zenon DEF Types
  <2> HIDE DEF n
  <2>4. chan' \in Channel /\ chan'.file = chan.file BY <2>2, <2>3, Zenon DEF Channel
  <2>5. n = BSize => c \in Block BY <2>3, Zenon DEF Channel, Block
  <2>6. pbc' \in Seq(Block)
    <3>1. pbc \in Seq(Block) BY <1>0, Zenon DEF Types
    <3> QED BY <2>2, <2>5, <3>1
  <2>7. Regular => ppc \notin {"made", "fill"}
    BY <1>0, <2>2, Zenon DEF Places, Reading, Regular
  <2>8. ASSUME Regular
        PROVE  /\ Run(pbc', next, 0) /\ chan'.file = next
               /\ qpc' = "read" => chan'.pos = EndOf(pbc') /\ chan'.pos <= Size[next]
    <3>1. /\ chan.file = next /\ Run(pbc, next, 0) /\ chan.pos = EndOf(pbc)
          /\ chan.pos <= Size[next] /\ next \in Files
      BY <1>0, <2>2, <2>8, Zenon DEF Ahead, Reading, Types
    <3>2. n = BSize => chan.pos + BSize <= Size[next]
      <4>1. chan.file # None BY <3>1, NextFileAssumption, Zenon
      <4> QED BY <2>3, <3>1, <4>1, ReadIs, Zenon DEF n
    <3>3. CASE chan' = [chan EXCEPT !.pos = @ + n] /\ n = BSize /\ pbc' = Append(pbc, c)
      <4>1. pbc \in Seq(Block) BY <1>0 DEF Types
      <4>2. c \in Block /\ c = [file |-> next, start |-> EndOf(pbc), n |-> BSize]
        BY <2>5, <3>1, <3>3, Zenon
      <4>3. Run(pbc', next, 0) /\ EndOf(pbc') = EndOf(pbc) + BSize
        BY <3>1, <3>2, <3>3, <4>1, <4>2, RunAppend, Zenon
      <4>4. chan'.pos = chan.pos + BSize BY <2>3, <3>3, Zenon DEF Channel
      <4> QED BY <2>4, <3>1, <3>2, <3>3, <4>3, <4>4, Zenon
    <3> QED BY <2>2, <2>4, <3>1, <3>3, Zenon
  <2>9. Types' BY <1>0, <2>1, <2>4, <2>6, Zenon DEF Types
  <2>10. Places' BY <1>0, <2>1, Zenon DEF Places
  <2>11. Reading' BY <1>0, <2>1, <2>2, Zenon DEF Reading
  <2>12. Owned' BY <1>0, <2>1, <2>2, <2>4, <2>7, Zenon DEF Owned, Regular
  <2>13. Ahead' BY <1>0, <2>1, <2>2, <2>8, Zenon DEF Ahead, Reading, Regular
  <2>14. Due' BY <1>0, <2>1, <2>7, Zenon DEF Due, Regular
  <2>15. Seamless' BY <1>0, <2>1 DEF Seamless
  <2> QED BY <2>9, <2>10, <2>11, <2>12, <2>13, <2>14, <2>15 DEF NextInv
<1>5. CASE QEnd
  <2>1. UNCHANGED <<chan, next, already, stop_pq, need_reopen, abort_flag, pbc,
           enable_kbuf, kbuf_pos, ppc, use_prev, pbc_off, opc, arg, opened, due, block,
           strayed, late>>
    BY <1>5, Zenon DEF QEnd, flags, keep, pVars, qVars, cVars, hist
  <2>2. qpc = "end" /\ qpc' = "ended"
    BY <1>5, Zenon DEF QEnd
  <2>3. Types' BY <1>0, <2>1, Zenon DEF Types
  <2>4. Places' BY <1>0, <2>1 DEF Places
  <2>5. Reading' BY <1>0, <2>1, <2>2, Zenon DEF Types, Reading
  <2>6. Owned' BY <1>0, <2>1, <2>2, Zenon DEF Types, Places, Reading, Owned, Regular
  <2>7. Ahead' BY <1>0, <2>1, <2>2, Zenon DEF Types, Places, Reading, Ahead, Regular
  <2>8. Due' BY <1>0, <2>1 DEF Due, Regular
  <2>9. Seamless' BY <1>0, <2>1 DEF Seamless
  <2> QED BY <2>3, <2>4, <2>5, <2>6, <2>7, <2>8, <2>9 DEF NextInv
<1>6. CASE QAlready
  <2>1. UNCHANGED <<chan, next, in_pq, need_reopen, abort_flag, pbc, enable_kbuf,
           kbuf_pos, ppc, use_prev, pbc_off, opc, arg, opened, due, block, strayed>>
    BY <1>6, Zenon DEF QAlready, flags, keep, pVars, qVars, cVars, hist
  <2>2. /\ qpc = "ended" /\ qpc' = "signal" /\ stop_pq' = 0
        /\ already' = (IF stop_pq = 0 THEN 1 ELSE already)
        /\ late' = (IF stop_pq = 0 /\ next = None THEN 1 ELSE late)
    BY <1>6, Zenon DEF QAlready
  <2>3. Types' BY <1>0, <2>1, <2>2, Zenon DEF Types
  <2>4. Places' BY <1>0, <2>1, Zenon DEF Places
  <2>5. Reading' BY <1>0, <2>1, <2>2, Zenon DEF Types, Reading
  <2>6. Owned' BY <1>0, <2>1, <2>2, Zenon DEF Types, Places, Reading, Owned, Regular
  <2>7. Ahead' BY <1>0, <2>1, <2>2, Zenon DEF Types, Places, Reading, Ahead, Regular
  <2>8. Due' BY <1>0, <2>1, <2>2, Zenon DEF Types, Places, Reading, Due, Regular
  <2>9. Seamless' BY <1>0, <2>1, <2>2, Zenon DEF Seamless, Types
  <2> QED BY <2>3, <2>4, <2>5, <2>6, <2>7, <2>8, <2>9 DEF NextInv
<1>7. CASE QSignal
  <2>1. UNCHANGED <<chan, next, in_pq, already, stop_pq, need_reopen, abort_flag, pbc,
           enable_kbuf, kbuf_pos, ppc, use_prev, pbc_off, arg, opened, due, block,
           strayed, late>>
    BY <1>7, Zenon DEF QSignal, flags, keep, pVars, qVars, cVars, hist
  <2>2. qpc = "signal" /\ qpc' = "over" /\ opc' = IF opc = "waiting" THEN "check" ELSE opc
    BY <1>7, Zenon DEF QSignal
  <2>3. Types' BY <1>0, <2>1, Zenon DEF Types
  <2>4. Places' BY <1>0, <2>1, <2>2, Zenon DEF Types, Places
  <2>5. Reading' BY <1>0, <2>1, <2>2, Zenon DEF Types, Reading
  <2>6. Owned' BY <1>0, <2>1, <2>2, Zenon DEF Types, Places, Reading, Owned, Regular
  <2>7. Ahead' BY <1>0, <2>1, <2>2, Zenon DEF Types, Places, Reading, Ahead, Regular
  <2>8. Due' BY <1>0, <2>1, Zenon DEF Due, Regular
  <2>9. Seamless' BY <1>0, <2>1 DEF Seamless
  <2> QED BY <2>3, <2>4, <2>5, <2>6, <2>7, <2>8, <2>9 DEF NextInv
<1>8. CASE QNever
  <2>1. UNCHANGED <<chan, next, in_pq, already, stop_pq, need_reopen, abort_flag, pbc,
           enable_kbuf, kbuf_pos, ppc, use_prev, pbc_off, opc, arg, opened, due, block,
           strayed, late>>
    BY <1>8, Zenon DEF QNever, flags, keep, pVars, qVars, cVars, hist
  <2>2. qpc = "never" /\ qpc' = "over"
    BY <1>8, Zenon DEF QNever
  <2>3. Types' BY <1>0, <2>1, Zenon DEF Types
  <2>4. Places' BY <1>0, <2>1, Zenon DEF Places
  <2>5. Reading' BY <1>0, <2>1, <2>2, Zenon DEF Types, Reading
  <2>6. Owned' BY <1>0, <2>1, <2>2, Zenon DEF Types, Places, Reading, Owned, Regular
  <2>7. Ahead' BY <1>0, <2>1, <2>2, Zenon DEF Types, Places, Reading, Ahead, Regular
  <2>8. Due' BY <1>0, <2>1, Zenon DEF Due, Regular
  <2>9. Seamless' BY <1>0, <2>1, Zenon DEF Seamless
  <2> QED BY <2>3, <2>4, <2>5, <2>6, <2>7, <2>8, <2>9 DEF NextInv
<1> QED BY <1>1, <1>2, <1>3, <1>4, <1>5, <1>6, <1>7, <1>8, Zenon DEF Queue

----------------------------------------------------------------------------
(* The thread that fills the player's buffers.                             *)

\* So does every step of prefetch_main.
LEMMA PrefetchStep == ASSUME NextInv, PrefetchMain PROVE NextInv'
<1>0. Types /\ Places /\ Reading /\ Owned /\ Ahead /\ Due /\ Seamless BY DEF NextInv
<1>1. CASE PBegin
  <2>1. UNCHANGED <<next, in_pq, stop_pq, need_reopen, abort_flag, pbc, enable_kbuf,
           kbuf_pos, qpc, opc, arg, opened, due, block, strayed, late>>
    BY <1>1, Zenon DEF PBegin, flags, keep, pVars, qVars, cVars, hist
  <2>2. ppc = "made" /\ ppc' = "fill" /\ use_prev' = already /\ already' = 0 /\ pbc_off' = 0
        /\ chan' = IF enable_kbuf = 2 THEN [chan EXCEPT !.pos = kbuf_pos] ELSE chan
    BY <1>1, Zenon DEF PBegin
  <2>3. chan' \in Channel /\ chan'.file = chan.file /\ (chan'.pos = chan.pos \/ chan'.pos = 0)
    BY <1>0, <2>2, Zenon DEF Types, Channel
  <2>4. Regular => next = None /\ qpc \notin {"open", "read"} /\ opc # "open"
    BY <1>0, <2>2, Zenon DEF Places, Reading, Regular
  <2>5. Types' BY <1>0, <2>1, <2>2, <2>3, Zenon DEF Types
  <2>6. Places' BY <1>0, <2>1, <2>2, Zenon DEF Types, Places
  <2>7. Reading' BY <1>0, <2>1, <2>2, Zenon DEF Types, Reading
  <2>8. Owned' BY <1>0, <2>1, <2>2, <2>3, Zenon DEF Types, Places, Reading, Owned, Regular
  <2>9. Ahead' BY <1>0, <2>1, <2>2, <2>4 DEF Types, Places, Reading, Ahead, Regular
  <2>10. Due'
    <3>1. ASSUME Regular PROVE due = 0 /\ chan'.pos = 0 BY <1>0, <2>2, <2>3, <3>1, Zenon DEF Due
    <3>2. ASSUME Regular, already = 1 PROVE Run(pbc, opened, 0)
      BY <1>0, <2>2, <2>4, <3>2, Zenon DEF Ahead, Places
    <3>3. Size[opened] \in Nat BY <1>0, <2>2, NextFileAssumption, Zenon DEF Types, Places
    <3> QED BY <1>0, <2>1, <2>2, <3>1, <3>2, <3>3 DEF Due, Regular, Types
  <2>11. Seamless' BY <1>0, <2>1, Zenon DEF Seamless
  <2> QED BY <2>5, <2>6, <2>7, <2>8, <2>9, <2>10, <2>11 DEF NextInv
<1>2. CASE PFill
  <2>1. /\ UNCHANGED <<next, in_pq, already, stop_pq, need_reopen, abort_flag, enable_kbuf, kbuf_pos,
                       qpc, opc, arg, opened, strayed, late>>
        /\ ppc = "fill" /\ ppc' \in {"fill", "over"}
    BY <1>2, Zenon DEF PFill, PAborted, PFromPbc, PRead, KeepState, Give, flags, keep, qVars, cVars
  <2>2. Regular => next = None /\ qpc \notin {"open", "read"} /\ opc # "open" /\ already = 0
    BY <1>0, <2>1, Zenon DEF Places, Reading, Ahead, Regular, Types
  <2>3. Regular => opened \in Files /\ Size[opened] \in Nat /\ chan.file = opened /\ due \in Nat
                   /\ due <= Size[opened] /\ opened # None
    BY <1>0, <2>1, NextFileAssumption DEF Types, Places, Owned, Due, Regular
  <2>4. Places' /\ Reading' BY <1>0, <2>1, Zenon DEF Places, Reading
  <2>5. ASSUME chan' \in Channel, pbc' \in Seq(Block), chan'.file = chan.file, use_prev' \in {0, 1},
               due' \in Int, pbc_off' \in Nat,
               Regular /\ qpc \in {"end", "ended"} /\ stop_pq = 0 => next = None,
               Regular /\ ppc' = "fill" =>
                  /\ due' >= 0 /\ due' <= Size[opened]
                  /\ IF use_prev' = 1 THEN Run(pbc', opened, due') /\ pbc_off' = due' ELSE chan'.pos = due',
               Seamless'
        PROVE  NextInv'
    <3>1. Types' BY <1>0, <2>1, <2>5, Zenon DEF Types
    <3>2. Owned' BY <1>0, <2>1, <2>5, Zenon DEF Owned, Regular
    <3>3. Ahead' BY <2>1, <2>2 DEF Ahead, Regular
    <3>4. Due' BY <2>1, <2>5, Zenon DEF Due, Regular
    <3> QED BY <2>4, <2>5, <3>1, <3>2, <3>3, <3>4, Zenon DEF NextInv
  <2>6. CASE PAborted
    <3>1. /\ UNCHANGED <<chan, pbc, use_prev, pbc_off>> /\ due' = due + -1 /\ ppc' = "over"
          /\ block'.b.n = -1
      BY <2>6 DEF PAborted, Give, NoBlock
    <3>2. Seamless' BY <3>1, Zenon DEF Seamless
    <3> QED BY <1>0, <2>2, <2>5, <3>1, <3>2 DEF Types
  <2>7. CASE PFromPbc
    <3>1. /\ UNCHANGED <<chan, use_prev>> /\ use_prev = 1 /\ pbc # <<>> /\ pbc' = Tail(pbc)
          /\ pbc_off' = pbc_off + Head(pbc).n /\ due' = due + Head(pbc).n
          /\ block' = [b |-> Head(pbc), file |-> opened, due |-> due]
      BY <2>7, Zenon DEF PFromPbc, Give
    <3>2. pbc \in Seq(Block) /\ Tail(pbc) \in Seq(Block) /\ Head(pbc) \in Block BY <1>0, <3>1 DEF Types
    <3>3. Head(pbc).n \in Nat BY <3>2, Zenon DEF Block
    <3>4. ASSUME Regular
          PROVE  /\ Head(pbc).file = opened /\ Head(pbc).start = due /\ Head(pbc).n = BSize
                 /\ due + BSize <= Size[opened] /\ Run(pbc', opened, due + BSize) /\ pbc_off = due
      <4>1. Run(pbc, opened, due) /\ pbc_off = due BY <1>0, <2>1, <3>1, <3>4, Zenon DEF Due
      <4> QED BY <2>3, <3>1, <3>2, <3>4, <4>1, RunTail
    <3>5. Seamless'
      <4>1. block'.b = Head(pbc) /\ block'.file = opened /\ block'.due = due BY <3>1, Zenon
      <4> QED BY <2>1, <3>4, <4>1, NextFileAssumption, Zenon DEF Seamless, Regular
    <3>6. Regular => due' >= 0 /\ due' <= Size[opened] /\ Run(pbc', opened, due') /\ pbc_off' = due'
      BY <2>3, <3>1, <3>4, NextFileAssumption
    <3> QED BY <1>0, <2>2, <2>5, <3>1, <3>2, <3>3, <3>5, <3>6 DEF Types
  <2>8. CASE PRead
    <3> DEFINE c == IF use_prev = 1 THEN [chan EXCEPT !.pos = pbc_off] ELSE chan
               n == ReadAt(c)
    <3>1. /\ chan' = [c EXCEPT !.pos = @ + n] /\ use_prev' = 0 /\ UNCHANGED <<pbc, pbc_off>>
          /\ block' = [b |-> [file |-> c.file, start |-> c.pos, n |-> n], file |-> opened, due |-> due]
          /\ due' = due + n
      BY <2>8, Zenon DEF PRead, Give
    <3>2. c \in Channel /\ c.file = chan.file BY <1>0, Zenon DEF Types, Channel
    <3>3. /\ n \in Int /\ c.pos + n \in Nat
          /\ c.file # None /\ c.pos <= Size[c.file] =>
                n >= 0 /\ c.pos + n <= Size[c.file] /\ (n = 0 => c.pos = Size[c.file])
      BY <3>2, ReadIs, Zenon
    <3>4. Regular => c.pos = due BY <1>0, <2>1, <2>3, Zenon DEF Due, Types, Channel
    <3> HIDE DEF c, n
    <3>5. chan' \in Channel /\ chan'.file = chan.file /\ chan'.pos = c.pos + n
      BY <3>1, <3>2, <3>3, Zenon DEF Channel
    <3>6. Seamless'
      <4>1. block'.b.file = c.file /\ block'.b.start = c.pos /\ block'.b.n = n /\ block'.file = opened
            /\ block'.due = due
        BY <3>1, Zenon
      <4> QED BY <2>1, <2>3, <3>2, <3>3, <3>4, <4>1, Zenon DEF Seamless, Regular
    <3>7. Regular => due' >= 0 /\ due' <= Size[opened] /\ chan'.pos = due'
      BY <2>3, <3>1, <3>2, <3>3, <3>4, <3>5
    <3> QED BY <1>0, <2>2, <2>5, <3>1, <3>3, <3>5, <3>6, <3>7 DEF Types
  <2> QED BY <1>2, <2>6, <2>7, <2>8, Zenon DEF PFill
<1> QED BY <1>1, <1>2, Zenon DEF PrefetchMain

----------------------------------------------------------------------------
(* The caller.                                                             *)

\* A call that the caller begins keeps it,
LEMMA AskStep == ASSUME NextInv, Asks PROVE NextInv'
<1>0. Types /\ Places /\ Reading /\ Owned /\ Ahead /\ Due /\ Seamless BY DEF NextInv
<1>1. ASSUME NEW f \in Files, AskNext(f) PROVE NextInv'
  <2>1. UNCHANGED <<chan, in_pq, already, need_reopen, abort_flag, pbc, enable_kbuf,
           kbuf_pos, ppc, use_prev, pbc_off, arg, opened, due, block, late>>
    BY <1>1, Zenon DEF AskNext, Ask, flags, keep, pVars, qVars, cVars, hist
  <2>2. /\ opc = "idle" /\ opc' = "pq_join" /\ ppc = "over" /\ next' = f /\ f # None /\ stop_pq' = 1
        /\ strayed' = (IF next \notin {None, f} THEN 1 ELSE strayed)
        /\ (qpc' = qpc \/ (qpc = "made" /\ qpc' = "never"))
    BY <1>1, NextFileAssumption, Zenon DEF AskNext, Ask
  <2>3. Types' BY <1>0, <2>1, <2>2, Zenon DEF Types
  <2>4. Places' BY <1>0, <2>1, <2>2, Zenon DEF Types, Places
  <2>5. Reading' BY <1>0, <2>1, <2>2, Zenon DEF Types, Reading
  <2>6. Owned' BY <1>0, <2>1, <2>2, Zenon DEF Types, Places, Reading, Owned, Regular
  <2>7. Ahead' BY <1>0, <2>1, <2>2 DEF Types, Places, Reading, Ahead, Regular
  <2>8. Due' BY <1>0, <2>1, <2>2, Zenon DEF Types, Places, Reading, Due, Regular
  <2>9. Seamless' BY <1>0, <2>1, <2>2, Zenon DEF Seamless, Types
  <2> QED BY <2>3, <2>4, <2>5, <2>6, <2>7, <2>8, <2>9, Zenon DEF NextInv
<1>2. ASSUME NEW f \in Files, AskOpen(f) PROVE NextInv'
  <2>1. UNCHANGED <<chan, next, in_pq, already, stop_pq, need_reopen, pbc, enable_kbuf,
           kbuf_pos, ppc, use_prev, pbc_off, qpc, opened, due, block, strayed, late>>
    BY <1>2, Zenon DEF AskOpen, Ask, flags, keep, pVars, qVars, cVars, hist
  <2>2. opc = "idle" /\ opc' = "close" /\ arg' = f /\ ppc # "made"
    BY <1>2, Zenon DEF AskOpen, Ask
  <2>3. Types' BY <1>0, <2>1, Zenon DEF Types
  <2>4. Places' BY <1>0, <2>1, <2>2, Zenon DEF Types, Places
  <2>5. Reading' BY <1>0, <2>1, Zenon DEF Reading
  <2>6. Owned' BY <1>0, <2>1, <2>2, Zenon DEF Types, Places, Reading, Owned, Regular
  <2>7. Ahead' BY <1>0, <2>1, <2>2, Zenon DEF Types, Places, Reading, Ahead, Regular
  <2>8. Due' BY <1>0, <2>1, Zenon DEF Due, Regular
  <2>9. Seamless' BY <1>0, <2>1, Zenon DEF Seamless
  <2> QED BY <2>3, <2>4, <2>5, <2>6, <2>7, <2>8, <2>9 DEF NextInv
<1>3. CASE AskReset
  <2>1. UNCHANGED <<chan, next, in_pq, already, stop_pq, need_reopen, pbc, enable_kbuf,
           kbuf_pos, ppc, use_prev, pbc_off, qpc, arg, opened, due, block, strayed, late>>
    BY <1>3, Zenon DEF AskReset, Ask, flags, keep, pVars, qVars, cVars, hist
  <2>2. opc = "idle" /\ opc' = "close_reset" /\ opened # None /\ ppc # "made"
    BY <1>3, Zenon DEF AskReset, Ask
  <2>3. Types' BY <1>0, <2>1, Zenon DEF Types
  <2>4. Places' BY <1>0, <2>1, <2>2, Zenon DEF Types, Places
  <2>5. Reading' BY <1>0, <2>1, Zenon DEF Reading
  <2>6. Owned' BY <1>0, <2>1, <2>2, Zenon DEF Types, Places, Reading, Owned, Regular
  <2>7. Ahead' BY <1>0, <2>1, <2>2, Zenon DEF Types, Places, Reading, Ahead, Regular
  <2>8. Due' BY <1>0, <2>1 DEF Due, Regular
  <2>9. Seamless' BY <1>0, <2>1 DEF Seamless
  <2> QED BY <2>3, <2>4, <2>5, <2>6, <2>7, <2>8, <2>9 DEF NextInv
<1>4. ASSUME NEW n \in -1 .. 1, SetKeepBuffer(n) PROVE NextInv'
  <2>1. UNCHANGED <<chan, next, in_pq, already, stop_pq, need_reopen, abort_flag, pbc,
           kbuf_pos, ppc, use_prev, pbc_off, qpc, opc, arg, opened, due, block, strayed,
           late>>
    BY <1>4, Zenon DEF SetKeepBuffer, flags, keep, pVars, qVars, cVars, hist
  <2>2. enable_kbuf' = IF n < 0 THEN enable_kbuf ELSE n
    BY <1>4, Zenon DEF SetKeepBuffer
  <2>3. Types' BY <1>0, <2>1, <2>2 DEF Types
  <2>4. Places' BY <1>0, <2>1, Zenon DEF Places
  <2>5. Reading' BY <1>0, <2>1, Zenon DEF Reading
  <2>6. Owned' BY <1>0, <2>1, Zenon DEF Owned, Regular
  <2>7. Ahead' BY <1>0, <2>1, Zenon DEF Ahead, Regular
  <2>8. Due' BY <1>0, <2>1, Zenon DEF Due, Regular
  <2>9. Seamless' BY <1>0, <2>1, Zenon DEF Seamless
  <2> QED BY <2>3, <2>4, <2>5, <2>6, <2>7, <2>8, <2>9, Zenon DEF NextInv
<1> QED BY <1>1, <1>2, <1>3, <1>4, Zenon DEF Asks

\* and so does every step by which the call proceeds.
LEMMA CallerStep == ASSUME NextInv, Caller PROVE NextInv'
<1>0. Types /\ Places /\ Reading /\ Owned /\ Ahead /\ Due /\ Seamless BY DEF NextInv
<1>1. CASE PQStart
  <2>1. UNCHANGED <<chan, next, in_pq, already, stop_pq, need_reopen, abort_flag, pbc,
           enable_kbuf, kbuf_pos, ppc, use_prev, pbc_off, arg, opened, due, block,
           strayed, late>>
    BY <1>1, Zenon DEF PQStart, flags, keep, pVars, qVars, cVars, hist
  <2>2. opc = "pq_join" /\ opc' = "idle" /\ qpc \in {"off", "over", "never"} /\ qpc' \in {"never", "made"}
    BY <1>1, Zenon DEF PQStart, Joined, Started
  <2>3. Types' BY <1>0, <2>1 DEF Types
  <2>4. Places' BY <1>0, <2>1, <2>2, Zenon DEF Types, Places
  <2>5. Reading' BY <1>0, <2>1, <2>2, Zenon DEF Types, Reading
  <2>6. Owned' BY <1>0, <2>1, <2>2, Zenon DEF Types, Places, Reading, Owned, Regular
  <2>7. Ahead' BY <1>0, <2>1, <2>2, Zenon DEF Types, Places, Reading, Ahead, Regular
  <2>8. Due' BY <1>0, <2>1 DEF Due, Regular
  <2>9. Seamless' BY <1>0, <2>1 DEF Seamless
  <2> QED BY <2>3, <2>4, <2>5, <2>6, <2>7, <2>8, <2>9 DEF NextInv
<1>2. CASE OpenBegin
  <2>1. UNCHANGED <<chan, next, in_pq, already, abort_flag, pbc, enable_kbuf, kbuf_pos,
           use_prev, pbc_off, qpc, arg, opened, due, block, late>>
    BY <1>2, Zenon DEF OpenBegin, Closed, flags, keep, pVars, qVars, cVars, hist
  <2>2. /\ opc = "close" /\ ppc \in {"off", "over"} /\ ppc' = "off" /\ need_reopen' = 0
        /\ (stop_pq' = 1 \/ stop_pq' = stop_pq)
        /\ strayed' = (IF next \notin {None, arg} \/ strayed = 1 THEN 1 ELSE 0)
        /\ opc' = (IF next = None THEN "open" ELSE "check")
    BY <1>2, Zenon DEF OpenBegin, Closed
  <2>3. Types' BY <1>0, <2>1, <2>2, Zenon DEF Types
  <2>4. Places' BY <1>0, <2>1, <2>2 DEF Types, Places
  <2>5. Reading' BY <1>0, <2>1, Zenon DEF Reading
  <2>6. Owned' BY <1>0, <2>1, <2>2, Zenon DEF Types, Places, Reading, Owned, Regular
  <2>7. Ahead' BY <1>0, <2>1, <2>2, Zenon DEF Types, Places, Reading, Ahead, Regular
  <2>8. Due' BY <1>0, <2>1, <2>2, Zenon DEF Types, Places, Reading, Due, Regular
  <2>9. Seamless' BY <1>0, <2>1, <2>2, Zenon DEF Seamless, Types
  <2> QED BY <2>3, <2>4, <2>5, <2>6, <2>7, <2>8, <2>9 DEF NextInv
<1>3. CASE OpenCheck
  <2>1. UNCHANGED <<chan, in_pq, already, stop_pq, need_reopen, abort_flag, pbc,
           enable_kbuf, kbuf_pos, ppc, use_prev, pbc_off, qpc, arg, opened, due, block,
           strayed, late>>
    BY <1>3, Zenon DEF OpenCheck, flags, keep, pVars, qVars, cVars, hist
  <2>2. opc = "check" /\ IF in_pq = 1 THEN opc' = "towait" /\ next' = next ELSE opc' = "open" /\ next' = None
    BY <1>3, Zenon DEF OpenCheck
  <2>3. Types' BY <1>0, <2>1, <2>2, Zenon DEF Types
  <2>4. Places' BY <1>0, <2>1, <2>2, Zenon DEF Types, Places
  <2>5. Reading' BY <1>0, <2>1, <2>2, Zenon DEF Types, Reading
  <2>6. Owned' BY <1>0, <2>1, <2>2, Zenon DEF Types, Places, Reading, Owned, Regular
  <2>7. Ahead' BY <1>0, <2>1, <2>2, Zenon DEF Types, Places, Reading, Ahead, Regular
  <2>8. Due' BY <1>0, <2>1 DEF Due, Regular
  <2>9. Seamless' BY <1>0, <2>1 DEF Seamless
  <2> QED BY <2>3, <2>4, <2>5, <2>6, <2>7, <2>8, <2>9 DEF NextInv
<1>4. CASE OpenWait
  <2>1. UNCHANGED <<chan, next, in_pq, already, stop_pq, need_reopen, abort_flag, pbc,
           enable_kbuf, kbuf_pos, ppc, use_prev, pbc_off, qpc, arg, opened, due, block,
           strayed, late>>
    BY <1>4, Zenon DEF OpenWait, flags, keep, pVars, qVars, cVars, hist
  <2>2. opc = "towait" /\ opc' = "waiting"
    BY <1>4, Zenon DEF OpenWait
  <2>3. Types' BY <1>0, <2>1 DEF Types
  <2>4. Places' BY <1>0, <2>1, <2>2, Zenon DEF Types, Places
  <2>5. Reading' BY <1>0, <2>1, Zenon DEF Reading
  <2>6. Owned' BY <1>0, <2>1, <2>2, Zenon DEF Types, Places, Reading, Owned, Regular
  <2>7. Ahead' BY <1>0, <2>1, <2>2, Zenon DEF Types, Places, Reading, Ahead, Regular
  <2>8. Due' BY <1>0, <2>1 DEF Due, Regular
  <2>9. Seamless' BY <1>0, <2>1 DEF Seamless
  <2> QED BY <2>3, <2>4, <2>5, <2>6, <2>7, <2>8, <2>9 DEF NextInv
<1>5. CASE OpenFile
  <2>1. UNCHANGED <<next, in_pq, already, stop_pq, need_reopen, pbc, kbuf_pos,
           use_prev, pbc_off, qpc, arg, block, late>>
    BY <1>5, Zenon DEF OpenFile, StartP, flags, keep, pVars, qVars, cVars, hist
  <2>2. /\ opc = "open" /\ opc' = "idle"
        /\ \/ /\ chan' = [file |-> arg, pos |-> 0] /\ opened' = arg /\ ppc' = "made" /\ due' = 0
              /\ enable_kbuf' = (IF enable_kbuf = 0 THEN 0 ELSE 1) /\ strayed' = strayed
           \/ /\ chan' = [chan EXCEPT !.pos = 0] /\ UNCHANGED <<opened, enable_kbuf, ppc, due>>
              /\ strayed' = (IF qpc # "off" THEN 1 ELSE strayed)
    BY <1>5, Zenon DEF OpenFile, StartP, pVars
  <2>3. chan' \in Channel /\ chan'.pos = 0 /\ opened' \in Files \cup {None}
        /\ (\/ chan'.file = arg /\ opened' = arg /\ strayed' = strayed
            \/ chan'.file = chan.file /\ opened' = opened /\ (strayed' = 0 => strayed = 0 /\ qpc = "off"))
    BY <1>0, <2>2 DEF Types, Channel, Places
  <2>4. ppc = "off" /\ next = None /\ arg \in Files /\ arg # None /\ qpc \notin {"open", "read"}
    BY <1>0, <2>2, NextFileAssumption, Zenon DEF Places, Reading
  <2>5. Types' BY <1>0, <2>1, <2>2, <2>3 DEF Types
  <2>6. Places' BY <1>0, <2>1, <2>2, <2>4, Zenon DEF Places
  <2>7. Reading' BY <1>0, <2>1, Zenon DEF Reading
  <2>8. Owned' BY <1>0, <2>1, <2>2, <2>3, <2>4, Zenon DEF Types, Places, Reading, Owned, Regular
  <2>9. Ahead' BY <1>0, <2>1, <2>2, <2>4 DEF Types, Places, Reading, Owned, Ahead, Regular
  <2>10. Due' BY <1>0, <2>1, <2>2, <2>3, <2>4, Zenon DEF Types, Places, Due, Regular
  <2>11. Seamless' BY <1>0, <2>1, <2>2, Zenon DEF Seamless, Types
  <2> QED BY <2>5, <2>6, <2>7, <2>8, <2>9, <2>10, <2>11 DEF NextInv
<1>6. CASE ResetStop
  <2>1. UNCHANGED <<chan, next, in_pq, already, need_reopen, abort_flag, pbc,
           enable_kbuf, kbuf_pos, use_prev, pbc_off, arg, opened, due, block, strayed,
           late>>
    BY <1>6, Zenon DEF ResetStop, Closed, flags, keep, pVars, qVars, cVars, hist
  <2>2. /\ opc = "close_reset" /\ opc' = "reset_join" /\ ppc \in {"off", "over"} /\ ppc' = "off"
        /\ stop_pq' = 1 /\ (qpc' = qpc \/ (qpc = "made" /\ qpc' = "never"))
    BY <1>6, Zenon DEF ResetStop, Closed
  <2>3. Types' BY <1>0, <2>1, Zenon DEF Types
  <2>4. Places' BY <1>0, <2>1, <2>2, Zenon DEF Types, Places
  <2>5. Reading' BY <1>0, <2>1, <2>2, Zenon DEF Types, Reading
  <2>6. Owned' BY <1>0, <2>1, <2>2, Zenon DEF Types, Places, Reading, Owned, Regular
  <2>7. Ahead' BY <1>0, <2>1, <2>2, Zenon DEF Types, Places, Reading, Ahead, Regular
  <2>8. Due' BY <1>0, <2>1, <2>2, Zenon DEF Types, Places, Reading, Due, Regular
  <2>9. Seamless' BY <1>0, <2>1, Zenon DEF Seamless
  <2> QED BY <2>3, <2>4, <2>5, <2>6, <2>7, <2>8, <2>9 DEF NextInv
<1>7. CASE ResetFile
  <2>1. UNCHANGED <<next, in_pq, already, stop_pq, pbc, kbuf_pos, use_prev, pbc_off,
           arg, opened, block, late>>
    BY <1>7, Zenon DEF ResetFile, StartP, flags, keep, pVars, qVars, cVars, hist
  <2>2. /\ opc = "reset_join" /\ opc' = "idle" /\ qpc \in {"off", "over", "never"} /\ qpc' \in {"off", "never"}
        /\ strayed' = (IF next # None \/ need_reopen = 1 THEN 1 ELSE strayed) /\ need_reopen' = 0
        /\ chan' = [chan EXCEPT !.pos = 0] /\ ppc' = "made" /\ due' = 0
        /\ enable_kbuf' = IF enable_kbuf = 0 THEN 0 ELSE 2
    BY <1>7, Zenon DEF ResetFile, StartP, Joined
  <2>3. chan' \in Channel /\ chan'.pos = 0 /\ chan'.file = chan.file
    BY <1>0, <2>2, Zenon DEF Types, Channel
  <2>4. /\ ppc = "off" /\ (strayed' = 0 => strayed = 0 /\ next = None /\ chan.file = opened)
        /\ (strayed' = 0 /\ late = 0 => already = 0)
    BY <1>0, <2>2 DEF Places, Owned, Types, Ahead, Regular
  <2>5. Types' BY <1>0, <2>1, <2>2, <2>3 DEF Types
  <2>6. Places' BY <1>0, <2>1, <2>2 DEF Types, Places
  <2>7. Reading' BY <1>0, <2>1, <2>2, Zenon DEF Types, Reading
  <2>8. Owned' BY <1>0, <2>1, <2>2, <2>3, <2>4, Zenon DEF Owned, Regular
  <2>9. Ahead' BY <1>0, <2>1, <2>2, <2>4, Zenon DEF Ahead, Regular, Types
  <2>10. Due' BY <1>0, <2>1, <2>2, <2>3, Zenon DEF Due, Regular
  <2>11. Seamless' BY <1>0, <2>1, <2>2, Zenon DEF Seamless, Types
  <2> QED BY <2>5, <2>6, <2>7, <2>8, <2>9, <2>10, <2>11 DEF NextInv
<1> QED BY <1>1, <1>2, <1>3, <1>4, <1>5, <1>6, <1>7, Zenon DEF Caller

----------------------------------------------------------------------------
\* At pre_start nothing is open, announced or read.
LEMMA NextInitially == NInit => NextInv
<1> SUFFICES ASSUME NInit PROVE NextInv BY Zenon
<1>1. /\ chan = [file |-> None, pos |-> 0] /\ next = None /\ opened = None /\ pbc = <<>>
      /\ strayed = 0 /\ late = 0 /\ already = 0 /\ need_reopen = 0 /\ use_prev = 0
      /\ enable_kbuf \in {0, 1} /\ kbuf_pos = 0 /\ due = 0 /\ pbc_off = 0
      /\ opc = "idle" /\ ppc = "off" /\ qpc = "off"
      /\ block = [b |-> NoBlock, file |-> None, due |-> 0]
  BY Zenon DEF NInit
<1>2. chan \in Channel /\ chan.file = None /\ pbc \in Seq(Block) BY <1>1 DEF Channel
<1>3. Types BY <1>1, <1>2 DEF Types
<1>4. Places /\ Reading BY <1>1, Zenon DEF Places, Reading
<1>5. Owned BY <1>1, <1>2, Zenon DEF Owned
<1>6. Ahead /\ Due BY <1>1 DEF Ahead, Due
<1>7. Seamless BY <1>1, Zenon DEF Seamless
<1> QED BY <1>3, <1>4, <1>5, <1>6, <1>7, Zenon DEF NextInv

\* No step of a thread or of the caller breaks the invariant.
LEMMA NextKept == NextInv /\ [NNext]_nextVars => NextInv'
<1> SUFFICES ASSUME NextInv, [NNext]_nextVars PROVE NextInv' BY Zenon
<1>0. Types /\ Places /\ Reading /\ Owned /\ Ahead /\ Due /\ Seamless BY Zenon DEF NextInv
<1>1. CASE UNCHANGED nextVars
  <2>1. UNCHANGED <<chan, next, in_pq, already, stop_pq, need_reopen, pbc, enable_kbuf, kbuf_pos, ppc>>
        /\ UNCHANGED <<use_prev, pbc_off, qpc, opc, arg, opened, due, block, strayed, late>>
    BY <1>1, Zenon DEF nextVars, flags, keep, pVars, qVars, cVars, hist
  <2>2. Types' BY <1>0, <2>1, Zenon DEF Types
  <2>3. Places' /\ Reading' BY <1>0, <2>1, Zenon DEF Places, Reading
  <2>4. Owned' BY <1>0, <2>1, Zenon DEF Owned, Regular
  <2>5. Ahead' BY <1>0, <2>1, Zenon DEF Ahead, Regular
  <2>6. Due' BY <1>0, <2>1, Zenon DEF Due, Regular
  <2>7. Seamless' BY <1>0, <2>1, Zenon DEF Seamless
  <2> QED BY <2>2, <2>3, <2>4, <2>5, <2>6, <2>7, Zenon DEF NextInv
<1> QED BY <1>1, QueueStep, PrefetchStep, CallerStep, AskStep, Zenon DEF NNext

\* Whatever the sizes and however the three threads interleave, the reader
\* is given the opened file from its first block to its last, whether
\* prefetch_queue_main read a block ahead or prefetch_main read it when due,
\* unless the caller leaves the announced order or one of the two windows
\* of prefetch_queue_main is hit.
THEOREM FilesAreSeamless == NSpec => []Seamless
<1>1. NextInv => Seamless BY Zenon DEF NextInv
<1> QED BY <1>1, NextInitially, NextKept, PTL DEF NSpec
=============================================================================

------------------------------ MODULE Prefetch ------------------------------
(***************************************************************************)
(* The read-ahead layer of the streaming I/O engine (stio_engine/          *)
(* prefetch.c) over the version 3 client's adapter (streamio_v3/           *)
(* src.client/stio_eng.c).  A prefetch thread reads blocks of the open     *)
(* file into the buffer cache bc; the thread that plays takes them out     *)
(* with pre_read; any thread may abort, close, reset or open the engine.   *)
(*                                                                         *)
(* The data is the position in the file: a buffer is the run of units      *)
(* start .. start+rc-1 of its file.  The buffer cache is the FIFO of       *)
(* FifoChannel that BufferCache implements: free buffers and a sequence    *)
(* of ready ones.  abort_flag, in_read and in_running are plain words that *)
(* the threads read and write without a lock, one step each.               *)
(***************************************************************************)
EXTENDS Integers, Sequences, FiniteSets

CONSTANTS Threads,      \* the threads that call close, abort, reset, open
          Size,         \* the length in units of every file
          BSize,        \* units in a buffer
          NBuf,         \* buffers of bc
          Repeats       \* the repeat counts that set_repeat is called with

Files == DOMAIN Size
None == "none"

ASSUME PrefetchAssumption ==
    /\ BSize \in Nat \ {0}
    /\ NBuf \in Nat \ {0}
    /\ Size \in [Files -> Nat]
    /\ None \notin Files
    /\ Repeats \subseteq Int

VARIABLES chan,             \* the client's channel: file and position
          cut,              \* the client's cut flag, 1 from abort to open
          free, ready,      \* bc: the number of free, the ready buffers
          abort_flag, in_read, in_running, end_of_prefetch, repeat_cnt,
          tmp,              \* tmpbuff: where it starts, and tmpbsize
          ppc, pbuf,        \* prefetch_main, and the buffer it fills
          need_join,        \* 1: the prefetch thread is not joined yet
          rd, rlen, got, taken, \* pre_read: place, rest, sum, buffer
          kpc,              \* every thread's place in pre_close_step1
          out,              \* history: the unit the reader must get next
          missed            \* history: a handshake was passed too early

cacheVars == <<free, ready>>
prefetchVars == <<ppc, pbuf, end_of_prefetch>>
readVars == <<in_read, tmp, rd, rlen, got, taken, out>>
vars == <<chan, cut, cacheVars, abort_flag, in_running, repeat_cnt,
          prefetchVars, need_join, readVars, kpc, missed>>

Least(a, b) == IF a < b THEN a ELSE b

Buffer == [file : Files \cup {None}, start : Nat, rc : -1 .. BSize,
           dbflag : {0, 1}]
Mark(rc) == [file |-> None, start |-> 0, rc |-> rc, dbflag |-> 0]

Init ==
    /\ chan = [file |-> None, pos |-> 0]
    /\ cut = 0
    /\ free = NBuf
    /\ ready = <<>>
    /\ abort_flag = 0
    /\ in_read = 0
    /\ in_running = 0
    /\ end_of_prefetch = 0
    /\ repeat_cnt = 0
    /\ tmp = [start |-> 0, size |-> 0]
    /\ ppc = "off"
    /\ pbuf = Mark(0)
    /\ need_join = 0
    /\ rd = "none"
    /\ rlen = 0
    /\ got = 0
    /\ taken = Mark(0)
    /\ kpc = [t \in Threads |-> "none"]
    /\ out = 0
    /\ missed = 0

----------------------------------------------------------------------------
(* prefetch_main.  The thread is made, begins, and then for every block    *)
(* requests a buffer, fills it and gives it to the reader.                 *)

PBegin ==
    /\ ppc = "made"
    /\ ppc' = "request"
    /\ need_join' = 1
    /\ in_running' = 1
    /\ end_of_prefetch' = 0
    /\ UNCHANGED <<chan, cut, cacheVars, abort_flag, repeat_cnt, pbuf,
                   readVars, kpc, missed>>

PRequest ==
    /\ ppc = "request"
    /\ free > 0
    /\ free' = free - 1
    /\ ppc' = "fill"
    /\ UNCHANGED <<chan, cut, ready, abort_flag, in_running, repeat_cnt, pbuf,
                   end_of_prefetch, need_join, readVars, kpc, missed>>

\* What the engine's read returns at a position: a full block, or what is
\* left of the file; the read of a channel that was cut may end early.
ReadAt(c) == IF c.file = None THEN 0 ELSE Least(BSize, Size[c.file] - c.pos)
Outcomes(c) == {ReadAt(c)} \cup IF cut = 1 THEN {0} ELSE {}

Filled(c, n, flag) ==
    /\ pbuf' = [file |-> c.file, start |-> c.pos, rc |-> n, dbflag |-> flag]
    /\ chan' = [c EXCEPT !.pos = @ + n]

PFillAborted ==
    /\ pbuf' = Mark(-1)
    /\ UNCHANGED <<chan, repeat_cnt>>

\* At the end of the file the thread begins again while repeat_cnt says so;
\* the first buffer of the new turn carries dbflag.
PFillRead ==
    \E n \in Outcomes(chan) :
        IF n > 0 \/ repeat_cnt = 0
        THEN Filled(chan, n, 0) /\ UNCHANGED repeat_cnt
        ELSE /\ repeat_cnt' = IF repeat_cnt > 0 THEN repeat_cnt - 1 ELSE repeat_cnt
             /\ \E m \in Outcomes([chan EXCEPT !.pos = 0]) :
                   Filled([chan EXCEPT !.pos = 0], m, 1)

PFill ==
    /\ ppc = "fill"
    /\ IF abort_flag = 1 THEN PFillAborted ELSE PFillRead
    /\ ppc' = "ready"
    /\ UNCHANGED <<cut, cacheVars, abort_flag, in_running, end_of_prefetch,
                   need_join, readVars, kpc, missed>>

PReady ==
    /\ ppc = "ready"
    /\ ready' = Append(ready, pbuf)
    /\ ppc' = IF pbuf.rc > 0 THEN "request" ELSE "end"
    /\ pbuf' = Mark(0)
    /\ UNCHANGED <<chan, cut, free, abort_flag, in_running, repeat_cnt,
                   end_of_prefetch, need_join, readVars, kpc, missed>>

PEnd ==
    /\ ppc = "end"
    /\ end_of_prefetch' = 1
    /\ in_running' = 0
    /\ ppc' = "exit"
    /\ UNCHANGED <<chan, cut, cacheVars, abort_flag, repeat_cnt, pbuf,
                   need_join, readVars, kpc, missed>>

\* thread_svc_main clears have_thr and exits; a join now returns.
PExit ==
    /\ ppc = "exit"
    /\ ppc' = "over"
    /\ UNCHANGED <<chan, cut, cacheVars, abort_flag, in_running, repeat_cnt,
                   pbuf, end_of_prefetch, need_join, readVars, kpc, missed>>

\* thread_svc_main tests terminate, which a stop may have set, before it
\* calls the handler at all.
PNever ==
    /\ ppc = "never"
    /\ ppc' = "over"
    /\ need_join' = 1
    /\ UNCHANGED <<chan, cut, cacheVars, abort_flag, in_running, repeat_cnt,
                   pbuf, end_of_prefetch, readVars, kpc, missed>>

PrefetchMain ==
    PBegin \/ PRequest \/ PFill \/ PReady \/ PEnd \/ PExit \/ PNever

----------------------------------------------------------------------------
(* pre_read.  The caller finds the result in got once rd is "done".        *)

ReadUnchanged ==
    UNCHANGED <<chan, cut, abort_flag, in_running, repeat_cnt, prefetchVars,
                need_join, kpc>>

ReadBegin(len) ==
    /\ rd = "none"
    /\ CASE abort_flag = 1 \/ tmp.size < 0 ->
              rd' = "done" /\ got' = -1 /\ UNCHANGED <<rlen, tmp, out>>
         [] abort_flag = 0 /\ tmp.size > len ->
              /\ rd' = "done" /\ got' = len /\ out' = out + len
              /\ tmp' = [start |-> tmp.start + len, size |-> tmp.size - len]
              /\ UNCHANGED rlen
         [] OTHER ->
              /\ rd' = "enter" /\ got' = tmp.size /\ rlen' = len - tmp.size
              /\ out' = out + tmp.size
              /\ tmp' = [start |-> 0, size |-> 0]
    /\ UNCHANGED <<cacheVars, in_read, taken, missed>>
    /\ ReadUnchanged

\* Nobody will look at in_read any more: the reader that enters now waits
\* for a buffer that no thread is going to send.
PastHandshake ==
    /\ abort_flag = 1
    /\ \A t \in Threads : kpc[t] \notin {"flush", "stop", "join", "mark"}

ReadEnter ==
    /\ rd = "enter"
    /\ in_read' = 1
    /\ rd' = "take"
    /\ missed' = IF PastHandshake THEN 1 ELSE missed
    /\ UNCHANGED <<cacheVars, tmp, rlen, got, taken, out>>
    /\ ReadUnchanged

ReadTake ==
    /\ rd = "take"
    /\ rlen > 0
    /\ ready # <<>>
    /\ taken' = Head(ready)
    /\ ready' = Tail(ready)
    /\ rd' = "copy"
    /\ UNCHANGED <<free, in_read, tmp, rlen, got, out, missed>>
    /\ ReadUnchanged

ReadCopy ==
    /\ rd = "copy"
    /\ LET n == Least(taken.rc, rlen) IN
       IF taken.rc <= 0
       THEN tmp' = [start |-> 0, size |-> -1] /\ rlen' = 0
            /\ UNCHANGED <<got, out>>
       ELSE /\ got' = got + n
            /\ out' = taken.start + n
            /\ rlen' = rlen - n
            /\ tmp' = IF taken.rc > rlen
                      THEN [start |-> taken.start + n, size |-> taken.rc - n]
                      ELSE tmp
    /\ free' = free + 1
    /\ taken' = Mark(0)
    /\ rd' = "take"
    /\ UNCHANGED <<ready, in_read, missed>>
    /\ ReadUnchanged

ReadLeave ==
    /\ rd = "take"
    /\ rlen = 0
    /\ in_read' = 0
    /\ rd' = "done"
    /\ UNCHANGED <<cacheVars, tmp, rlen, got, taken, out, missed>>
    /\ ReadUnchanged

ReadStep == ReadEnter \/ ReadTake \/ ReadCopy \/ ReadLeave

----------------------------------------------------------------------------
(* pre_close_step1, which abort, close and reset all run, by thread t:     *)
(* raise abort_flag, drain the cache, stop the prefetch thread, send the   *)
(* reader a mark if it is reading, wait until both are out, clean up.      *)

CloseUnchanged == UNCHANGED <<chan, repeat_cnt, prefetchVars>>
ReaderUnchanged == UNCHANGED readVars

CloseBegin(t, aborts) ==
    /\ kpc[t] = "none"
    /\ abort_flag' = 1
    /\ cut' = IF aborts THEN 1 ELSE cut
    /\ kpc' = [kpc EXCEPT ![t] = "flush"]
    /\ UNCHANGED <<cacheVars, in_running, need_join, ppc, missed>>
    /\ CloseUnchanged /\ ReaderUnchanged

CloseFlush(t) ==
    /\ kpc[t] = "flush"
    /\ IF in_running = 1
       THEN ready' = <<>> /\ free' = free + Len(ready)
       ELSE UNCHANGED cacheVars
    /\ kpc' = [kpc EXCEPT ![t] = "stop"]
    /\ UNCHANGED <<cut, abort_flag, in_running, need_join, missed>>
    /\ CloseUnchanged /\ ReaderUnchanged

\* A thread that was made but has not run yet is told to end before its
\* handler runs, and is not joined.
CloseStop(t) ==
    /\ kpc[t] = "stop"
    /\ kpc' = [kpc EXCEPT ![t] = IF need_join = 1 THEN "join" ELSE "mark"]
    /\ need_join' = 0
    /\ ppc' = IF ppc = "made" THEN "never" ELSE ppc
    /\ missed' = IF ppc = "made" THEN 1 ELSE missed
    /\ UNCHANGED <<chan, cut, cacheVars, abort_flag, in_running, repeat_cnt,
                   pbuf, end_of_prefetch>>
    /\ ReaderUnchanged

CloseJoin(t) ==
    /\ kpc[t] = "join"
    /\ ppc = "over"
    /\ ppc' = "off"
    /\ kpc' = [kpc EXCEPT ![t] = "mark"]
    /\ UNCHANGED <<chan, cut, cacheVars, abort_flag, in_running, repeat_cnt,
                   pbuf, end_of_prefetch, need_join, missed>>
    /\ ReaderUnchanged

\* Mutant: the reader is waited for but sent no mark.
NoMark(t) ==
    /\ kpc[t] = "mark"
    /\ kpc' = [kpc EXCEPT ![t] = "reader"]
    /\ UNCHANGED <<cut, cacheVars, abort_flag, in_running, need_join, missed>>
    /\ CloseUnchanged /\ ReaderUnchanged

CloseMark(t) ==
    /\ kpc[t] = "mark"
    /\ IF in_read = 0
       THEN kpc' = [kpc EXCEPT ![t] = "reader"] /\ UNCHANGED free
       ELSE /\ free > 0
            /\ free' = free - 1
            /\ kpc' = [kpc EXCEPT ![t] = "put"]
    /\ UNCHANGED <<cut, ready, abort_flag, in_running, need_join, missed>>
    /\ CloseUnchanged /\ ReaderUnchanged

ClosePut(t) ==
    /\ kpc[t] = "put"
    /\ ready' = Append(ready, Mark(-1))
    /\ kpc' = [kpc EXCEPT ![t] = "reader"]
    /\ UNCHANGED <<cut, free, abort_flag, in_running, need_join, missed>>
    /\ CloseUnchanged /\ ReaderUnchanged

CloseReader(t) ==
    /\ kpc[t] = "reader"
    /\ in_read = 0
    /\ kpc' = [kpc EXCEPT ![t] = "prefetch"]
    /\ UNCHANGED <<cut, cacheVars, abort_flag, in_running, need_join, missed>>
    /\ CloseUnchanged /\ ReaderUnchanged

ClosePrefetch(t) ==
    /\ kpc[t] = "prefetch"
    /\ in_running = 0
    /\ kpc' = [kpc EXCEPT ![t] = "clean"]
    /\ UNCHANGED <<cut, cacheVars, abort_flag, in_running, need_join, missed>>
    /\ CloseUnchanged /\ ReaderUnchanged

\* The client's closefile only forgets its checksum: the channel stays.
CloseClean(t) ==
    /\ kpc[t] = "clean"
    /\ ready' = <<>>
    /\ free' = NBuf
    /\ tmp' = [start |-> 0, size |-> -1]
    /\ kpc' = [kpc EXCEPT ![t] = "none"]
    /\ UNCHANGED <<cut, abort_flag, in_running, need_join, missed, in_read,
                   rd, rlen, got, taken, out>>
    /\ CloseUnchanged

CloseStep(t) ==
    \/ CloseFlush(t) \/ CloseStop(t) \/ CloseJoin(t) \/ CloseMark(t)
    \/ ClosePut(t) \/ CloseReader(t) \/ ClosePrefetch(t)

----------------------------------------------------------------------------
(* pre_open_step1: forget the flags, clean the cache, start the thread.    *)
(* thr->start does nothing while the old thread has not exited, and joins  *)
(* one that has; so does whoever was about to join it.                     *)

OpenStep1 ==
    /\ tmp' = [start |-> 0, size |-> 0]
    /\ abort_flag' = 0
    /\ repeat_cnt' = 0
    /\ in_running' = 1
    /\ ready' = <<>>
    /\ free' = NBuf
    /\ out' = 0
    /\ IF ppc \in {"off", "over"}
       THEN /\ ppc' = "made"
            /\ need_join' = 0
            /\ kpc' = [t \in Threads |->
                         IF kpc[t] = "join" THEN "mark" ELSE kpc[t]]
       ELSE UNCHANGED <<ppc, need_join, kpc>>
    /\ UNCHANGED <<pbuf, end_of_prefetch, in_read, rd, rlen, got, taken>>

\* Mutant: the channel of the newly opened file is still cut.
OpenStillCut(f) ==
    /\ chan' = [file |-> f, pos |-> 0]
    /\ UNCHANGED cut
    /\ missed' = 0
    /\ OpenStep1

\* pre_open.  When the server does not have the file, the channel is wound
\* back and no longer cut, and no thread is started.
Open(f) ==
    /\ chan' = [file |-> f, pos |-> 0]
    /\ cut' = 0
    /\ missed' = 0
    /\ OpenStep1

OpenFails ==
    /\ chan' = [chan EXCEPT !.pos = 0]
    /\ cut' = 0
    /\ UNCHANGED <<cacheVars, abort_flag, in_running, repeat_cnt, prefetchVars,
                   need_join, readVars, kpc, missed>>

\* pre_reset after its pre_close_step1: back to the first block.
Reset ==
    /\ chan' = [chan EXCEPT !.pos = 0]
    /\ UNCHANGED <<cut, missed>>
    /\ OpenStep1

\* pub_set_repeat, once the file is open.
SetRepeat(r) ==
    /\ repeat_cnt' = r
    /\ UNCHANGED <<chan, cut, cacheVars, abort_flag, in_running, prefetchVars,
                   need_join, readVars, kpc, missed>>
=============================================================================

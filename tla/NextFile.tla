------------------------------ MODULE NextFile ------------------------------
(***************************************************************************)
(* Reading the next file ahead (stio_engine/prefetch.c).  While the end of *)
(* a file is still playing, the caller names the next one, and a second    *)
(* thread, prefetch_queue_main (Q below), opens it on the same channel and *)
(* fills the buffers of pbc with its first blocks.  When that file is      *)
(* opened, the prefetch thread prefetch_main (P) first takes the blocks of *)
(* pbc and then seeks behind them.                                         *)
(*                                                                         *)
(* Prefetch models closing an engine step by step; here pre_close_step1 is *)
(* one wait for P's end.  The caller asks for the next file only after P   *)
(* has met the end of the current one, as holktv_stb tells it when.        *)
(* A block is the run of units start .. start+n-1 of its file.             *)
(***************************************************************************)
EXTENDS Integers, Sequences

CONSTANTS Size,         \* the length in units of every file
          BSize,        \* units in a buffer
          PNBuf,        \* buffers of pbc
          MaxAsks       \* bound: calls of the caller in a behaviour

Files == DOMAIN Size
None == "none"

ASSUME NextFileAssumption ==
    /\ BSize \in Nat \ {0}
    /\ PNBuf \in Nat
    /\ Size \in [Files -> Nat]
    /\ None \notin Files

VARIABLES chan,         \* the engine's channel: file and position
          next,         \* next_file while have_next_file, else None
          in_pq, already, stop_pq, need_reopen, abort_flag,
          pbc,          \* the ready blocks of pbc
          enable_kbuf,  \* the keep buffer: 0 off, 1 store, 2 output
          kbuf_pos, kbc, \* where it ends, and its ready blocks
          ppc, use_prev, pbc_off, kbc_state,    \* prefetch_main
          qpc, rc,                              \* prefetch_queue_main
          opc, arg,                             \* the caller: place, file
          asks,
          opened,       \* history: the file of the last open
          due,          \* history: the unit P must give next
          block,        \* history: what P gave last, and what was due
          strayed,      \* history: the caller left the announced order
          late,         \* history: already is set, but not for what pbc holds
          lost          \* history: a signal came before the wait

flags == <<next, in_pq, already, stop_pq, need_reopen>>
keep == <<enable_kbuf, kbuf_pos, kbc>>
pVars == <<ppc, use_prev, pbc_off, kbc_state>>
qVars == <<qpc, rc>>
cVars == <<opc, arg, asks>>
hist == <<opened, due, block, strayed>>
nextVars == <<chan, flags, abort_flag, pbc, keep, pVars, qVars, cVars, hist, late,
              lost>>

NoBlock == [file |-> None, start |-> 0, n |-> 0]

NInit ==
    /\ chan = [file |-> None, pos |-> 0]
    /\ next = None
    /\ in_pq = 0 /\ already = 0 /\ stop_pq = 0 /\ need_reopen = 0
    /\ abort_flag = 0
    /\ pbc = <<>>
    /\ enable_kbuf \in {0, 1} /\ kbuf_pos = 0 /\ kbc = <<>>
    /\ ppc = "off" /\ use_prev = 0 /\ pbc_off = 0 /\ kbc_state = 0
    /\ qpc = "off" /\ rc = 0
    /\ opc = "idle" /\ arg = None /\ asks = 0
    /\ opened = None /\ due = 0 /\ strayed = 0 /\ late = 0 /\ lost = 0
    /\ block = [b |-> NoBlock, file |-> None, due |-> 0]

ReadAt(c) ==
    LET left == Size[c.file] - c.pos IN
    IF c.file = None THEN 0 ELSE IF left < BSize THEN left ELSE BSize

----------------------------------------------------------------------------
(* prefetch_queue_main.                                                    *)

QBegin ==
    /\ qpc = "made"
    /\ stop_pq' = 0
    /\ qpc' = "lock"
    /\ UNCHANGED <<chan, next, in_pq, already, need_reopen, abort_flag, pbc,
                   keep, pVars, rc, cVars, hist, late, lost>>

\* pre_open holds the mutex while it looks at in_pq_prefetch.
MutexFree == opc # "towait"

QLock ==
    /\ qpc = "lock"
    /\ MutexFree
    /\ already' = 0
    /\ in_pq' = 1
    /\ rc' = IF next = None THEN 0 ELSE 1
    /\ qpc' = IF next = None THEN "end" ELSE "open"
    /\ UNCHANGED <<chan, next, stop_pq, need_reopen, abort_flag, pbc, keep,
                   pVars, cVars, hist, late, lost>>

QOpen ==
    /\ qpc = "open"
    /\ need_reopen' = 1
    /\ \/ /\ chan' = [file |-> next, pos |-> 0]
          /\ pbc' = <<>>
          /\ qpc' = "read"
          /\ UNCHANGED late
       \/ /\ chan' = [chan EXCEPT !.pos = 0]
          /\ qpc' = "end"
          /\ late' = IF pbc # <<>> THEN 1 ELSE late
          /\ UNCHANGED pbc
    /\ UNCHANGED <<next, in_pq, already, stop_pq, abort_flag, keep, pVars, rc,
                   cVars, hist, lost>>

\* One block, if pbc has a free buffer.  A block that is not full is left out,
\* and ends the loop.
QRead ==
    /\ qpc = "read"
    /\ LET n == ReadAt(chan) IN
       IF Len(pbc) = PNBuf
       THEN qpc' = "end" /\ UNCHANGED <<chan, pbc>>
       ELSE /\ chan' = [chan EXCEPT !.pos = @ + n]
            /\ pbc' = IF n = BSize
                      THEN Append(pbc, [file |-> chan.file, start |-> chan.pos,
                                        n |-> n])
                      ELSE pbc
            /\ qpc' = IF n < BSize \/ stop_pq = 1 THEN "end" ELSE "read"
    /\ UNCHANGED <<flags, abort_flag, keep, pVars, rc, cVars, hist, late, lost>>

\* What ends the thread happens outside the mutex.
QEnd ==
    /\ qpc = "end"
    /\ in_pq' = 0
    /\ qpc' = "ended"
    /\ UNCHANGED <<chan, next, already, stop_pq, need_reopen, abort_flag, pbc,
                   keep, pVars, rc, cVars, hist, late, lost>>

QAlready ==
    /\ qpc = "ended"
    /\ already' = IF stop_pq = 0 THEN 1 ELSE already
    /\ late' = IF stop_pq = 0 /\ next = None THEN 1 ELSE late
    /\ stop_pq' = 0
    /\ qpc' = "signal"
    /\ UNCHANGED <<chan, next, in_pq, need_reopen, abort_flag, pbc, keep, pVars,
                   rc, cVars, hist, lost>>

\* Mutant: the thread ends without a signal.
QNoSignal ==
    /\ qpc = "signal"
    /\ qpc' = "over"
    /\ lost' = IF opc = "towait" THEN 1 ELSE lost
    /\ UNCHANGED <<chan, flags, abort_flag, pbc, keep, pVars, rc, arg, asks,
                   hist, opc, late>>

QSignal ==
    /\ qpc = "signal"
    /\ qpc' = "over"
    /\ opc' = IF opc = "waiting" THEN "check" ELSE opc
    /\ lost' = IF opc = "towait" THEN 1 ELSE lost
    /\ UNCHANGED <<chan, flags, abort_flag, pbc, keep, pVars, rc, arg, asks,
                   hist, late>>

\* The thread was told to end before its handler ran.
QNever ==
    /\ qpc = "never"
    /\ qpc' = "over"
    /\ UNCHANGED <<chan, flags, abort_flag, pbc, keep, pVars, rc, cVars, hist,
                   late, lost>>

Queue ==
    \/ QBegin \/ QLock \/ QOpen \/ QRead \/ QEnd \/ QAlready \/ QSignal
    \/ QNever

----------------------------------------------------------------------------
(* prefetch_main.                                                          *)

PBegin ==
    /\ ppc = "made"
    /\ ppc' = "fill"
    /\ use_prev' = already
    /\ already' = 0
    /\ pbc_off' = 0
    /\ kbc_state' = CASE enable_kbuf = 0 -> 0 [] enable_kbuf = 1 -> 1
                      [] enable_kbuf = 2 -> 3
    /\ chan' = IF enable_kbuf = 2 THEN [chan EXCEPT !.pos = kbuf_pos] ELSE chan
    /\ UNCHANGED <<next, in_pq, stop_pq, need_reopen, abort_flag, pbc, keep,
                   qVars, cVars, hist, late, lost>>

\* P gives the reader a block; zero units, or -1, end the thread.
Give(b) ==
    /\ block' = [b |-> b, file |-> opened, due |-> due]
    /\ due' = due + b.n
    /\ ppc' = IF b.n > 0 THEN "fill" ELSE "over"

\* kbc_state 1 asks kbc for a ready buffer, not a free one, to store a block
\* in: kbc has none, so nothing is ever kept and state 2 follows.  In state 3
\* it gives what was kept.
Kept == kbc_state = 3 /\ kbc # <<>>
KeepState(n) ==
    /\ kbc = <<>>
    /\ kbc_state' = IF kbc_state = 3 \/ (kbc_state = 1 /\ n > 0) THEN 2
                    ELSE kbc_state
    /\ UNCHANGED keep

PAborted ==
    /\ abort_flag = 1
    /\ Give([NoBlock EXCEPT !.n = -1])
    /\ KeepState(0)
    /\ UNCHANGED <<chan, pbc, use_prev, pbc_off>>

PFromPbc ==
    /\ abort_flag = 0 /\ use_prev = 1 /\ pbc # <<>>
    /\ Give(Head(pbc))
    /\ pbc' = Tail(pbc)
    /\ pbc_off' = pbc_off + Head(pbc).n
    /\ KeepState(Head(pbc).n)
    /\ UNCHANGED <<chan, use_prev>>

\* The blocks of pbc are used up: seek behind them.
PRead ==
    /\ abort_flag = 0
    /\ use_prev = 0 \/ pbc = <<>>
    /\ LET c == IF use_prev = 1 THEN [chan EXCEPT !.pos = pbc_off] ELSE chan
           n == ReadAt(c) IN
       /\ Give([file |-> c.file, start |-> c.pos, n |-> n])
       /\ chan' = [c EXCEPT !.pos = @ + n]
       /\ KeepState(n)
    /\ use_prev' = 0
    /\ UNCHANGED <<pbc, pbc_off>>

PFill ==
    /\ ppc = "fill"
    /\ ~Kept
    /\ PAborted \/ PFromPbc \/ PRead
    /\ UNCHANGED <<flags, abort_flag, qVars, cVars, opened, strayed, late, lost>>

PrefetchMain == PBegin \/ PFill

----------------------------------------------------------------------------
(* The caller: stm_pq_prefetch, stm_open and a reset.                      *)

Ask(place) ==
    /\ opc = "idle"
    /\ asks < MaxAsks
    /\ asks' = asks + 1
    /\ opc' = place

\* open_next, then start_pq_prefetch, which first stops the thread.
AskNext(f) ==
    /\ Ask("pq_join")
    /\ ppc = "over"
    /\ abort_flag = 0
    /\ next' = f
    /\ strayed' = IF next \notin {None, f} THEN 1 ELSE strayed
    /\ stop_pq' = 1
    /\ qpc' = IF qpc = "made" THEN "never" ELSE qpc
    /\ UNCHANGED <<chan, in_pq, already, need_reopen, abort_flag, pbc, keep,
                   pVars, rc, arg, opened, due, block, late, lost>>

\* thr->stop joins a thread that has begun, and leaves alone one that has
\* not; thr->start then does nothing while that one has not ended.
Joined == qpc \in {"off", "over", "never"}
Started == IF qpc = "never" THEN "never" ELSE "made"

PQStart ==
    /\ opc = "pq_join"
    /\ Joined
    /\ qpc' = Started
    /\ opc' = "idle"
    /\ UNCHANGED <<chan, flags, abort_flag, pbc, keep, pVars, rc, arg, asks,
                   hist, late, lost>>

\* Closing raises abort_flag and joins P.
AskOpen(f) ==
    /\ Ask("close")
    /\ ppc # "made"
    /\ arg' = f
    /\ abort_flag' = 1
    /\ UNCHANGED <<chan, flags, pbc, keep, pVars, qVars, hist, late, lost>>

AskReset ==
    /\ Ask("close_reset")
    /\ opened # None
    /\ ppc # "made"
    /\ abort_flag' = 1
    /\ UNCHANGED <<chan, flags, pbc, keep, pVars, qVars, arg, hist, late, lost>>

Closed ==
    /\ ppc \in {"off", "over"}
    /\ ppc' = "off"

\* pre_open up to the lock: a thread that reads another file is told to stop.
OpenBegin ==
    /\ opc = "close"
    /\ Closed
    /\ need_reopen' = 0
    /\ stop_pq' = IF next \notin {None, arg} THEN 1 ELSE stop_pq
    /\ strayed' = IF next \notin {None, arg} \/ strayed = 1 THEN 1 ELSE 0
    /\ opc' = IF next = None THEN "open" ELSE "check"
    /\ UNCHANGED <<chan, next, in_pq, already, abort_flag, pbc, keep, use_prev,
                   pbc_off, kbc_state, qVars, arg, asks, opened, due, block,
                   late, lost>>

\* Mutant: the thread that reads ahead is not waited for.
OpenDoesNotWait ==
    /\ opc = "check"
    /\ opc' = "open" /\ next' = None
    /\ UNCHANGED <<chan, in_pq, already, stop_pq, need_reopen, abort_flag, pbc,
                   keep, pVars, qVars, arg, asks, hist, late, lost>>

\* Under the mutex: wait while in_pq_prefetch, then forget the next file.
OpenCheck ==
    /\ opc = "check"
    /\ IF in_pq = 1
       THEN opc' = "towait" /\ UNCHANGED next
       ELSE opc' = "open" /\ next' = None
    /\ UNCHANGED <<chan, in_pq, already, stop_pq, need_reopen, abort_flag, pbc,
                   keep, pVars, qVars, arg, asks, hist, late, lost>>

OpenWait ==
    /\ opc = "towait"
    /\ opc' = "waiting"
    /\ UNCHANGED <<chan, flags, abort_flag, pbc, keep, pVars, qVars, arg, asks,
                   hist, late, lost>>

\* pre_open_step1.
StartP ==
    /\ abort_flag' = 0
    /\ ppc' = "made"
    /\ due' = 0
    /\ UNCHANGED <<use_prev, pbc_off, kbc_state, block>>

OpenFile ==
    /\ opc = "open"
    /\ opc' = "idle"
    /\ \/ /\ chan' = [file |-> arg, pos |-> 0]
          /\ opened' = arg
          /\ enable_kbuf' = IF enable_kbuf = 0 THEN 0 ELSE 1
          /\ StartP
          /\ UNCHANGED strayed
       \/ /\ chan' = [chan EXCEPT !.pos = 0]
          /\ strayed' = IF qpc # "off" THEN 1 ELSE strayed
          /\ UNCHANGED <<opened, enable_kbuf, abort_flag, pVars, due, block>>
    /\ UNCHANGED <<flags, pbc, kbuf_pos, kbc, qVars, arg, asks, late, lost>>

\* pre_reset: stop the thread that reads ahead, then begin again.  The name
\* that a reopen uses, current_file, is never set under a prefetch layer: the
\* channel keeps the next file, wound back.
ResetStop ==
    /\ opc = "close_reset"
    /\ Closed
    /\ stop_pq' = 1
    /\ qpc' = IF qpc = "made" THEN "never" ELSE qpc
    /\ opc' = "reset_join"
    /\ UNCHANGED <<chan, next, in_pq, already, need_reopen, abort_flag, pbc,
                   keep, use_prev, pbc_off, kbc_state, rc, arg, asks, hist,
                   late, lost>>

ResetFile ==
    /\ opc = "reset_join"
    /\ Joined
    /\ qpc' = IF qpc = "never" THEN "never" ELSE "off"
    /\ strayed' = IF next # None \/ need_reopen = 1 THEN 1 ELSE strayed
    /\ need_reopen' = 0
    /\ chan' = [chan EXCEPT !.pos = 0]
    /\ enable_kbuf' = IF enable_kbuf = 0 THEN 0 ELSE 2
    /\ opc' = "idle"
    /\ StartP
    /\ UNCHANGED <<next, in_pq, already, stop_pq, pbc, kbuf_pos, kbc, rc, arg,
                   asks, opened, late, lost>>

\* set_keep_buffer once the engine has one: -1 empties it, 0 and 1 turn it
\* off and on.
SetKeepBuffer(n) ==
    /\ opc = "idle"
    /\ asks < MaxAsks
    /\ asks' = asks + 1
    /\ kbc' = IF n < 0 THEN <<>> ELSE kbc
    /\ enable_kbuf' = IF n < 0 THEN enable_kbuf ELSE n
    /\ UNCHANGED <<chan, flags, abort_flag, pbc, kbuf_pos, pVars, qVars, opc,
                   arg, hist, late, lost>>

Caller ==
    \/ PQStart
    \/ OpenBegin \/ OpenCheck \/ OpenWait \/ OpenFile
    \/ ResetStop \/ ResetFile

Asks ==
    \/ \E f \in Files : AskNext(f) \/ AskOpen(f)
    \/ AskReset
    \/ \E n \in -1 .. 1 : SetKeepBuffer(n)

NNext == Queue \/ PrefetchMain \/ Caller \/ Asks

\* The three threads run; nobody need ask for anything.
NFair == WF_nextVars(Queue) /\ WF_nextVars(PrefetchMain) /\ WF_nextVars(Caller)

NSpec == NInit /\ [][NNext]_nextVars /\ NFair

----------------------------------------------------------------------------
\* As long as the caller opens the file it has announced, and does not reset
\* one while another is announced, every block the reader is given is of the
\* file that was opened and begins where the one before ended, whether it was
\* read ahead or not, and the end comes at the end of the file.  Two cases of
\* prefetch_queue_main are excepted.  It clears in_pq_prefetch before it sets
\* already_pq_prefetch, and an open in between leaves the flag to the open that
\* follows; and it sets the flag when it could not open the file, though the
\* buffers may still hold blocks of another.
Seamless ==
    (strayed = 0 /\ late = 0 /\ block.file # None /\ block.b.n # -1) =>
        /\ block.b.file = block.file
        /\ block.b.start = block.due
        /\ block.b.n = 0 => block.due = Size[block.file]

\* An open, a reset and a request to read ahead return, unless the signal
\* that ends the wait came between the test of in_pq_prefetch and the wait.
AsksReturn == opc # "idle" ~> (opc = "idle" \/ lost = 1)
=============================================================================

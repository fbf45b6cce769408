----------------------------- MODULE StreamMpeg -----------------------------
(***************************************************************************)
(* The MPEG player (stream_mpeg/stream_mpeg.c) on the read-ahead engine:   *)
(* the control thread opens, starts, resets and stops; the player thread   *)
(* (playMPEG_main) reads blocks, pushes them to the decoder and, when it   *)
(* ends, aborts and closes the engine too, so that both threads may be     *)
(* inside pre_close_step1 of one engine at once.                           *)
(***************************************************************************)
EXTENDS Prefetch

CONSTANTS ReadLens,     \* the lengths the player reads
          MinPlay,      \* start_play_buffer
          MaxAsks      \* bound: opens and resets in a behaviour

C == "control"
M == "player"

ASSUME StreamMpegAssumption ==
    /\ Threads = {C, M}
    /\ ReadLens \subseteq Nat \ {0}
    /\ MinPlay \in 0 .. NBuf
    /\ MaxAsks \in Nat

VARIABLES mpc,              \* playMPEG_main
          terminate, reset_mpeg, playing, playing_error,
          todo,             \* what each thread has yet to call
          asked,           \* opens and resets asked for so far
          raced             \* history: a reset overtook a stop

playVars == <<mpc, terminate, reset_mpeg, playing, playing_error, asked, raced>>
mpegVars == <<vars, playVars, todo>>

MInit ==
    /\ Init
    /\ mpc = "off"
    /\ terminate = 0
    /\ reset_mpeg = 0
    /\ playing = 0
    /\ playing_error = 0
    /\ todo = [t \in Threads |-> <<>>]
    /\ asked = 0
    /\ raced = 0

Doing(t, op) == todo[t] # <<>> /\ Head(todo[t]) = op
Done(t) == todo' = [todo EXCEPT ![t] = Tail(@)]

----------------------------------------------------------------------------
(* The engine's calls, by either thread.  abort is a close that also cuts  *)
(* the client's channel.                                                   *)

EngineClose(t) ==
    /\ \/ Doing(t, "abort") /\ CloseBegin(t, TRUE) /\ UNCHANGED todo
       \/ Doing(t, "close") /\ CloseBegin(t, FALSE) /\ UNCHANGED todo
       \/ Doing(t, "reset") /\ CloseBegin(t, FALSE) /\ UNCHANGED todo
       \/ CloseStep(t) /\ UNCHANGED todo
       \/ /\ CloseClean(t)
          /\ todo' = [todo EXCEPT ![t] =
                         IF Head(@) = "reset" THEN <<"reopen">> ELSE Tail(@)]
    /\ UNCHANGED playVars

EngineReset(t) ==
    /\ Doing(t, "reopen")
    /\ Reset
    /\ Done(t)
    /\ raced' = IF kpc[C] # "none" THEN 1 ELSE raced
    /\ UNCHANGED <<mpc, terminate, reset_mpeg, playing, playing_error, asked>>

----------------------------------------------------------------------------
(* The control thread.                                                     *)

Idle == todo[C] = <<>>
Calls(ops) == todo' = [todo EXCEPT ![C] = ops]

stm_stop ==
    /\ Idle
    /\ mpc # "off"
    /\ terminate' = 1
    /\ Calls(<<"abort", "join", "close">>)
    /\ UNCHANGED <<vars, mpc, reset_mpeg, playing, playing_error, asked, raced>>

stm_open ==
    /\ Idle
    /\ asked < MaxAsks
    /\ asked' = asked + 1
    /\ terminate' = 1
    /\ Calls(<<"abort", "join", "close", "open">>)
    /\ UNCHANGED <<vars, mpc, reset_mpeg, playing, playing_error, raced>>

\* thr->stop of the player thread.
Join ==
    /\ Doing(C, "join")
    /\ mpc \in {"off", "over"}
    /\ mpc' = "off"
    /\ Done(C)
    /\ UNCHANGED <<vars, terminate, reset_mpeg, playing, playing_error, asked,
                   raced>>

\* stio->open of a file, which may not be there; whoever opened it starts
\* the player, and may wait until it plays.
OpenFile ==
    /\ Doing(C, "open")
    /\ \/ /\ \E f \in Files : Open(f)
          /\ playing' = 0
          /\ Calls(<<"start">>)
       \/ OpenFails /\ Done(C) /\ UNCHANGED playing
    /\ raced' = 0
    /\ UNCHANGED <<mpc, terminate, reset_mpeg, playing_error, asked>>

stm_start ==
    /\ Doing(C, "start")
    /\ mpc = "off"
    /\ mpc' = "first"
    /\ terminate' = 0
    /\ playing_error' = 0
    /\ \/ Calls(<<"wait">>)
       \/ Done(C)
    /\ UNCHANGED <<vars, reset_mpeg, playing, asked, raced>>

set_repeat ==
    /\ Idle
    /\ mpc # "off"
    /\ abort_flag = 0
    /\ \E r \in Repeats : repeat_cnt # r /\ SetRepeat(r)
    /\ UNCHANGED <<playVars, todo>>

stm_wait_for_playing ==
    /\ Doing(C, "wait")
    /\ playing = 1 \/ playing_error = 1
    /\ Done(C)
    /\ UNCHANGED <<vars, playVars>>

stm_reset ==
    /\ Idle
    /\ mpc # "off"
    /\ reset_mpeg = 0
    /\ asked < MaxAsks
    /\ asked' = asked + 1
    /\ reset_mpeg' = 1
    /\ UNCHANGED <<vars, mpc, terminate, playing, playing_error, raced, todo>>

Control ==
    \/ EngineClose(C)
    \/ Join \/ OpenFile \/ stm_start \/ stm_wait_for_playing

Request == stm_stop \/ stm_open \/ set_repeat \/ stm_reset

----------------------------------------------------------------------------
(* playMPEG_main.                                                          *)

\* The first read tells the stream type; a failure, or a stream of another
\* type, ends the thread without closing the engine.
FirstRead ==
    /\ mpc = "first"
    /\ \E len \in ReadLens : ReadBegin(len)
    /\ mpc' = "first_result"
    /\ UNCHANGED <<terminate, reset_mpeg, playing, playing_error, asked, raced,
                   todo>>

FirstResult ==
    /\ mpc = "first_result"
    /\ rd = "done"
    /\ rd' = "none"
    /\ \/ got <= 0 /\ mpc' = "over" /\ playing_error' = 1
       \/ got > 0 /\ mpc' = "fill" /\ UNCHANGED playing_error
       \/ got > 0 /\ mpc' = "over" /\ playing_error' = 1
    /\ UNCHANGED <<chan, cut, cacheVars, abort_flag, in_running, repeat_cnt,
                   prefetchVars, need_join, in_read, tmp, rlen, got, taken, out,
                   kpc, missed, terminate, reset_mpeg, playing, asked, raced,
                   todo>>

\* Mutant: the wait for enough blocks does not look at the end of the file.
WaitForBlocks ==
    /\ mpc = "fill"
    /\ NBuf - free >= MinPlay
    /\ mpc' = "play"
    /\ playing' = 1
    /\ reset_mpeg' = 0
    /\ UNCHANGED <<vars, terminate, playing_error, asked, raced, todo>>

\* Wait until enough blocks are read ahead, or no more will come; then the
\* decoder starts, and a reset asked for before is forgotten.
StartPlaying ==
    /\ mpc = "fill"
    /\ NBuf - free >= MinPlay \/ end_of_prefetch = 1
    /\ mpc' = "play"
    /\ playing' = 1
    /\ reset_mpeg' = 0
    /\ UNCHANGED <<vars, terminate, playing_error, asked, raced, todo>>

\* One turn of the loop: leave it if told to stop, else push what was read,
\* go back to the beginning if asked to meanwhile, and read on.
LeaveLoop ==
    /\ mpc' = "closing"
    /\ todo' = [todo EXCEPT ![M] = <<"abort", "close">>]

Play ==
    /\ mpc = "play"
    /\ IF terminate = 1
       THEN LeaveLoop
       ELSE mpc' = "push" /\ UNCHANGED todo
    /\ UNCHANGED <<vars, terminate, reset_mpeg, playing, playing_error, asked,
                   raced>>

\* The thread ends at once, and closes nothing, when the decoder gives it no
\* buffer.
Push ==
    /\ mpc = "push"
    /\ \/ /\ mpc' = "read"
          /\ reset_mpeg' = 0
          /\ todo' = [todo EXCEPT ![M] =
                         IF reset_mpeg = 1 THEN <<"reset">> ELSE <<>>]
       \/ mpc' = "over" /\ UNCHANGED <<reset_mpeg, todo>>
    /\ UNCHANGED <<vars, terminate, playing, playing_error, asked, raced>>

Read ==
    /\ mpc = "read"
    /\ todo[M] = <<>>
    /\ \E len \in ReadLens : ReadBegin(len)
    /\ mpc' = "result"
    /\ UNCHANGED <<terminate, reset_mpeg, playing, playing_error, asked, raced,
                   todo>>

Result ==
    /\ mpc = "result"
    /\ rd = "done"
    /\ rd' = "none"
    /\ IF got > 0
       THEN mpc' = "play" /\ UNCHANGED todo
       ELSE LeaveLoop
    /\ UNCHANGED <<chan, cut, cacheVars, abort_flag, in_running, repeat_cnt,
                   prefetchVars, need_join, in_read, tmp, rlen, got, taken, out,
                   kpc, missed, terminate, reset_mpeg, playing, playing_error,
                   asked, raced>>

Over ==
    /\ mpc = "closing"
    /\ todo[M] = <<>>
    /\ mpc' = "over"
    /\ UNCHANGED <<vars, terminate, reset_mpeg, playing, playing_error, asked,
                   raced, todo>>

Player ==
    \/ FirstRead \/ FirstResult \/ StartPlaying
    \/ Play \/ Push \/ Read \/ Result \/ Over
    \/ EngineClose(M) \/ EngineReset(M)
    \/ ReadStep /\ UNCHANGED <<playVars, todo>>

Prefetcher == PrefetchMain /\ UNCHANGED <<playVars, todo>>

Next == Control \/ Request \/ Player \/ Prefetcher

\* Every thread that can run does; nobody need ask the player for anything.
Spec ==
    /\ MInit /\ [][Next]_mpegVars
    /\ WF_mpegVars(Control) /\ WF_mpegVars(Player) /\ WF_mpegVars(Prefetcher)

----------------------------------------------------------------------------
TypeOK ==
    /\ chan \in [file : Files \cup {None}, pos : Nat]
    /\ cut \in {0, 1}
    /\ free \in Nat
    /\ ready \in Seq(Buffer)
    /\ {abort_flag, in_read, in_running, end_of_prefetch, need_join, terminate,
        reset_mpeg, playing, playing_error, missed, raced} \subseteq {0, 1}
    /\ repeat_cnt \in Int
    /\ tmp \in [start : Nat, size : -1 .. BSize]
    /\ ppc \in {"off", "made", "request", "fill", "ready", "end", "exit",
                "over", "never"}
    /\ pbuf \in Buffer /\ taken \in Buffer
    /\ rd \in {"none", "enter", "take", "copy", "done"}
    /\ kpc \in [Threads -> {"none", "flush", "stop", "join", "mark", "put",
                            "reader", "prefetch", "clean"}]
    /\ mpc \in {"off", "first", "first_result", "fill", "play", "push",
                "read", "result", "closing", "over"}

\* The buffer the reader copies is of the open file.  Until somebody asks
\* the player to stop, it goes on where the reader left off, as does what
\* pre_read kept of the last one, or begins the file again on a repeat.
InOrder ==
    /\ (rd = "copy" /\ taken.rc > 0) =>
          /\ taken.file = chan.file
          /\ terminate = 0 =>
                IF taken.dbflag = 1
                THEN taken.start = 0 /\ out = Size[chan.file]
                ELSE taken.start = out
    /\ (terminate = 0 /\ tmp.size > 0) => tmp.start = out

\* A mark of the end that reaches the reader while nobody has asked it to
\* stop means that the reader has had the whole file.
WholeFile ==
    (rd = "copy" /\ taken.rc <= 0 /\ terminate = 0)
        => taken.rc = 0 /\ out = Size[chan.file]

\* The races the code leaves open.
Slipped == missed = 1 \/ raced = 1

\* Between closes every buffer of the cache is free, ready, or in the hands
\* of one thread, however many threads have closed it at once.  Two races
\* break this, for the cache is then cleaned while in use: a reset that
\* restarts the prefetch thread in the middle of a stop, and a read that
\* enters after the stop has looked for readers.
Accounted ==
    (~Slipped /\ \A t \in Threads : kpc[t] = "none") =>
        free + Len(ready) + (IF ppc \in {"fill", "ready"} THEN 1 ELSE 0)
             + (IF rd = "copy" THEN 1 ELSE 0) = NBuf

\* Every call of the control thread returns (an open or a stop joins both
\* other threads, a wait is woken), unless it slipped through an unguarded
\* handshake: the prefetch thread was stopped before it ran, or the reader
\* entered after the stop had looked for it.
CallsReturn == todo[C] # <<>> ~> (todo[C] = <<>> \/ Slipped)

\* A player that was started ends by itself, unless it repeats for ever.
PlaysOut ==
    mpc = "first" ~> (mpc \in {"off", "over"} \/ Slipped \/ repeat_cnt < 0)

----------------------------------------------------------------------------
(* The instance that TLC checks: one file ends in the middle of a buffer,   *)
(* one at the end of it; the caller may ask for endless repetition.         *)
MCSize == [song |-> 3, jingle |-> 2]
MCRepeats == {-1}
=============================================================================

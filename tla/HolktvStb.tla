----------------------------- MODULE HolktvStb -----------------------------
(***************************************************************************)
(* The set-top box's player (holktv/holktv_stb.c) over its three players.  *)
(* A command thread prepares, plays, replays and cuts songs; the play      *)
(* thread (hktv_play_main, a thread_svc) starts the players together,      *)
(* watches them and stops them; another thread waits for the end of a song.*)
(*                                                                         *)
(* The MP3 player (stream_mp3/stream_mp3.c) and the lyrics                 *)
(* (lyrics_osd/lyrics_osd.c) are threads with the same handshake: thrwait  *)
(* holds them back until start, terminate ends them, have_thr and          *)
(* need_join say whether there is one to stop and to join.  None of these  *)
(* words is protected, and start signals without the mutex.  Of the MPEG   *)
(* player only the outcome of its calls is kept (StreamMpeg has the rest). *)
(* What is played, decoded and drawn is left out, and so are the volumes.  *)
(***************************************************************************)
EXTENDS Naturals, Sequences

CONSTANTS MaxSongs,     \* bound: songs prepared in a behaviour
          Programmes,   \* bound: the play types (0 .. 4) these are prepared with
          MaxReplays    \* bound: replays of a song

VARIABLES pltype, can_cut, allow_cut, in_playing, terminate, replaying,
          can_replay, endof_prefetch,
          eop,                  \* the end-of-prefetch callback is set
          ppc, pt,              \* hktv_play_main and its copy of pltype
          have_thr, need_join,  \* of its thread_svc
          svc,                  \* the MP3 and the lyrics player
          reset_mp3,
          mpeg,                 \* the MPEG player
          todo,                 \* what the two threads have yet to call
          prepared,             \* the caller has prepared a song to play
          wpc,                  \* hktv_wait
          songs, replays,       \* counts for the bounds
          lost, early           \* history: the two races left open

flags == <<can_cut, allow_cut, in_playing, terminate, replaying, can_replay,
           endof_prefetch, eop>>
playThread == <<ppc, pt, have_thr, need_join>>
caller == <<pltype, prepared, songs, replays, early>>
vars == <<flags, playThread, svc, reset_mp3, mpeg, caller, todo, wpc, lost>>

C == "command"
P == "play"
Players == {"mp3", "lyr"}

\* The columns M, 3, m, v and l of the table playtype.
playtype ==
    [t \in 0 .. 4 |->
        [mpeg |-> IF t \in {2, 3} THEN 2 ELSE 1, mp3 |-> t \in {1, 2, 3},
         music |-> t \in {2, 3}, vocal |-> t \in {1, 3}, lyrics |-> t \in {2, 3}]]

Init ==
    /\ pltype = 0
    /\ can_cut = 0 /\ allow_cut = 0 /\ in_playing = 0 /\ terminate = 0
    /\ replaying = 0 /\ can_replay = 0 /\ endof_prefetch = 0 /\ eop = 0
    /\ ppc = "none" /\ pt = 0 /\ have_thr = 0 /\ need_join = 0
    /\ svc = [p \in Players |-> [at |-> "none", thrwait |-> 0, terminate |-> 0,
                                 have_thr |-> 0, need_join |-> 0]]
    /\ reset_mp3 = 0
    /\ mpeg = [at |-> "closed", terminate |-> 0, playing |-> 0, error |-> 0]
    /\ todo = [t \in {C, P} |-> <<>>]
    /\ prepared = 0 /\ wpc = "out"
    /\ songs = 0 /\ replays = 0 /\ lost = 0 /\ early = 0

Doing(t, op) == todo[t] # <<>> /\ Head(todo[t]) = op
Done(t) == todo' = [todo EXCEPT ![t] = Tail(@)]
Becomes(t, ops) == todo' = [todo EXCEPT ![t] = ops \o Tail(@)]
When(b, ops) == IF b THEN ops ELSE <<>>

-----------------------------------------------------------------------------
(* playMP3_main and lyrsvc_main.                                           *)

Goes(p, from, to) == svc[p].at = from /\ svc' = [svc EXCEPT ![p].at = to]
OthersWait == UNCHANGED <<flags, playThread, mpeg, caller, todo, wpc, lost>>

\* The thread holds the mutex from its test of thrwait to its wait; start does
\* not take it.  (A spurious wakeup would only test thrwait again.)
Hold(p) ==
    /\ svc[p].at \in {"made", "awake"}
    /\ svc' = [svc EXCEPT ![p].at = IF svc[p].thrwait = 1 THEN "tested" ELSE "loop"]
    /\ reset_mp3' = IF p = "mp3" /\ svc[p].at = "made" THEN 0 ELSE reset_mp3
    /\ OthersWait

Sleep(p) == Goes(p, "tested", "asleep") /\ UNCHANGED reset_mp3 /\ OthersWait

\* The loop ends when told to, or by itself: at the end of the files, or after
\* the last line (lyrsvc_main then sets terminate itself).
Leave(p) == Goes(p, "loop", "leaving") /\ UNCHANGED reset_mp3 /\ OthersWait

\* Back to the beginning of the files, and wait, in timed waits, for start.
ResetMp3 ==
    /\ svc["mp3"].terminate = 0
    /\ reset_mp3 = 1 /\ reset_mp3' = 0
    /\ Goes("mp3", "loop", "rewound")
    /\ OthersWait

Rewound ==
    /\ svc["mp3"].thrwait = 0
    /\ Goes("mp3", "rewound", "loop")
    /\ UNCHANGED reset_mp3 /\ OthersWait

\* have_thr = terminate = 0: two stores, and then pthread_exit.
Exit(p) ==
    /\ \/ /\ svc[p].at = "leaving"
          /\ svc' = [svc EXCEPT ![p].at = "exit", ![p].terminate = 0]
       \/ /\ svc[p].at = "exit"
          /\ svc' = [svc EXCEPT ![p].at = "dead", ![p].have_thr = 0]
    /\ UNCHANGED reset_mp3 /\ OthersWait

Player(p) ==
    \/ Hold(p) \/ Sleep(p) \/ Leave(p) \/ Exit(p)
    \/ p = "mp3" /\ (ResetMp3 \/ Rewound)

-----------------------------------------------------------------------------
(* The calls of these two players, by either thread.                       *)

CallOnly == UNCHANGED <<flags, playThread, mpeg, caller, wpc>>

\* A signal reaches only a thread that sleeps already.
Started(s) == [s EXCEPT !.thrwait = 0, !.at = IF @ = "asleep" THEN "awake" ELSE @]
Missed(p) == IF svc[p].at = "tested" THEN 1 ELSE lost

\* Mutant: start forgets the signal.
StartUnheard(t, p) ==
    /\ Doing(t, <<p, "start">>)
    /\ svc' = [svc EXCEPT ![p].thrwait = 0]
    /\ Done(t)
    /\ UNCHANGED <<reset_mp3, lost>> /\ CallOnly

start(t, p) ==
    /\ Doing(t, <<p, "start">>)
    /\ svc' = [svc EXCEPT ![p] = Started(@)]
    /\ lost' = Missed(p)
    /\ Done(t)
    /\ UNCHANGED reset_mp3 /\ CallOnly

\* stmp3_pause and stmp3_reset, which the play thread calls in a row.
rewind(t) ==
    /\ Doing(t, <<"mp3", "rewind">>)
    /\ svc' = [svc EXCEPT !["mp3"].thrwait = 1]
    /\ reset_mp3' = 1
    /\ Done(t)
    /\ UNCHANGED lost /\ CallOnly

stmp3_abort(t) ==
    /\ Doing(t, <<"mp3", "abort">>)
    /\ svc' = [svc EXCEPT !["mp3"].terminate = 1]
    /\ Done(t)
    /\ UNCHANGED <<reset_mp3, lost>> /\ CallOnly

\* stop of a thread that runs: tell it to end, and join it.
tell(t, p) ==
    /\ Doing(t, <<p, "tell">>)
    /\ svc' = [svc EXCEPT ![p] = [Started(@) EXCEPT !.terminate = 1, !.need_join = 0]]
    /\ lost' = Missed(p)
    /\ Becomes(t, << <<p, "join">> >>)
    /\ UNCHANGED reset_mp3 /\ CallOnly

\* stop looks at have_thr; a thread that has ended is joined if nobody has.
stop(t, p) ==
    /\ Doing(t, <<p, "stop">>)
    /\ IF svc[p].have_thr = 1
       THEN Becomes(t, << <<p, "tell">> >>) /\ UNCHANGED svc
       ELSE /\ svc' = [svc EXCEPT ![p].need_join = 0]
            /\ Becomes(t, When(svc[p].need_join = 1, << <<p, "join">> >>))
    /\ UNCHANGED <<reset_mp3, lost>> /\ CallOnly

join(t, p) ==
    /\ Doing(t, <<p, "join">>)
    /\ Goes(p, "dead", "none")
    /\ Done(t)
    /\ UNCHANGED <<reset_mp3, lost>> /\ CallOnly

\* The end of stmp3_run and of lyr_init: hold the new thread back, join the
\* one before, create it.
create(t, p) ==
    /\ Doing(t, <<p, "create">>)
    /\ IF svc[p].need_join = 1
       THEN /\ svc' = [svc EXCEPT ![p].thrwait = 1, ![p].need_join = 0]
            /\ todo' = [todo EXCEPT ![t] = << <<p, "join">> >> \o @]
       ELSE /\ svc' = [svc EXCEPT ![p] =
                         [at |-> "made", thrwait |-> 1, have_thr |-> 1, need_join |-> 1,
                          terminate |-> IF p = "lyr" THEN 0 ELSE @.terminate]]
            /\ Done(t)
    /\ UNCHANGED <<reset_mp3, lost>> /\ CallOnly

\* lyr_reinit after lyr_stop, which has joined: need_join stays as it is.  Its
\* other condition, can_restart, holds since lyr_init.
lyr_reinit(t) ==
    /\ Doing(t, <<"lyr", "reinit">>)
    /\ svc' = IF svc["lyr"].have_thr = 1 THEN svc
              ELSE [svc EXCEPT !["lyr"] =
                      [@ EXCEPT !.at = "made", !.thrwait = 1, !.have_thr = 1,
                                !.terminate = 0]]
    /\ Done(t)
    /\ UNCHANGED <<reset_mp3, lost>> /\ CallOnly

PlayerCall(t) ==
    \/ \E p \in Players :
          \/ start(t, p) \/ stop(t, p) \/ tell(t, p)
          \/ join(t, p) \/ create(t, p)
    \/ stmp3_abort(t) \/ rewind(t) \/ lyr_reinit(t)

-----------------------------------------------------------------------------
(* The MPEG player.                                                        *)

Running == mpeg.at \in {"starting", "running"}
MpegOnly == UNCHANGED <<flags, playThread, svc, reset_mp3, caller, todo, wpc, lost>>

\* Its thread plays, or reports an error: playMPEG_main up to its loop.
MpegStarts ==
    /\ mpeg.at = "starting"
    /\ \/ mpeg' = [mpeg EXCEPT !.at = "running", !.playing = 1]
       \/ mpeg' = [mpeg EXCEPT !.at = "over", !.error = 1]
    /\ MpegOnly

\* Told to stop, or at the end of the film or of the connection, it is over.
\* A background film is repeated for ever.
MpegEnds ==
    /\ mpeg.at = "running"
    /\ mpeg' = [mpeg EXCEPT !.at = "over"]
    /\ MpegOnly

MpegMust ==
    \/ MpegStarts
    \/ MpegEnds /\ (mpeg.terminate = 1 \/ playtype[pt].mpeg = 1)

MpegCall(t) ==
    /\ \/ /\ Doing(t, <<"mpeg", "start">>)
          /\ mpeg' = [mpeg EXCEPT !.at = IF Running THEN @ ELSE "starting",
                                  !.terminate = 0, !.error = 0]
          /\ Done(t)
       \/ /\ Doing(t, <<"mpeg", "abort">>)
          /\ mpeg' = [mpeg EXCEPT !.terminate = 1]
          /\ Done(t)
       \/ /\ Doing(t, <<"mpeg", "stop">>)
          /\ mpeg' = [mpeg EXCEPT !.terminate = 1]
          /\ Becomes(t, << <<"mpeg", "join">> >>)
       \/ /\ Doing(t, <<"mpeg", "join">>)
          /\ ~Running
          /\ mpeg' = [mpeg EXCEPT !.at = "closed"]
          /\ Done(t)
    /\ UNCHANGED <<flags, playThread, svc, reset_mp3, caller, wpc, lost>>

-----------------------------------------------------------------------------
(* hktv_prepare, hktv_play, hktv_replay and hktv_cut.                      *)

\* stmp3_stop aborts before it looks for the thread, lyr_stop does not.
Stop(p) == When(p = "mp3", << <<p, "abort">> >>) \o << <<p, "stop">> >>
MpegStop == << <<"mpeg", "stop">> >>
Idle == todo[C] = <<>>
CommandOnly == UNCHANGED <<playThread, svc, reset_mp3, mpeg, wpc, lost>>

\* The caller prepares one song at a time, when none plays or the one that
\* plays may be cut.  prepare ignores what cut returns.
hktv_prepare ==
    /\ Idle
    /\ prepared = 0
    /\ in_playing = 0 \/ allow_cut = 1
    /\ songs < MaxSongs /\ songs' = songs + 1
    /\ \E s \in Programmes :
          /\ songs > 0 => s[songs] = pltype
          /\ pltype' = s[songs + 1]
    /\ todo' = [todo EXCEPT ![C] = << <<"cut">> >> \o MpegStop \o << <<"open">> >>]
    /\ replays' = 0
    /\ UNCHANGED <<flags, prepared, early>> /\ CommandOnly

Fails(ops) == todo' = [todo EXCEPT ![C] = ops]

\* mpeg->open of the film.
OpenMpeg ==
    /\ Doing(C, <<"open">>)
    /\ \/ /\ mpeg' = [mpeg EXCEPT !.at = "open", !.playing = 0]
          /\ Becomes(C, When(playtype[pltype].music, << <<"music">> >>)
                        \o When(playtype[pltype].vocal, << <<"vocal">> >>)
                        \o When(playtype[pltype].lyrics, << <<"lyrics">> >>)
                        \o When(playtype[pltype].mp3, << <<"mp3", "create">> >>)
                        \o << <<"prepared">> >>)
       \/ Fails(<<>>) /\ UNCHANGED mpeg
    /\ UNCHANGED <<flags, playThread, svc, reset_mp3, caller, wpc, lost>>

\* mp3->init of the music and of the vocal: a file that opens clears the MP3
\* player's terminate; one that does not undoes what was prepared.
InitMp3 ==
    \E channel \in {"music", "vocal"} :
        /\ Doing(C, <<channel>>)
        /\ \/ svc' = [svc EXCEPT !["mp3"].terminate = 0] /\ Done(C)
           \/ /\ Fails(MpegStop \o When(channel = "vocal", Stop("mp3")))
              /\ UNCHANGED svc
        /\ UNCHANGED <<reset_mp3, lost>> /\ CallOnly

\* lyr->init stops what it finds running before it creates a thread.
InitLyrics ==
    /\ Doing(C, <<"lyrics">>)
    /\ \/ Becomes(C, Stop("lyr") \o << <<"lyr", "create">> >>)
       \/ Fails(MpegStop \o Stop("mp3"))
    /\ UNCHANGED <<svc, reset_mp3, lost>> /\ CallOnly

Prepared ==
    /\ Doing(C, <<"prepared">>)
    /\ replaying' = 0 /\ can_replay' = 0
    /\ prepared' = 1
    /\ Done(C)
    /\ UNCHANGED <<can_cut, allow_cut, in_playing, terminate, endof_prefetch, eop,
                   pltype, songs, replays, early>>
    /\ CommandOnly

hktv_play ==
    /\ Idle /\ prepared = 1
    /\ prepared' = 0
    /\ can_cut' = 1 /\ allow_cut' = 0 /\ in_playing' = 1
    /\ terminate' = 0 /\ replaying' = 0
    /\ todo' = [todo EXCEPT ![C] = << <<"thr", "start">> >>]
    /\ UNCHANGED <<can_replay, endof_prefetch, eop, pltype, songs, replays, early>>
    /\ CommandOnly

\* Bound: the last song is not replayed.
hktv_replay ==
    /\ Idle
    /\ can_replay = 1
    /\ songs < MaxSongs
    /\ replays < MaxReplays /\ replays' = replays + 1
    /\ replaying' = 1
    /\ UNCHANGED <<can_cut, allow_cut, in_playing, terminate, can_replay,
                   endof_prefetch, eop, pltype, prepared, songs, early, todo>>
    /\ CommandOnly

\* A cut by itself, as by the key that asks for the next song.
AskCut ==
    /\ Idle
    /\ in_playing = 1
    /\ allow_cut = 1
    /\ todo' = [todo EXCEPT ![C] = << <<"cut">> >>]
    /\ UNCHANGED <<flags, caller>> /\ CommandOnly

\* cut refuses before the song plays, and does nothing when none does.
hktv_cut ==
    /\ Doing(C, <<"cut">>)
    /\ Becomes(C, When(allow_cut = 1, << <<"cut", "song">> >>))
    /\ UNCHANGED <<flags, caller>> /\ CommandOnly

CutSong ==
    /\ Doing(C, <<"cut", "song">>)
    /\ IF in_playing = 1
       THEN terminate' = 1 /\ Becomes(C, << <<"cut", "wait">> >>)
       ELSE Done(C) /\ UNCHANGED terminate
    /\ UNCHANGED <<can_cut, allow_cut, in_playing, replaying, can_replay,
                   endof_prefetch, eop, caller>>
    /\ CommandOnly

\* The loops on can_cut, each before a player is aborted; the lyrics are
\* waited for.
CutWait ==
    /\ \/ /\ Doing(C, <<"cut", "wait">>) /\ can_cut # 1
          /\ Becomes(C, When(can_cut # 0,
                << <<"cut", "mp3">>, <<"cut", "lyr">>, <<"cut", "lyrics">>,
                   <<"mpeg", "abort">>, <<"thr", "stop">> >>))
          /\ UNCHANGED svc
       \/ /\ Doing(C, <<"cut", "mp3">>) /\ can_cut # 2
          /\ svc' = [svc EXCEPT !["mp3"].terminate = 1] /\ Done(C)
       \/ /\ Doing(C, <<"cut", "lyr">>) /\ can_cut # 3
          /\ svc' = [svc EXCEPT !["lyr"].terminate = 1] /\ Done(C)
       \/ /\ Doing(C, <<"cut", "lyrics">>) /\ svc["lyr"].have_thr = 0
          /\ Done(C) /\ UNCHANGED svc
    /\ UNCHANGED <<flags, playThread, reset_mp3, mpeg, caller, wpc, lost>>

\* thrsvc_start and thrsvc_stop of the play thread.  start does nothing while
\* the thread of the last song has not yet cleared have_thr.
ThrCall ==
    /\ \/ /\ Doing(C, <<"thr", "start">>)
          /\ need_join' = IF have_thr = 1 THEN need_join ELSE 0
          /\ early' = IF have_thr = 1 THEN 1 ELSE early
          /\ Becomes(C, IF have_thr = 1 THEN <<>>
                        ELSE When(need_join = 1, << <<"thr", "join">> >>)
                             \o << <<"thr", "create">> >>)
          /\ UNCHANGED <<ppc, have_thr>>
       \/ /\ Doing(C, <<"thr", "stop">>)
          /\ need_join' = 0
          /\ Becomes(C, When(need_join = 1, << <<"thr", "join">> >>))
          /\ UNCHANGED <<ppc, have_thr, early>>
       \/ /\ Doing(C, <<"thr", "join">>)
          /\ ppc = "dead" /\ ppc' = "none"
          /\ Done(C)
          /\ UNCHANGED <<have_thr, need_join, early>>
       \/ /\ Doing(C, <<"thr", "create">>)
          /\ have_thr' = 1 /\ ppc' = "made"
          /\ Done(C)
          /\ UNCHANGED <<need_join, early>>
    /\ UNCHANGED <<flags, pt, svc, reset_mp3, mpeg, pltype, prepared, songs,
                   replays, wpc, lost>>

Request == hktv_prepare \/ hktv_play \/ hktv_replay \/ AskCut

Command ==
    \/ PlayerCall(C) \/ MpegCall(C) \/ ThrCall
    \/ OpenMpeg \/ InitMp3 \/ InitLyrics \/ Prepared
    \/ hktv_cut \/ CutSong \/ CutWait

-----------------------------------------------------------------------------
(* hktv_play_main, and hktv_wait of another thread.                        *)

Free == todo[P] = <<>>
ToDo(ops) == todo' = [todo EXCEPT ![P] = ops]
PlayOnly == UNCHANGED <<have_thr, need_join, svc, reset_mp3, mpeg, caller, lost>>

\* thread_svc_main sets its flags and calls the handler.
PlayBegin ==
    /\ ppc = "made" /\ ppc' = "started"
    /\ have_thr' = 1 /\ need_join' = 1
    /\ pt' = pltype
    /\ allow_cut' = 0 /\ endof_prefetch' = 0
    /\ ToDo(<< <<"mpeg", "start">> >>)
    /\ UNCHANGED <<can_cut, in_playing, terminate, replaying, can_replay, eop,
                   svc, reset_mp3, mpeg, caller, wpc, lost>>

PlayStarted ==
    /\ ppc = "started" /\ Free
    /\ ppc' = "wait"
    /\ eop' = IF playtype[pt].lyrics THEN eop ELSE 1
    /\ can_cut' = 2
    /\ UNCHANGED <<pt, allow_cut, in_playing, terminate, replaying, can_replay,
                   endof_prefetch, todo, wpc>>
    /\ PlayOnly

\* stm_wait_for_playing, and then start the others or give up.
PlayWaited ==
    /\ ppc = "wait"
    /\ mpeg.playing = 1 \/ mpeg.error = 1
    /\ IF mpeg.error = 1
       THEN ppc' = "stop" /\ UNCHANGED todo
       ELSE ppc' = "mp3" /\ ToDo(When(playtype[pt].mp3, << <<"mp3", "start">> >>))
    /\ UNCHANGED <<flags, pt, wpc>> /\ PlayOnly

PlayMp3 ==
    /\ ppc = "mp3" /\ Free
    /\ ppc' = "lyr"
    /\ can_cut' = 3
    /\ ToDo(When(playtype[pt].lyrics, << <<"lyr", "start">> >>))
    /\ UNCHANGED <<pt, allow_cut, in_playing, terminate, replaying, can_replay,
                   endof_prefetch, eop, wpc>>
    /\ PlayOnly

PlayLyrics ==
    /\ ppc = "lyr" /\ Free
    /\ ppc' = "loop"
    /\ can_cut' = 4 /\ can_replay' = 1 /\ allow_cut' = 1
    /\ UNCHANGED <<pt, in_playing, terminate, replaying, endof_prefetch, eop,
                   todo, wpc>>
    /\ PlayOnly

\* One turn of the loop: leave it on a cut, else replay if asked to (a film goes
\* back to its beginning by itself, see StreamMpeg) ...
PlayLoop ==
    /\ ppc = "loop" /\ Free
    /\ IF terminate = 1
       THEN ppc' = "stop" /\ UNCHANGED <<replaying, todo>>
       ELSE /\ ppc' = "watch"
            /\ replaying' = 0
            /\ ToDo(CASE replaying = 0 \/ ~playtype[pt].mp3 -> <<>>
                      [] playtype[pt].lyrics ->
                            << <<"lyr", "stop">>, <<"lyr", "reinit">>, <<"mp3", "rewind">>,
                               <<"mp3", "start">>, <<"lyr", "start">> >>
                      [] OTHER -> << <<"mp3", "rewind">>, <<"mp3", "start">> >>)
    /\ UNCHANGED <<pt, can_cut, allow_cut, in_playing, terminate, can_replay,
                   endof_prefetch, eop, wpc>>
    /\ PlayOnly

\* ... and see whether what the song follows, music or film, is still running.
PlayWatch ==
    /\ ppc = "watch" /\ Free
    /\ ppc' = IF (IF playtype[pt].lyrics THEN svc["mp3"].have_thr = 1 ELSE Running)
              THEN "loop" ELSE "stop"
    /\ UNCHANGED <<flags, pt, todo, wpc>> /\ PlayOnly

\* No replay any more (after an error none was allowed), and stop the players;
\* mpeg->close only stops once more what is stopped.
PlayStop ==
    /\ ppc = "stop"
    /\ ppc' = "over"
    /\ ToDo(When(playtype[pt].lyrics, Stop("lyr"))
            \o When(playtype[pt].mp3, Stop("mp3")) \o MpegStop)
    /\ can_replay' = 0
    /\ UNCHANGED <<pt, can_cut, allow_cut, in_playing, terminate, replaying,
                   endof_prefetch, eop, wpc>>
    /\ PlayOnly

PlayOver ==
    /\ ppc = "over" /\ Free
    /\ ppc' = "tell"
    /\ can_cut' = 0 /\ allow_cut' = 0
    /\ UNCHANGED <<pt, in_playing, terminate, replaying, can_replay, endof_prefetch,
                   eop, todo, wpc>>
    /\ PlayOnly

\* Whoever is in hktv_wait returns.
Broadcast == wpc' = "out"

PlayTell ==
    /\ ppc = "tell"
    /\ ppc' = "quit"
    /\ in_playing' = 0
    /\ Broadcast
    /\ UNCHANGED <<pt, can_cut, allow_cut, terminate, replaying, can_replay,
                   endof_prefetch, eop, todo>>
    /\ PlayOnly

\* The callback is taken away, and thread_svc_main clears have_thr.
PlayQuit ==
    /\ \/ /\ ppc = "quit" /\ ppc' = "exit"
          /\ eop' = 0 /\ UNCHANGED have_thr
       \/ /\ ppc = "exit" /\ ppc' = "dead"
          /\ have_thr' = 0 /\ UNCHANGED eop
    /\ UNCHANGED <<pt, need_join, can_cut, allow_cut, in_playing, terminate, replaying,
                   can_replay, endof_prefetch, svc, reset_mp3, mpeg, caller, todo, wpc,
                   lost>>

PlayMain ==
    \/ PlayBegin \/ PlayStarted \/ PlayWaited \/ PlayMp3 \/ PlayLyrics
    \/ PlayLoop \/ PlayWatch \/ PlayStop \/ PlayOver \/ PlayTell \/ PlayQuit
    \/ PlayerCall(P) \/ MpegCall(P)

\* The engine's prefetch thread calls back at the end of the film.
prefetch_ok ==
    /\ eop = 1 /\ endof_prefetch = 0 /\ Running
    /\ endof_prefetch' = 1
    /\ Broadcast
    /\ UNCHANGED <<can_cut, allow_cut, in_playing, terminate, replaying, can_replay,
                   eop, playThread, svc, reset_mp3, mpeg, caller, todo, lost>>

\* hktv_wait: the test and the wait are one step under the mutex, and it
\* returns when it is woken.  Bound: only the last song is waited for.
WaitBegin ==
    /\ wpc = "out" /\ in_playing = 1
    /\ songs = MaxSongs
    /\ wpc' = "asleep"
    /\ UNCHANGED <<flags, playThread, svc, reset_mp3, mpeg, caller, todo, lost>>

Next ==
    \/ Request \/ Command \/ PlayMain \/ MpegStarts \/ MpegEnds
    \/ prefetch_ok \/ WaitBegin
    \/ \E p \in Players : Player(p)

(* Threads run, music and films end (unless a film is repeated), a song that *)
(* was prepared is played; nobody need ask for anything else.                *)
Fairness ==
    /\ WF_vars(Command) /\ WF_vars(hktv_play) /\ WF_vars(PlayMain) /\ WF_vars(MpegMust)
    /\ WF_vars(Player("mp3")) /\ WF_vars(Player("lyr"))

Spec == Init /\ [][Next]_vars /\ Fairness

-----------------------------------------------------------------------------
\* When callers ask for finitely many songs, every prepare, play, replay and cut
\* returns, every song is over in the end, and whoever waits for one has gone on;
\* unless a start slipped between a player's test of thrwait and its wait,
\* or play came before the thread of the song before had cleared have_thr, when
\* no thread plays the song.
SongsEnd ==
    (in_playing = 1 \/ ~Idle) ~> ((in_playing = 0 /\ Idle /\ wpc = "out") \/ lost = 1 \/ early = 1)
=============================================================================

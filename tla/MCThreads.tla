----------------------------- MODULE MCThreads -----------------------------
(***************************************************************************)
(* thread_svc by itself ("svc"), and the set-top box's player, whose play  *)
(* thread is one ("stb"): one of them under test in each behaviour.        *)
(***************************************************************************)
EXTENDS ThreadSvc, Sequences

\* A song with everything after another such, and a film after one with an
\* MP3 vocal.
SongLists == {<<3, 3>>, <<1, 0>>}

VARIABLES
    under,
    pltype, can_cut, allow_cut, in_playing, stb_terminate, replaying, can_replay,
    endof_prefetch, eop, ppc, pt, stb_have_thr, stb_need_join, svc, reset_mp3, mpeg,
    todo, prepared, wpc, songs, replays, lost, early

STB == INSTANCE HolktvStb WITH
    MaxSongs <- 2, MaxReplays <- 1, Programmes <- SongLists,
    terminate <- stb_terminate, have_thr <- stb_have_thr, need_join <- stb_need_join

stbvars ==
    <<pltype, can_cut, allow_cut, in_playing, stb_terminate, replaying, can_replay,
      endof_prefetch, eop, ppc, pt, stb_have_thr, stb_need_join, svc, reset_mp3, mpeg,
      todo, prepared, wpc, songs, replays, lost, early>>
all == <<under, svcVars, stbvars>>

MCInit ==
    /\ under \in {"svc", "stb"}
    /\ SvcInit /\ STB!Init
    /\ under = "stb" => handler = "user"

IsSvc == under = "svc" /\ UNCHANGED <<under, stbvars>>

\* Bound: a behaviour of the set-top box's player ends with the first of the
\* two races that leave a player asleep, or a song without its thread.
IsStb == under = "stb" /\ lost = 0 /\ early = 0 /\ UNCHANGED <<under, svcVars>>

MCNext == (IsSvc /\ SvcNext) \/ (IsStb /\ STB!Next)

\* Each thread of the one under test runs; the two never run together.
MCSpec ==
    /\ MCInit /\ [][MCNext]_all
    /\ WF_all((IsSvc /\ Thread) \/ (IsStb /\ STB!PlayMain))
    /\ WF_all((IsSvc /\ Finish) \/ (IsStb /\ STB!Command))
    /\ WF_all(IsStb /\ STB!hktv_play) /\ WF_all(IsStb /\ STB!MpegMust)
    /\ WF_all(IsStb /\ STB!Player("mp3")) /\ WF_all(IsStb /\ STB!Player("lyr"))

-----------------------------------------------------------------------------
\* Every call of the set-top box's player returns, every song is over in the
\* end and whoever waits for one has gone on, except after a start that a
\* player's thread missed, or a play that found the last song's thread not yet
\* gone.
SongsEnd == STB!SongsEnd
=============================================================================

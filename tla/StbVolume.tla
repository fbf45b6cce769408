----------------------------- MODULE StbVolume -----------------------------
(***************************************************************************)
(* What the set-top box lets one hear (holktv/holktv_stb.c,                *)
(* holktv/stb/holktv_stb_vol.c, mixer/aumixer.c): the film's sound on the  *)
(* mixer's CD input and the MP3's on PCM, with or without the vocal.       *)
(* Three threads write the mixer: the command thread (volumes), the fader  *)
(* (hktv_fader, the change from music to vocal and back) and the player,   *)
(* which sets the volumes of a song as it begins.  They share one device,  *)
(* opened by the first write and closed by the last to be done, and a word *)
(* in_fade that nobody locks.                                              *)
(***************************************************************************)
EXTENDS Integers, Sequences

CONSTANTS Types,        \* the play types (0 .. 4) of the songs
          Volumes,      \* the volumes callers set
          FadeStep,     \* HOLKTV_FADE_STEP
          MaxSongs, MaxCalls    \* bounds; spurious wake-ups count as calls

Sources == {"cdin", "pcm"}
C == "command"
F == "fader"
M == "player"
VThreads == {C, F, M}

VARIABLES setting, mask,            \* volume_setting and volume_mask
          pend,                     \* pcm_volume and mpeg_volume of the next song
          level,                    \* the mixer's levels
          fd, in_close_lock,        \* of aumixer.c; fd = 0: open
          nopen,                    \* descriptors of the mixer that are open
          vtodo, varg,              \* the mixer calls a thread has yet to make
          prefer_vocal, in_fade, close_fader, fpc,
          vtype, vocal,             \* pltype->type; there is a vocal channel
          sel, audio,               \* mp3->select and the film's audio channel
          playing, vprepared,
          songs, calls,
          odd                       \* history: a race the code leaves open

mixerVars == <<level, fd, in_close_lock, nopen, vtodo, varg>>
fadeVars == <<prefer_vocal, in_fade, close_fader, fpc>>
songVars == <<vtype, vocal, sel, audio, playing, vprepared>>
vcounts == <<songs, calls>>
volvars == <<setting, mask, pend, mixerVars, fadeVars, songVars, vcounts, odd>>

PlaysMusic == vtype \in {2, 3}      \* pt->mpeg = 2: a silent film
HaveVocal == vtype \in {1, 3, 4}

VolInit ==
    /\ setting = [s \in Sources |-> CHOOSE v \in Volumes : \A w \in Volumes : w <= v]
    /\ mask = [s \in Sources |-> 1]
    /\ pend = [s \in Sources |-> 0]
    /\ level = setting
    /\ fd = -1 /\ in_close_lock = 0 /\ nopen = 0
    /\ vtodo = [t \in VThreads |-> <<>>]
    /\ varg = [t \in VThreads |-> 0]
    /\ prefer_vocal = 0 /\ in_fade = 0 /\ close_fader = 0 /\ fpc = "begin"
    /\ vtype = 0 /\ vocal = 0 /\ sel = 0 /\ audio = 0
    /\ playing = 0 /\ vprepared = 0
    /\ songs = 0 /\ calls = 0
    /\ odd = 0

----------------------------------------------------------------------------
(* aumixer.c.  A thread's calls: "lock" and "unlock" of close, "close", and *)
(* "set", setvolume, with where the level comes from: "full" is the setting, *)
(* "mask" the setting if the mask lets it, "pend" the song's, "out" and "in" *)
(* a step of a fade.                                                       *)

Locked(ops) == << <<"lock">> >> \o ops \o << <<"unlock">>, <<"close">> >>

Call(t, op) == vtodo[t] # <<>> /\ Head(vtodo[t])[1] = op
Then(t, ops) == vtodo' = [vtodo EXCEPT ![t] = ops \o Tail(@)]
MixerOnly == UNCHANGED <<setting, mask, pend, fadeVars, songVars, vcounts>>

mixer_close_lock(t) ==
    /\ \/ Call(t, "lock") /\ in_close_lock' = in_close_lock + 1
       \/ Call(t, "unlock") /\ in_close_lock' = in_close_lock - 1
    /\ Then(t, <<>>)
    /\ UNCHANGED <<level, fd, nopen, varg, odd>> /\ MixerOnly

\* The count is tested without its mutex.
mixer_close(t) ==
    /\ Call(t, "close")
    /\ Then(t, IF in_close_lock = 0 THEN << <<"shut">> >> ELSE <<>>)
    /\ UNCHANGED <<level, fd, in_close_lock, nopen, varg, odd>> /\ MixerOnly

Shut(t) ==
    /\ Call(t, "shut")
    /\ fd' = -1
    /\ nopen' = IF fd = 0 THEN nopen - 1 ELSE nopen
    /\ Then(t, <<>>)
    /\ UNCHANGED <<level, in_close_lock, varg, odd>> /\ MixerOnly

\* What a call of setvolume writes; a step of a fade that has nothing to write
\* writes -1.
Level(s, from, i) ==
    CASE from = "full" -> setting[s]
      [] from = "mask" -> IF mask[s] = 0 THEN 0 ELSE setting[s]
      [] from = "pend" -> pend[s]
      [] from = "zero" -> 0
      [] from = "out" -> IF setting[s] > 2^i THEN setting[s] - 2^i ELSE 0
      [] from = "in" -> IF setting[s] > 2^i THEN setting[s] - 2^i ELSE -1

\* The loops of fade_out, which ends when there is nothing left to take away,
\* and of fade_in.
Turns(s, from, i) ==
    CASE from = "out" /\ setting[s] > 2^i ->
            << <<"set", s, IF i + 1 < FadeStep THEN "out" ELSE "zero", i + 1>> >>
      [] from = "in" -> << <<"set", s, IF i > 1 THEN "in" ELSE "full", i - 1>> >>
      [] OTHER -> <<>>

fade_out(s) == << <<"set", s, "out", 0>> >>
fade_in(s) == << <<"set", s, "in", FadeStep>> >>

\* setvolume evaluates the level and tests fd, opens the device if need be
\* (InitializeMixer), and writes.
setvolume(t) ==
    /\ Call(t, "set")
    /\ LET op == Head(vtodo[t])
           v == Level(op[2], op[3], op[4]) IN
       /\ Then(t, (IF v = -1 THEN <<>>
                   ELSE (IF fd = -1 THEN << <<"device">> >> ELSE <<>>) \o << <<"write", op[2]>> >>)
                  \o Turns(op[2], op[3], op[4]))
       /\ varg' = [varg EXCEPT ![t] = v]
    /\ UNCHANGED <<level, fd, in_close_lock, nopen, odd>> /\ MixerOnly

InitializeMixer(t) ==
    /\ Call(t, "device")
    /\ fd' = 0 /\ nopen' = nopen + 1
    /\ Then(t, <<>>)
    /\ UNCHANGED <<level, in_close_lock, varg, odd>> /\ MixerOnly

\* A device that was closed meanwhile is not written.
WriteLevel(t) ==
    /\ Call(t, "write")
    /\ level' = IF fd = 0 THEN [level EXCEPT ![Head(vtodo[t])[2]] = varg[t]] ELSE level
    /\ odd' = IF fd = 0 THEN odd ELSE 1
    /\ Then(t, <<>>)
    /\ UNCHANGED <<fd, in_close_lock, nopen, varg>> /\ MixerOnly

Mixer(t) ==
    \/ mixer_close_lock(t) \/ mixer_close(t) \/ Shut(t)
    \/ setvolume(t) \/ InitializeMixer(t) \/ WriteLevel(t)

----------------------------------------------------------------------------
(* hktv_fader.                                                             *)

FaderOnly == UNCHANGED <<setting, mask, pend, level, fd, in_close_lock, nopen, varg,
                         prefer_vocal, close_fader, vtype, vocal, playing,
                         vprepared, songs>>

\* The test of close_fader, and the wait, which tests nothing.
FaderWaits ==
    /\ \/ /\ fpc = "begin"
          /\ fpc' = IF close_fader = 1 THEN "dead" ELSE "tested"
       \/ fpc = "tested" /\ fpc' = "asleep"
    /\ UNCHANGED <<vtodo, in_fade, sel, audio, calls, odd>> /\ FaderOnly

SpuriousWake ==
    /\ fpc = "asleep" /\ fpc' = "woken"
    /\ calls < MaxCalls /\ calls' = calls + 1
    /\ UNCHANGED <<vtodo, in_fade, sel, audio, odd>> /\ FaderOnly

Fades ==
    CASE in_fade = 1 -> Locked(fade_out("pcm") \o fade_in("cdin"))
      [] in_fade = 2 -> Locked(fade_out("cdin") \o fade_in("pcm"))
      [] in_fade \in {3, 4} -> Locked(fade_out("pcm") \o fade_in("pcm"))
      [] in_fade \in {5, 6} -> Locked(fade_out("cdin") \o << <<"audio">> >> \o fade_in("cdin"))
      [] OTHER -> <<>>

\* A fade that meets the beginning of a song, or is asked for before one and
\* done in it, is a race of its own.
FaderReads ==
    /\ fpc = "woken" /\ fpc' = "busy"
    /\ vtodo' = [vtodo EXCEPT ![F] = Fades]
    /\ sel' = IF in_fade \in {3, 4} THEN in_fade - 3 ELSE sel
    /\ odd' = IF in_fade # 0 /\ vtodo[M] # <<>> THEN 1 ELSE odd
    /\ UNCHANGED <<in_fade, audio, calls>> /\ FaderOnly

\* in_fade is read again: by now it may be another request, or none, when the
\* index is before the array.
FaderAudio ==
    /\ Call(F, "audio")
    /\ audio' = IF in_fade \in {5, 6} THEN in_fade - 5 ELSE audio
    /\ Then(F, <<>>)
    /\ UNCHANGED <<fpc, in_fade, sel, calls, odd>> /\ FaderOnly

FaderDone ==
    /\ fpc = "busy" /\ vtodo[F] = <<>>
    /\ fpc' = "begin"
    /\ in_fade' = 0
    /\ UNCHANGED <<vtodo, sel, audio, calls, odd>> /\ FaderOnly

Fader == Mixer(F) \/ FaderWaits \/ FaderReads \/ FaderAudio \/ FaderDone

----------------------------------------------------------------------------
(* The command thread.                                                     *)

VIdle == vtodo[C] = <<>> /\ close_fader = 0
VAsk == VIdle /\ calls < MaxCalls /\ calls' = calls + 1

\* Mutant: a source that the song does not use is not silenced.
PrepareUnmasked(t, v) ==
    /\ VIdle
    /\ playing = 0 /\ vprepared = 0
    /\ songs < MaxSongs /\ songs' = songs + 1
    /\ vprepared' = 1
    /\ vtype' = t
    /\ vocal' = IF t \in {1, 3} THEN 1 ELSE IF t = 4 THEN v ELSE 0
    /\ LET pcm == PlaysMusic' \/ (t = 1 /\ prefer_vocal = 1) IN
       /\ mask' = [cdin |-> IF pcm THEN 0 ELSE 1, pcm |-> IF pcm THEN 1 ELSE 0]
       /\ pend' = setting
    /\ sel' = CASE t = 3 -> prefer_vocal [] t = 2 -> 0 [] t = 1 -> 1 [] OTHER -> sel
    /\ audio' = 0
    /\ odd' = IF (prefer_vocal = 1 /\ t \in {1, 3}) \/ fpc \in {"woken", "busy"} THEN 1 ELSE odd
    /\ UNCHANGED <<setting, mixerVars, fadeVars, playing, calls>>

\* hktv_prepare, of the volumes and channels: what the player will set when it
\* begins, and the MP3 that is selected.  A song of type 4 may have no vocal.
hktv_prepare(t, v) ==
    /\ VIdle
    /\ playing = 0 /\ vprepared = 0
    /\ songs < MaxSongs /\ songs' = songs + 1
    /\ vprepared' = 1
    /\ vtype' = t
    /\ vocal' = IF t \in {1, 3} THEN 1 ELSE IF t = 4 THEN v ELSE 0
    /\ LET pcm == PlaysMusic' \/ (t = 1 /\ prefer_vocal = 1) IN
       /\ mask' = [cdin |-> IF pcm THEN 0 ELSE 1, pcm |-> IF pcm THEN 1 ELSE 0]
       /\ pend' = [s \in Sources |-> IF mask'[s] = 1 THEN setting[s] ELSE 0]
    /\ sel' = CASE t = 3 -> prefer_vocal [] t = 2 -> 0 [] t = 1 -> 1 [] OTHER -> sel
    /\ audio' = 0
    /\ odd' = IF (prefer_vocal = 1 /\ t \in {1, 3}) \/ fpc \in {"woken", "busy"} THEN 1 ELSE odd
    /\ UNCHANGED <<setting, mixerVars, fadeVars, playing, calls>>

\* hktv_play forgets the preference that hktv_prepare has followed.
hktv_play ==
    /\ VIdle
    /\ vprepared = 1
    /\ vprepared' = 0 /\ playing' = 1
    /\ prefer_vocal' = 0
    /\ vtodo' = [vtodo EXCEPT ![M] = @ \o Locked(<< <<"set", "pcm", "pend", 0>>,
                                                    <<"set", "cdin", "pend", 0>> >>)]
    /\ odd' = IF fpc \in {"woken", "busy"} THEN 1 ELSE odd
    /\ UNCHANGED <<setting, mask, pend, level, fd, in_close_lock, nopen, varg,
                   in_fade, close_fader, fpc, vtype, vocal, sel, audio, vcounts>>

SongOver ==
    /\ playing = 1 /\ vtodo[M] = <<>>
    /\ playing' = 0
    /\ UNCHANGED <<setting, mask, pend, mixerVars, fadeVars, vtype, vocal, sel, audio,
                   vprepared, vcounts, odd>>

\* The public film after a song: set_original_mpeg_volume.
FilmBegins ==
    /\ playing = 0 /\ vtodo[M] = <<>> /\ calls < MaxCalls /\ calls' = calls + 1
    /\ vtodo' = [vtodo EXCEPT ![M] = Locked(<< <<"set", "pcm", "zero", 0>>,
                                              <<"set", "cdin", "full", 0>> >>)]
    /\ UNCHANGED <<setting, mask, pend, level, fd, in_close_lock, nopen, varg,
                   fadeVars, songVars, songs, odd>>

\* in_fade is stored before the mutex of the signal is taken.
hktv_prefer_vocal(v) ==
    /\ VAsk
    /\ prefer_vocal # v
    /\ prefer_vocal' = v
    /\ IF playing = 1 /\ HaveVocal /\ vocal = 1
       THEN /\ in_fade' = (CASE vtype = 4 -> 5 [] vtype = 1 -> 1 [] OTHER -> 3) + v
            /\ mask' = IF vtype = 1 THEN [cdin |-> 1 - v, pcm |-> v] ELSE mask
            /\ vtodo' = [vtodo EXCEPT ![C] = << <<"signal", in_fade'>> >>]
       ELSE UNCHANGED <<in_fade, mask, vtodo>>
    /\ UNCHANGED <<setting, pend, level, fd, in_close_lock, nopen, varg,
                   close_fader, fpc, songVars, songs, odd>>

\* The signal reaches a fader that waits; one that has been woken reads the
\* newest request; one that is busy, or about to wait, misses it, or has
\* cleared it.  dispose only needs the fader's next test of close_fader.
Signal ==
    /\ Call(C, "signal")
    /\ fpc' = IF fpc = "asleep" THEN "woken" ELSE fpc
    /\ odd' = IF IF close_fader = 1 THEN fpc # "tested"
                 ELSE fpc \in {"asleep", "woken"} /\ in_fade = Head(vtodo[C])[2]
              THEN odd ELSE 1
    /\ Then(C, <<>>)
    /\ UNCHANGED <<setting, mask, pend, level, fd, in_close_lock, nopen, varg,
                   prefer_vocal, in_fade, close_fader, songVars, vcounts>>

set_system_volume == Locked(<< <<"set", "cdin", "mask", 0>>, <<"set", "pcm", "mask", 0>> >>)

\* A song that was prepared with the old volumes sets these when it begins, and
\* a fade may have evaluated one of them.
Stale ==
    \/ vprepared = 1 \/ vtodo[M] # <<>>
    \/ Call(F, "device") \/ Call(F, "write")

\* hktv_set_volume_level of one source, and hktv_load_volume.
VolumesSet(new) ==
    /\ setting' = new
    /\ vtodo' = [vtodo EXCEPT ![C] = set_system_volume]
    /\ odd' = IF Stale THEN 1 ELSE odd
    /\ UNCHANGED <<mask, pend, level, fd, in_close_lock, nopen, varg,
                   fadeVars, songVars, songs>>

hktv_set_volume_level(s, v) == VAsk /\ setting[s] # v /\ VolumesSet([setting EXCEPT ![s] = v])

\* The file holds some earlier volumes (hktv_save_volume only writes it).
hktv_load_volume(v) == VAsk /\ VolumesSet([s \in Sources |-> v])

\* hktv_volume_switch: whoever calls it decides what is heard.
hktv_volume_switch(on, s) ==
    /\ VAsk
    /\ vtodo' = [vtodo EXCEPT ![C] = Locked(<< <<"set", s, IF on = 1 THEN "full" ELSE "zero", 0>> >>)]
    /\ odd' = 1
    /\ UNCHANGED <<setting, mask, pend, level, fd, in_close_lock, nopen, varg,
                   fadeVars, songVars, songs>>

\* hktv_dispose as far as the fader: no more requests, one signal, and join.
hktv_dispose ==
    /\ VAsk /\ playing = 0 /\ vtodo[M] = <<>>
    /\ in_fade' = 0 /\ close_fader' = 1
    /\ vtodo' = [vtodo EXCEPT ![C] = << <<"signal", 0>>, <<"join">>, <<"close">> >>]
    /\ UNCHANGED <<setting, mask, pend, level, fd, in_close_lock, nopen, varg,
                   prefer_vocal, fpc, songVars, songs, odd>>

Join ==
    /\ Call(C, "join") /\ fpc = "dead"
    /\ Then(C, <<>>)
    /\ UNCHANGED <<setting, mask, pend, level, fd, in_close_lock, nopen, varg,
                   fadeVars, songVars, vcounts, odd>>

VCommand == Mixer(C) \/ Signal \/ Join
VRequest ==
    \/ \E t \in Types, v \in {0, 1} : hktv_prepare(t, v)
    \/ hktv_play \/ SongOver \/ FilmBegins
    \/ \E v \in {0, 1} : hktv_prefer_vocal(v)
    \/ \E s \in Sources : \E v \in Volumes : hktv_set_volume_level(s, v)
    \/ \E s \in Sources : \E on \in {0, 1} : hktv_volume_switch(on, s)
    \/ \E v \in Volumes : hktv_load_volume(v)
    \/ hktv_dispose

\* Bound: after a race, or a volume_switch, nothing more is asked for.
VolNext ==
    \/ odd = 0 /\ VRequest
    \/ VCommand \/ Fader \/ SpuriousWake \/ Mixer(M)

VolSpec == VolInit /\ [][VolNext]_volvars

----------------------------------------------------------------------------
VQuiet == \A t \in VThreads : vtodo[t] = <<>>
Resting == fpc \in {"begin", "tested", "asleep"}

Heard(vocalWanted) ==
    LET pcm == PlaysMusic \/ (vtype = 1 /\ vocalWanted = 1) IN
    /\ level = [cdin |-> IF pcm THEN 0 ELSE setting.cdin, pcm |-> IF pcm THEN setting.pcm ELSE 0]
    /\ vtype = 3 => sel = vocalWanted
    /\ vtype = 4 => audio = (IF vocal = 1 THEN vocalWanted ELSE 0)

\* While a song plays and no thread is at the mixer, what is heard is what
\* prefer_vocal and the volumes ask for, however fades and changes of volume
\* came together; unless a request came during a fade or before the song's
\* volumes were set, a song was prepared with a preference that play forgot or
\* with volumes that have changed, or the mixer was closed under a write.
VocalFollows == (VQuiet /\ Resting /\ playing = 1 /\ odd = 0) => Heard(prefer_vocal)

=============================================================================

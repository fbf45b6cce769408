---------------------------- MODULE PublicPlayer ----------------------------
(***************************************************************************)
(* The public film (stream_mpeg/play_public.c): a thread U that plays an   *)
(* endless film on the decoder while no song is playing, and has to yield  *)
(* the decoder to the song player M (playMPEG_main in stream_mpeg.c).  The *)
(* word public_state says where U is; U, M and the control thread C write  *)
(* it, most of the time without the mutex.                                 *)
(***************************************************************************)
EXTENDS Naturals

CONSTANTS MaxAsks       \* bound: calls of the control thread

VARIABLES public_state, have_public, enable_public, public_stop_playing,
          film,         \* the film's engine: 1 open, 0 aborted or closed
          upc,          \* U: "off" until the thread is started
          mpc,          \* M
          cpc, asks,    \* C: its place in a call, the calls so far
          slipped,      \* history: a wait that the code does not end
          overrun       \* history: an open has set IDLE over a film's state

pubVars == <<public_state, have_public, enable_public, public_stop_playing,
             film, upc, mpc, cpc, asks, slipped, overrun>>

PInit ==
    /\ public_state = "NULL"
    /\ have_public = 0 /\ enable_public = 0 /\ public_stop_playing = 0
    /\ film = 0
    /\ upc = "off"
    /\ mpc = "off"
    /\ cpc = "idle"
    /\ asks = 0
    /\ slipped = 0 /\ overrun = 0

----------------------------------------------------------------------------
(* U: playMPEG_public.                                                     *)

\* Both M and the opener of a film wait on pub_condi; one of them is woken.
Waiters == {w \in {"M", "C"} : (w = "M" /\ mpc = "wait")
                                \/ (w = "C" /\ cpc = "wait")}
Wake(w) ==
    /\ mpc' = IF w = "M" THEN "check" ELSE mpc
    /\ cpc' = IF w = "C" THEN "check" ELSE cpc

Asked == "check" \in {mpc, cpc} \/ Waiters # {}

\* A film that starts clears a request to stop that came before, and one that
\* may not start goes to IDLE without a signal.
UTurnStart ==
    IF have_public = 1 /\ enable_public = 1
    THEN /\ public_stop_playing' = 0
         /\ upc' = "start"
         /\ slipped' = IF Asked THEN 1 ELSE slipped
         /\ UNCHANGED public_state
    ELSE /\ public_state' = "IDLE"
         /\ slipped' = IF Waiters # {} THEN 1 ELSE slipped
         /\ UNCHANGED <<public_stop_playing, upc>>

UTurn ==
    /\ upc = "loop"
    /\ \/ public_state = "START" /\ UTurnStart
       \/ /\ public_state = "STOP"
          /\ upc' = "stop"
          /\ UNCHANGED <<public_state, public_stop_playing, slipped>>
       \/ /\ public_state = "PLAY"
          /\ upc' = "read"
          /\ UNCHANGED <<public_state, public_stop_playing, slipped>>
    /\ UNCHANGED <<have_public, enable_public, film, mpc, cpc, asks, overrun>>

\* The decoder is opened and plays.
UStart ==
    /\ upc = "start"
    /\ public_state' = "PLAY"
    /\ upc' = "loop"
    /\ UNCHANGED <<have_public, enable_public, public_stop_playing, film, mpc,
                   cpc, asks, slipped, overrun>>

\* Mutant: a film that stops does not wake who waits for that.
UStopSilent ==
    /\ upc = "stop"
    /\ public_state' = "IDLE"
    /\ upc' = "loop"
    /\ UNCHANGED <<have_public, enable_public, public_stop_playing, film, asks,
                   mpc, cpc, slipped, overrun>>

\* The decoder is stopped and closed; under the mutex the state is IDLE.
UStop ==
    /\ upc = "stop"
    /\ public_state' = "IDLE"
    /\ IF Waiters = {} THEN UNCHANGED <<mpc, cpc>>
       ELSE \E w \in Waiters : Wake(w)
    /\ slipped' = IF Waiters = {"M", "C"} THEN 1 ELSE slipped
    /\ upc' = "loop"
    /\ UNCHANGED <<have_public, enable_public, public_stop_playing, film, asks, overrun>>

\* The film repeats for ever; only a read of a closed engine fails.
URead ==
    /\ upc = "read"
    /\ public_state' = IF film = 0 THEN "STOP" ELSE public_state
    /\ upc' = IF film = 0 THEN "test" ELSE "push"
    /\ UNCHANGED <<have_public, enable_public, public_stop_playing, film, mpc,
                   cpc, asks, slipped, overrun>>

UPush ==
    /\ upc = "push"
    /\ upc' = "test"
    /\ UNCHANGED <<public_state, have_public, enable_public,
                   public_stop_playing, film, mpc, cpc, asks, slipped, overrun>>

UTest ==
    /\ upc = "test"
    /\ IF public_stop_playing = 1 \/ enable_public = 0
       THEN public_state' = "STOP" /\ public_stop_playing' = 0
       ELSE UNCHANGED <<public_state, public_stop_playing>>
    /\ upc' = "loop"
    /\ UNCHANGED <<have_public, enable_public, film, mpc, cpc, asks, slipped, overrun>>

Film == UTurn \/ UStart \/ UStop \/ URead \/ UPush \/ UTest

----------------------------------------------------------------------------
(* M: starting_play_mpeg, and the end of playMPEG_main.                    *)

Yielded == public_state \in {"IDLE", "NULL"}

MStart ==
    /\ mpc = "start"
    /\ public_stop_playing' = 1
    /\ mpc' = "check"
    /\ UNCHANGED <<public_state, have_public, enable_public, film, upc, cpc,
                   asks, slipped, overrun>>

MCheck ==
    /\ mpc = "check"
    /\ mpc' = IF Yielded THEN "play" ELSE "wait"
    /\ slipped' = IF ~Yielded /\ upc = "off" THEN 1 ELSE slipped
    /\ UNCHANGED <<public_state, have_public, enable_public,
                   public_stop_playing, film, upc, cpc, asks, overrun>>

\* The song ends, or C stops it.
MPlay ==
    /\ mpc = "play"
    /\ mpc' = "end"
    /\ UNCHANGED <<public_state, have_public, enable_public,
                   public_stop_playing, film, upc, cpc, asks, slipped, overrun>>

MEnd ==
    /\ mpc = "end"
    /\ mpc' = IF public_state = "IDLE" THEN "restart" ELSE "off"
    /\ UNCHANGED <<public_state, have_public, enable_public,
                   public_stop_playing, film, upc, cpc, asks, slipped, overrun>>

MRestart ==
    /\ mpc = "restart"
    /\ public_state' = "START"
    /\ mpc' = "off"
    /\ UNCHANGED <<have_public, enable_public, public_stop_playing, film, upc,
                   cpc, asks, slipped, overrun>>

Song == MStart \/ MCheck \/ MPlay \/ MEnd \/ MRestart

----------------------------------------------------------------------------
(* C: the control thread.                                                  *)

Ask(place) ==
    /\ cpc = "idle"
    /\ asks < MaxAsks
    /\ asks' = asks + 1
    /\ cpc' = place

stm_start ==
    /\ Ask("idle")
    /\ mpc = "off"
    /\ mpc' = "start"
    /\ UNCHANGED <<public_state, have_public, enable_public,
                   public_stop_playing, film, upc, slipped, overrun>>

stm_set_public(onoff) ==
    /\ Ask(IF onoff = 1 /\ have_public = 1 THEN "playing?" ELSE "idle")
    /\ enable_public' = IF onoff = 1 THEN have_public ELSE 0
    /\ upc' = IF onoff = 1 /\ have_public = 1 /\ upc = "off" THEN "loop" ELSE upc
    /\ UNCHANGED <<public_state, have_public, public_stop_playing, film, mpc,
                   slipped, overrun>>

\* Unless a song is playing, the film may start.
SetPublicTest ==
    /\ cpc = "playing?"
    /\ cpc' = IF mpc = "off" THEN "to_start" ELSE "idle"
    /\ UNCHANGED <<public_state, have_public, enable_public,
                   public_stop_playing, film, upc, mpc, asks, slipped, overrun>>

SetPublicStart ==
    /\ cpc = "to_start"
    /\ public_state' = "START"
    /\ cpc' = "idle"
    /\ UNCHANGED <<have_public, enable_public, public_stop_playing, film, upc,
                   mpc, asks, slipped, overrun>>

stm_open_public ==
    /\ Ask(IF have_public = 1 THEN "check" ELSE "open")
    /\ film' = 0
    /\ public_stop_playing' = IF have_public = 1 THEN 1 ELSE public_stop_playing
    /\ UNCHANGED <<public_state, have_public, enable_public, upc, mpc, slipped, overrun>>

\* The old film is closed once U has yielded.
OpenPublicCheck ==
    /\ cpc = "check"
    /\ cpc' = IF Yielded THEN "open" ELSE "wait"
    /\ have_public' = IF Yielded THEN 0 ELSE have_public
    /\ slipped' = IF ~Yielded /\ upc = "off" THEN 1 ELSE slipped
    /\ UNCHANGED <<public_state, enable_public,
                   public_stop_playing, film, upc, mpc, asks, overrun>>

\* A film that cannot be opened leaves no film.
OpenPublicFile ==
    /\ cpc = "open"
    /\ \/ film' = 1 /\ have_public' = 1 /\ cpc' = "set"
       \/ cpc' = "idle" /\ UNCHANGED <<film, have_public>>
    /\ UNCHANGED <<public_state, enable_public, public_stop_playing, upc, mpc,
                   asks, slipped, overrun>>

OpenPublicSet ==
    /\ cpc = "set"
    /\ public_state' = "IDLE"
    /\ overrun' = IF Yielded THEN overrun ELSE 1
    /\ cpc' = "idle"
    /\ UNCHANGED <<have_public, enable_public, public_stop_playing, film, upc,
                   mpc, asks, slipped>>

Control ==
    \/ SetPublicTest \/ SetPublicStart
    \/ OpenPublicCheck \/ OpenPublicFile \/ OpenPublicSet

Asks ==
    \/ stm_start
    \/ \E onoff \in {0, 1} : stm_set_public(onoff)
    \/ stm_open_public

PNext == Film \/ Song \/ Control \/ Asks

PFair == WF_pubVars(Film) /\ WF_pubVars(Song) /\ WF_pubVars(Control)

PSpec == PInit /\ [][PNext]_pubVars /\ PFair

----------------------------------------------------------------------------
\* Whoever waits for the film to yield, the song player or the opener of
\* another film, is served, unless the film's thread was never started, the
\* film starts or gives up starting after it was asked to stop, both wait for
\* the one signal, or an open has set IDLE over the film's state.
FilmYields ==
    /\ mpc = "wait" ~> (mpc # "wait" \/ slipped = 1 \/ overrun = 1)
    /\ cpc = "wait" ~> (cpc # "wait" \/ slipped = 1 \/ overrun = 1)
=============================================================================

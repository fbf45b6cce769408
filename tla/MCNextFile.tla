----------------------------- MODULE MCNextFile -----------------------------
(***************************************************************************)
(* Two further parts of the player and its engine, one of them under test  *)
(* in each behaviour: reading the next file ahead ("next"; a file of three *)
(* blocks, the last not full, and one of a single block) and the public    *)
(* film ("public").                                                        *)
(***************************************************************************)
EXTENDS NextFile

CONSTANTS FilmAsks      \* bound: calls of the film's control thread

MCSize == [song |-> 5, jingle |-> 2]

VARIABLES
    under,
    public_state, have_public, enable_public, public_stop_playing, film, upc,
    mpc, cpc, film_asks, slipped, overrun

PP == INSTANCE PublicPlayer WITH MaxAsks <- FilmAsks, asks <- film_asks

filmVars == <<public_state, have_public, enable_public, public_stop_playing, film,
              upc, mpc, cpc, film_asks, slipped, overrun>>
all == <<under, nextVars, filmVars>>

MCInit ==
    /\ under \in {"next", "public"}
    /\ NInit /\ PP!PInit
    /\ under # "next" => enable_kbuf = 0

IsNext == under = "next" /\ UNCHANGED <<under, filmVars>>
IsPublic == under = "public" /\ UNCHANGED <<under, nextVars>>

MCNext == (IsNext /\ NNext) \/ (IsPublic /\ PP!PNext)

\* Each thread of the part under test runs; the two never run together.
MCSpec ==
    /\ MCInit /\ [][MCNext]_all
    /\ WF_all((IsNext /\ Caller) \/ (IsPublic /\ PP!Control))
    /\ WF_all((IsNext /\ Queue) \/ (IsPublic /\ PP!Song))
    /\ WF_all((IsNext /\ PrefetchMain) \/ (IsPublic /\ PP!Film))

-----------------------------------------------------------------------------
\* Whoever waits for the film to yield the decoder gets it, but for the four
\* windows in which playMPEG_public gives no signal.
FilmYields == PP!FilmYields
=============================================================================

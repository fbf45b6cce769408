----------------------------- MODULE ThreadSvc -----------------------------
(***************************************************************************)
(* thread_svc/thread_svc.c: a restartable service thread and its one owner.*)
(* The flags are plain memory: the owner reads and writes them without the *)
(* mutex, so every test and every store is a step of its own.  pthread_kill*)
(* (thrsvc_kill) only delivers a signal and changes none of this state.    *)
(***************************************************************************)
EXTENDS Naturals

VARIABLES
    have_thr, need_join, terminate, in_wait,
    handler,   \* what pd->handler points to: the user's function or dummy_null_loop
    thr,       \* where the thread is in thread_svc_main; none once it is joined
    loop,      \* the handler the thread read when it began
    owner,     \* where the owner is in start or stop
    disposing, \* 1 if stop was called by dispose
    freed      \* 1 once dispose has freed the structure

flags == <<have_thr, need_join, terminate, in_wait>>
thread == <<thr, loop>>
call == <<owner, disposing>>
svcVars == <<flags, handler, thread, call, freed>>

SvcInit ==
    /\ have_thr = 0 /\ need_join = 0 /\ terminate = 0 /\ in_wait = 0
    /\ handler \in {"user", "dummy"}
    /\ thr = "none" /\ loop = "dummy"
    /\ owner = "idle" /\ disposing = 0 /\ freed = 0

\* pthread_cond_signal reaches the thread only if it already sleeps.
Wake(t) == IF t = "asleep" THEN "began" ELSE t

-----------------------------------------------------------------------------
(* thread_svc_main *)

\* have_thr = need_join = 1: two stores, need_join first.
ThrBegin ==
    /\ \/ /\ thr = "created" /\ thr' = "begin"
          /\ loop' = handler
          /\ need_join' = 1 /\ UNCHANGED have_thr
       \/ /\ thr = "begin" /\ thr' = "began"
          /\ have_thr' = 1 /\ UNCHANGED <<need_join, loop>>
    /\ UNCHANGED <<terminate, in_wait, handler, call, freed>>

ThrGoto(from, to) ==
    /\ thr = from /\ thr' = to
    /\ UNCHANGED <<flags, handler, loop, call, freed>>

ThrTestWait == ThrGoto("began", IF in_wait = 1 THEN "tested" ELSE "loop")

\* cond_wait; conti does not take the mutex, so its signal may come between.
ThrSleep == ThrGoto("tested", "asleep")

SpuriousWakeup == ThrGoto("asleep", "began")

ThrLoop == ThrGoto("loop", IF terminate = 1 THEN "leaving" ELSE "handler")

\* The loop goes on while the handler returns 0; dummy_null_loop returns 1.
HandlerReturns ==
    \/ ThrGoto("handler", "leaving")
    \/ loop = "user" /\ ThrGoto("handler", "loop")

ThrLeave ==
    /\ thr = "leaving"
    /\ have_thr' = 0 /\ thr' = "exiting"
    /\ UNCHANGED <<need_join, terminate, in_wait, handler, loop, call, freed>>

ThrExit == ThrGoto("exiting", "dead")

-----------------------------------------------------------------------------
(* The owner. *)

Calls == owner = "idle" /\ freed = 0

\* Mutant: start does not join the thread that ended.
StartUnjoined ==
    /\ Calls
    /\ have_thr = 0
    /\ need_join' = 0
    /\ owner' = "create"
    /\ UNCHANGED <<have_thr, terminate, in_wait, handler, thread, disposing, freed>>

thrsvc_start ==
    /\ Calls
    /\ have_thr = 0
    /\ need_join' = 0
    /\ owner' = IF need_join = 1 THEN "start_join" ELSE "create"
    /\ UNCHANGED <<have_thr, terminate, in_wait, handler, thread, disposing, freed>>

StartJoin ==
    /\ owner = "start_join" /\ thr = "dead"
    /\ thr' = "none" /\ owner' = "create"
    /\ UNCHANGED <<flags, handler, loop, disposing, freed>>

\* pthread_create may fail.
StartCreate ==
    /\ owner = "create"
    /\ terminate' = 0 /\ owner' = "idle"
    /\ \/ have_thr' = 1 /\ thr' = "created"
       \/ have_thr' = 0 /\ UNCHANGED thr
    /\ UNCHANGED <<need_join, in_wait, handler, loop, disposing, freed>>

thrsvc_stop ==
    /\ Calls
    /\ IF have_thr = 1
       THEN terminate' = 1 /\ owner' = "conti"
       ELSE owner' = "test" /\ UNCHANGED terminate
    /\ disposing' = 0
    /\ UNCHANGED <<have_thr, need_join, in_wait, handler, thread, freed>>

\* dispose stops and then frees.  The owner disposes of a service it has seen
\* running, not of one whose thread has not executed its first statement.
thrsvc_dispose ==
    /\ Calls
    /\ thr # "created"
    /\ IF have_thr = 1
       THEN terminate' = 1 /\ owner' = "conti"
       ELSE owner' = "test" /\ UNCHANGED terminate
    /\ disposing' = 1
    /\ UNCHANGED <<have_thr, need_join, in_wait, handler, thread, freed>>

\* conti, called by stop: the store, then the test of have_thr and the signal.
StopConti ==
    /\ owner = "conti"
    /\ in_wait' = 0 /\ owner' = "signal"
    /\ UNCHANGED <<have_thr, need_join, terminate, handler, thread, disposing, freed>>

StopSignal ==
    /\ owner = "signal"
    /\ thr' = IF have_thr = 1 THEN Wake(thr) ELSE thr
    /\ owner' = "test"
    /\ UNCHANGED <<flags, handler, loop, disposing, freed>>

StopTestJoin ==
    /\ owner = "test"
    /\ need_join' = 0
    /\ IF need_join = 1
       THEN owner' = "stop_join" /\ UNCHANGED freed
       ELSE owner' = "idle" /\ freed' = disposing
    /\ UNCHANGED <<have_thr, terminate, in_wait, handler, thread, disposing>>

StopJoin ==
    /\ owner = "stop_join" /\ thr = "dead"
    /\ thr' = "none" /\ owner' = "idle" /\ freed' = disposing
    /\ UNCHANGED <<flags, handler, loop, disposing>>

thrsvc_pause ==
    /\ Calls
    /\ in_wait' = 1
    /\ UNCHANGED <<have_thr, need_join, terminate, handler, thread, call, freed>>

thrsvc_conti ==
    /\ Calls
    /\ in_wait' = 0
    /\ thr' = IF have_thr = 1 THEN Wake(thr) ELSE thr
    /\ UNCHANGED <<have_thr, need_join, terminate, handler, loop, call, freed>>

thrsvc_set_handler ==
    /\ Calls
    /\ handler' \in {"user", "dummy"}
    /\ UNCHANGED <<flags, thread, call, freed>>

-----------------------------------------------------------------------------
Thread ==
    ThrBegin \/ ThrTestWait \/ ThrSleep \/ ThrLoop \/ HandlerReturns \/ ThrLeave \/ ThrExit

Finish ==
    StartJoin \/ StartCreate \/ StopConti \/ StopSignal \/ StopTestJoin \/ StopJoin

SvcNext ==
    \/ Thread \/ SpuriousWakeup
    \/ thrsvc_start \/ thrsvc_stop \/ thrsvc_dispose \/ Finish
    \/ thrsvc_pause \/ thrsvc_conti \/ thrsvc_set_handler

(* A scheduled thread runs on, every handler of the library returns after   *)
(* one unit of work, and the owner finishes a call it has begun.            *)
SvcFairness == WF_svcVars(Thread) /\ WF_svcVars(Finish)

SvcSpec == SvcInit /\ [][SvcNext]_svcVars /\ SvcFairness

-----------------------------------------------------------------------------
\* Every variable keeps its type.
SvcTypes ==
    /\ {have_thr, need_join, terminate, in_wait} \subseteq {0, 1}
    /\ handler \in {"user", "dummy"} /\ loop \in {"user", "dummy"}
    /\ thr \in {"none", "created", "begin", "began", "tested", "asleep", "loop",
                "handler", "leaving", "exiting", "dead"}
    /\ owner \in {"idle", "start_join", "create", "conti", "signal", "test", "stop_join"}
    /\ {disposing, freed} \subseteq {0, 1}

\* start creates a thread only after the one before has ended and was joined:
\* two service threads never run on the same structure and no thread id is
\* overwritten before it is joined.
OneThread == owner = "create" => thr = "none"

\* pthread_join is called on a thread that exists and was not joined before.
JoinsOnce == owner \in {"start_join", "stop_join"} => thr # "none"

\* After dispose no thread is left that could touch the freed structure.
FreedIsQuiet == freed = 1 => thr = "none"

=============================================================================

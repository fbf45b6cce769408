-------------------------- MODULE StreamMpegProofs --------------------------
EXTENDS StreamMpeg, TLAPS

(***************************************************************************)
(* Who may close, open and read the player's engine when.  Two threads     *)
(* call it, in the orders that stream_mpeg.c writes down, and the engine   *)
(* has a thread of its own; from these rules it follows that an engine     *)
(* that is opened or reset for a player nobody has asked to stop has no    *)
(* prefetch thread left from before, is not cut off, and is closed by      *)
(* nobody but the player.                                                  *)
(***************************************************************************)
\* What the two threads may still have to call, and the next call.
ControlCalls ==
    {<<>>, <<"start">>, <<"wait">>,
     <<"abort", "join", "close">>, <<"join", "close">>, <<"close">>,
     <<"abort", "join", "close", "open">>, <<"join", "close", "open">>,
     <<"close", "open">>, <<"open">>}
PlayerCalls == {<<>>, <<"abort", "close">>, <<"close">>, <<"reset">>, <<"reopen">>}
Calling ==
    /\ todo \in [Threads -> ControlCalls \cup PlayerCalls]
    /\ todo[C] \in ControlCalls /\ todo[M] \in PlayerCalls

First(s) == IF s = <<>> THEN "none" ELSE Head(s)
Call(t) == First(todo[t])

\* Where the two threads are when they call what.
Script ==
    /\ kpc[C] # "none" => Call(C) \in {"abort", "close"}
    /\ kpc[M] # "none" => Call(M) \in {"abort", "close", "reset"}
    /\ Call(M) \in {"reset", "reopen"} => mpc = "read"
    /\ Call(M) \in {"abort", "close"} => mpc = "closing"
    /\ Call(C) \in {"close", "open", "start"} => mpc = "off"
    /\ terminate = 0 => Call(C) \in {"none", "wait"}
    /\ rd # "none" <=> mpc \in {"first_result", "result"}

\* The file that is read.
Named ==
    /\ chan.file = None => mpc = "off" /\ ppc = "off" /\ Call(C) # "start"
    /\ IF chan.file = None THEN chan.pos = 0 ELSE chan.pos <= Size[chan.file]

\* A prefetch thread that has begun will be joined.
Joinable ==
    /\ ppc \in {"made", "request", "fill", "ready", "end", "never"} => in_running = 1
    /\ ppc \notin {"off", "made", "never"} =>
          need_join = 1 \/ kpc[C] = "join" \/ kpc[M] = "join"

\* Where a thread that nobody else disturbs is behind the join, the prefetch
\* thread is gone.
Behind(t) ==
    /\ kpc[t] \in {"mark", "put", "reader", "prefetch"} =>
          ppc = "off" \/ (ppc \in {"never", "over"} /\ in_running = 1)
    /\ kpc[t] = "clean" \/ Call(t) \in {"open", "reopen"} => ppc = "off"
Stopped == (mpc = "off" => Behind(C)) /\ (terminate = 0 => Behind(M))

\* From an open until somebody asks the player to stop.
Asked == terminate = 0 \/ Call(C) = "start"
Undisturbed ==
    /\ Call(C) = "start" => abort_flag = 0 /\ cut = 0
    /\ terminate = 0 /\ mpc \notin {"off", "closing", "over"} =>
          cut = 0 /\ (abort_flag = 0 \/ (mpc = "read" /\ Call(M) # "none"))
    /\ terminate = 0 /\ kpc[M] # "none" => abort_flag = 1
    /\ terminate = 0 /\ abort_flag = 0 => cut = 0

Rules == Script /\ Named /\ Joinable /\ Stopped /\ Undisturbed

\* The types these rules need.
Places ==
    /\ kpc \in [Threads -> {"none", "flush", "stop", "join", "mark", "put",
                            "reader", "prefetch", "clean"}]
    /\ chan \in [file : Files \cup {None}, pos : Nat]

----------------------------------------------------------------------------
LEMMA Two == C # M /\ Threads = {C, M} /\ C \in Threads /\ M \in Threads
BY StreamMpegAssumption, Zenon DEF C, M

\* The call that follows a call.
LEMMA ControlNext ==
  ASSUME NEW s \in ControlCalls, s # <<>>
  PROVE  /\ Tail(s) \in ControlCalls
         /\ Head(s) \in {"abort", "join", "close", "open", "start", "wait"}
         /\ Head(s) = "abort" => First(Tail(s)) = "join"
         /\ Head(s) = "join" => First(Tail(s)) = "close"
         /\ Head(s) = "close" => First(Tail(s)) \in {"none", "open"}
         /\ Head(s) \in {"open", "start", "wait"} => First(Tail(s)) = "none"
<1>1. CASE s = <<"abort", "join", "close">>
  BY <1>1 DEF ControlCalls, First
<1>2. CASE s = <<"abort", "join", "close", "open">>
  BY <1>2 DEF ControlCalls, First
<1>3. CASE s = <<"join", "close">> BY <1>3 DEF ControlCalls, First
<1>4. CASE s = <<"join", "close", "open">> BY <1>4 DEF ControlCalls, First
<1>5. CASE s = <<"close">> BY <1>5 DEF ControlCalls, First
<1>6. CASE s = <<"close", "open">> BY <1>6 DEF ControlCalls, First
<1>7. CASE s = <<"open">> BY <1>7 DEF ControlCalls, First
<1>8. CASE s = <<"start">> BY <1>8 DEF ControlCalls, First
<1>9. CASE s = <<"wait">> BY <1>9 DEF ControlCalls, First
<1> QED BY <1>1, <1>2, <1>3, <1>4, <1>5, <1>6, <1>7, <1>8, <1>9, Zenon DEF ControlCalls

LEMMA PlayerNext ==
  ASSUME NEW s \in PlayerCalls, s # <<>>
  PROVE  /\ Tail(s) \in PlayerCalls
         /\ Head(s) \in {"abort", "close", "reset", "reopen"}
         /\ Head(s) = "abort" => First(Tail(s)) = "close"
         /\ Head(s) # "abort" => First(Tail(s)) = "none"
<1>1. CASE s = <<"abort", "close">> BY <1>1 DEF PlayerCalls, First
<1>2. CASE s = <<"close">> BY <1>2 DEF PlayerCalls, First
<1>3. CASE s = <<"reset">> BY <1>3 DEF PlayerCalls, First
<1>4. CASE s = <<"reopen">> BY <1>4 DEF PlayerCalls, First
<1> QED BY <1>1, <1>2, <1>3, <1>4, Zenon DEF PlayerCalls

LEMMA FirstIs ==
  /\ First(<<>>) = "none" /\ First(<<"start">>) = "start" /\ First(<<"wait">>) = "wait"
  /\ First(<<"abort", "join", "close">>) = "abort"
  /\ First(<<"abort", "join", "close", "open">>) = "abort"
  /\ First(<<"abort", "close">>) = "abort"
  /\ First(<<"reset">>) = "reset" /\ First(<<"reopen">>) = "reopen"
BY DEF First

LEMMA CallRange ==
  ASSUME Calling
  PROVE  /\ Call(C) \in {"none", "abort", "join", "close", "open", "start", "wait"}
         /\ Call(M) \in {"none", "abort", "close", "reset", "reopen"}
<1>1. todo[C] \in ControlCalls /\ todo[M] \in PlayerCalls BY Zenon DEF Calling
<1> QED BY <1>1, ControlNext, PlayerNext, Zenon DEF Call, First

LEMMA DoingIs ==
  ASSUME Calling, NEW t, NEW op, op # "none"
  PROVE  Doing(t, op) <=> Call(t) = op
BY Zenon DEF Doing, Call, First

LEMMA CallsKept ==
  ASSUME Calling, UNCHANGED todo
  PROVE  Calling' /\ Call(C)' = Call(C) /\ Call(M)' = Call(M)
BY Zenon DEF Calling, Call

LEMMA ControlCallsTo ==
  ASSUME Calling, NEW s \in ControlCalls, todo' = [todo EXCEPT ![C] = s]
  PROVE  Calling' /\ Call(C)' = First(s) /\ Call(M)' = Call(M)
BY Two, Zenon DEF Calling, Call

LEMMA PlayerCallsTo ==
  ASSUME Calling, NEW s \in PlayerCalls, todo' = [todo EXCEPT ![M] = s]
  PROVE  Calling' /\ Call(M)' = First(s) /\ Call(C)' = Call(C)
BY Two, Zenon DEF Calling, Call

LEMMA ControlDone ==
  ASSUME Calling, todo[C] # <<>>, Done(C)
  PROVE  /\ Calling' /\ Call(M)' = Call(M)
         /\ Call(C) = "abort" => Call(C)' = "join"
         /\ Call(C) = "join" => Call(C)' = "close"
         /\ Call(C) = "close" => Call(C)' \in {"none", "open"}
         /\ Call(C) \in {"open", "start", "wait"} => Call(C)' = "none"
<1>1. todo[C] \in ControlCalls BY Zenon DEF Calling
<1>2. todo' = [todo EXCEPT ![C] = Tail(todo[C])] BY Two, Zenon DEF Done, Calling
<1>3. Tail(todo[C]) \in ControlCalls BY <1>1, ControlNext, Zenon
<1>4. Calling' /\ Call(C)' = First(Tail(todo[C])) /\ Call(M)' = Call(M)
  BY Zenon, <1>2, <1>3, ControlCallsTo
<1>5. Call(C) = Head(todo[C]) BY Zenon DEF Call, First
<1> QED BY <1>1, <1>4, <1>5, ControlNext, Zenon

LEMMA PlayerDone ==
  ASSUME Calling, todo[M] # <<>>, Done(M)
  PROVE  /\ Calling' /\ Call(C)' = Call(C)
         /\ Call(M) = "abort" => Call(M)' = "close"
         /\ Call(M) # "abort" => Call(M)' = "none"
<1>1. todo[M] \in PlayerCalls BY Zenon DEF Calling
<1>2. todo' = [todo EXCEPT ![M] = Tail(todo[M])] BY Two, Zenon DEF Done, Calling
<1>3. Tail(todo[M]) \in PlayerCalls BY <1>1, PlayerNext, Zenon
<1>4. Calling' /\ Call(M)' = First(Tail(todo[M])) /\ Call(C)' = Call(C)
  BY Zenon, <1>2, <1>3, PlayerCallsTo
<1>5. Call(M) = Head(todo[M]) BY DEF Call, First
<1> QED BY <1>1, <1>4, <1>5, PlayerNext, Zenon

----------------------------------------------------------------------------
(* Who may close, open and read when.                                      *)

LEMMA BeginRules ==
  ASSUME Places, Calling, Rules, NEW t \in {C, M}, NEW aborts \in BOOLEAN, CloseBegin(t, aborts),
         Call(t) \in {"abort", "close", "reset"}, aborts => Call(t) = "abort",
         UNCHANGED <<todo, playVars>>
  PROVE  Rules'
<1>1. Call(C)' = Call(C) /\ Call(M)' = Call(M) BY CallsKept, Zenon
<1>2. UNCHANGED <<chan, ppc, in_running, need_join, mpc, terminate, rd>>
      /\ abort_flag' = 1 /\ cut' = (IF aborts THEN 1 ELSE cut)
      /\ kpc' = [kpc EXCEPT ![t] = "flush"] /\ kpc[t] = "none"
  BY Zenon DEF CloseBegin, CloseUnchanged, ReaderUnchanged, readVars, prefetchVars, playVars
<1>3. kpc'[t] = "flush" /\ \A u \in {C, M} \ {t} : kpc'[u] = kpc[u]
  BY <1>2, Two, Zenon DEF Places
<1> QED
  <2>1. Script' BY <1>1, <1>2, <1>3, Two, CallRange, Zenon DEF Rules, Script
  <2>2. Named' BY <1>1, <1>2, Zenon DEF Rules, Named
  <2>3. Joinable' BY <1>2, <1>3, Two, Zenon DEF Rules, Joinable
  <2>4. Stopped' BY <1>1, <1>2, <1>3, Two, Zenon DEF Rules, Stopped, Behind
  <2>5. Undisturbed' BY <1>1, <1>2, <1>3, Two DEF Rules, Undisturbed, Script
  <2> QED BY <2>1, <2>2, <2>3, <2>4, <2>5, Zenon DEF Rules

LEMMA CloseRules ==
  ASSUME Places, Calling, Rules, NEW t \in {C, M}, CloseStep(t), UNCHANGED <<todo, playVars>>
  PROVE  Rules'
<1>1. Call(C)' = Call(C) /\ Call(M)' = Call(M) BY CallsKept, Zenon
<1>2. UNCHANGED <<chan, in_running, abort_flag, cut, mpc, terminate, rd>> /\ kpc[t] # "none"
  BY Zenon DEF CloseStep, CloseFlush, CloseStop, CloseJoin, CloseMark, ClosePut, CloseReader,
         ClosePrefetch, CloseUnchanged, ReaderUnchanged, readVars, playVars
<1>3. PICK k \in {"stop", "join", "mark", "put", "reader", "prefetch", "clean"} :
         kpc' = [kpc EXCEPT ![t] = k]
  BY Zenon DEF CloseStep, CloseFlush, CloseStop, CloseJoin, CloseMark, ClosePut, CloseReader,
         ClosePrefetch
<1>4. kpc'[t] = k /\ \A u \in {C, M} \ {t} : kpc'[u] = kpc[u]
  BY <1>3, Two, Zenon DEF Places
<1>5. Script' BY <1>1, <1>2, <1>4, Two, Zenon DEF Rules, Script
<1>6. Undisturbed' BY <1>1, <1>2, <1>4, Two, Zenon DEF Rules, Undisturbed
<1>7. CASE CloseStop(t)
  <2>1. /\ kpc[t] = "stop" /\ k = (IF need_join = 1 THEN "join" ELSE "mark")
        /\ need_join' = 0 /\ ppc' = IF ppc = "made" THEN "never" ELSE ppc
    BY <1>3, <1>4, <1>7, Two, Zenon DEF CloseStop, Places
  <2>2. Named' BY <1>1, <1>2, <2>1, Zenon DEF Rules, Named
  <2>3. Joinable' BY <1>2, <1>4, <2>1, Two, Zenon DEF Rules, Joinable
  <2>4. Stopped' BY <1>1, <1>2, <1>4, <2>1, Two, CallRange, Zenon DEF Rules, Stopped, Behind, Joinable, Script
  <2> QED BY <1>5, <1>6, <2>2, <2>3, <2>4, Zenon DEF Rules
<1>8. CASE CloseJoin(t)
  <2>1. kpc[t] = "join" /\ k = "mark" /\ ppc' = "off" /\ UNCHANGED need_join
    BY <1>3, <1>4, <1>8, Two, Zenon DEF CloseJoin, Places
  <2>2. Named' BY <1>1, <1>2, <2>1, Zenon DEF Rules, Named
  <2>3. Joinable' BY <2>1, Zenon DEF Joinable
  <2>4. Stopped' BY <2>1, Zenon DEF Stopped, Behind
  <2> QED BY <1>5, <1>6, <2>2, <2>3, <2>4 DEF Rules
<1>9. ASSUME ~CloseStop(t), ~CloseJoin(t) PROVE Rules'
  <2>0. t \in DOMAIN kpc BY Two, Zenon DEF Places
  <2>1. /\ UNCHANGED <<ppc, need_join>>
        /\ \/ kpc[t] = "flush" /\ k = "stop"
           \/ kpc[t] = "mark" /\ k \in {"put", "reader"}
           \/ kpc[t] = "put" /\ k = "reader"
           \/ kpc[t] = "reader" /\ k = "prefetch"
           \/ kpc[t] = "prefetch" /\ k = "clean" /\ in_running = 0
    <3>1. CASE CloseFlush(t)
      BY <1>4, <2>0, <3>1, Zenon DEF CloseFlush, CloseUnchanged, prefetchVars
    <3>2. CASE CloseMark(t)
      BY <1>4, <2>0, <3>2, Zenon DEF CloseMark, CloseUnchanged, prefetchVars
    <3>3. CASE ClosePut(t)
      BY <1>4, <2>0, <3>3, Zenon DEF ClosePut, CloseUnchanged, prefetchVars
    <3>4. CASE CloseReader(t)
      BY <1>4, <2>0, <3>4, Zenon DEF CloseReader, CloseUnchanged, prefetchVars
    <3>5. CASE ClosePrefetch(t)
      BY <1>4, <2>0, <3>5, Zenon DEF ClosePrefetch, CloseUnchanged, prefetchVars
    <3> QED BY <1>9, <3>1, <3>2, <3>3, <3>4, <3>5, Zenon DEF CloseStep
  <2>2. Named' BY <1>1, <1>2, <2>1, Zenon DEF Rules, Named
  <2>3. Joinable' BY <1>2, <1>4, <2>1, Two, Zenon DEF Rules, Joinable
  <2>4. Stopped' BY <1>1, <1>2, <1>4, <2>1, Two DEF Rules, Stopped, Behind
  <2> QED BY <1>5, <1>6, <2>2, <2>3, <2>4 DEF Rules
<1> QED BY <1>7, <1>8, <1>9, Zenon

LEMMA CleanRules ==
  ASSUME Places, Calling, Rules, NEW t \in {C, M}, CloseClean(t), UNCHANGED playVars,
         todo' = [todo EXCEPT ![t] = IF Head(@) = "reset" THEN <<"reopen">> ELSE Tail(@)]
  PROVE  Calling' /\ Rules' /\ (Call(C)' = "start" => Call(C) = "start")
<1>1. /\ UNCHANGED <<chan, ppc, in_running, need_join, abort_flag, cut, mpc, terminate, rd>>
      /\ kpc[t] = "clean" /\ kpc' = [kpc EXCEPT ![t] = "none"]
  BY Zenon DEF CloseClean, CloseUnchanged, prefetchVars, playVars
<1>2. kpc'[t] = "none" /\ \A u \in {C, M} \ {t} : kpc'[u] = kpc[u]
  BY <1>1, Two, Zenon DEF Places
<1>3. CASE t = C
  <2>1. Call(C) \in {"abort", "close"} /\ Call(C) = Head(todo[C]) /\ todo[C] # <<>>
    BY <1>1, <1>3, Zenon DEF Rules, Script, Call, First
  <2>2. Done(C)
    <3>1. Head(todo[C]) # "reset" BY <2>1, Zenon
    <3> QED BY <1>3, <3>1, Two, Zenon DEF Done, Calling
  <2>3. Calling' /\ Call(M)' = Call(M) /\ (Call(C) = "abort" => Call(C)' = "join")
        /\ (Call(C) = "close" => Call(C)' \in {"none", "open"})
    BY <2>1, <2>2, ControlDone, Zenon
  <2>4. Script' BY <1>1, <1>2, <1>3, <2>1, <2>3, Two, Zenon DEF Rules, Script
  <2>5. Named' BY <1>1, <2>1, <2>3, Zenon DEF Rules, Named
  <2>6. Joinable' BY <1>1, <1>2, <1>3, Two, Zenon DEF Rules, Joinable
  <2>7. Stopped' BY <1>1, <1>2, <1>3, <2>1, <2>3, Two, Zenon DEF Rules, Stopped, Behind
  <2>8. Undisturbed' BY <1>1, <1>2, <1>3, <2>1, <2>3, Two, Zenon DEF Rules, Undisturbed, Script
  <2> QED BY <2>1, <2>3, <2>4, <2>5, <2>6, <2>7, <2>8, Zenon DEF Rules
<1>4. CASE t = M
  <2>1. Call(M) \in {"abort", "close", "reset"} /\ Call(M) = Head(todo[M]) /\ todo[M] # <<>>
    BY <1>1, <1>4, Zenon DEF Rules, Script, Call, First
  <2>2. Calling' /\ Call(C)' = Call(C) /\ (Call(M) = "abort" => Call(M)' = "close")
        /\ (Call(M) = "close" => Call(M)' = "none") /\ (Call(M) = "reset" => Call(M)' = "reopen")
    <3>1. CASE Call(M) = "reset"
      <4>1. todo' = [todo EXCEPT ![M] = <<"reopen">>]
        BY Zenon, <1>4, <2>1, <3>1, Two DEF Calling
      <4>2. <<"reopen">> \in PlayerCalls BY Zenon DEF PlayerCalls
      <4> QED BY Zenon, <3>1, <4>1, <4>2, PlayerCallsTo, FirstIs
    <3>2. CASE Call(M) # "reset"
      <4>1. Done(M) BY <1>4, <2>1, <3>2, Two, Zenon DEF Done, Calling
      <4> QED BY <2>1, <3>2, <4>1, PlayerDone, Zenon
    <3> QED BY <3>1, <3>2, Zenon
  <2>4. Script' BY <1>1, <1>2, <1>4, <2>1, <2>2, Two, Zenon DEF Rules, Script
  <2>5. Named' BY <1>1, <2>2, Zenon DEF Rules, Named
  <2>6. Joinable' BY <1>1, <1>2, <1>4, Two, Zenon DEF Rules, Joinable
  <2>7. Stopped' BY <1>1, <1>2, <1>4, <2>1, <2>2, Two, Zenon DEF Rules, Stopped, Behind
  <2>8. Undisturbed' BY <1>1, <1>2, <1>4, <2>1, <2>2, Two, Zenon DEF Rules, Undisturbed, Script
  <2> QED BY <2>2, <2>4, <2>5, <2>6, <2>7, <2>8, Zenon DEF Rules
<1> QED BY <1>3, <1>4, Zenon

LEMMA ResetRules ==
  ASSUME Places, Calling, Rules, EngineReset(M)
  PROVE  Calling' /\ Rules' /\ Call(M) = "reopen" /\ Call(M)' = "none" /\ Call(C)' = Call(C)
<1>1. Call(M) = "reopen" /\ todo[M] # <<>> BY DoingIs, Zenon DEF EngineReset, Doing
<1>2. Calling' /\ Call(C)' = Call(C) /\ Call(M)' = "none"
  BY <1>1, PlayerDone, Zenon DEF EngineReset
<1>3. /\ UNCHANGED <<cut, mpc, terminate, rd>> /\ abort_flag' = 0 /\ in_running' = 1
      /\ chan' = [chan EXCEPT !.pos = 0]
      /\ IF ppc \in {"off", "over"}
         THEN ppc' = "made" /\ need_join' = 0
              /\ kpc' = [t \in Threads |-> IF kpc[t] = "join" THEN "mark" ELSE kpc[t]]
         ELSE UNCHANGED <<ppc, need_join, kpc>>
  BY Zenon DEF EngineReset, Reset, OpenStep1
<1>4. mpc = "read" /\ kpc[M] = "none" /\ chan.file # None
  BY <1>1, Zenon DEF Rules, Script, Named
<1>5. chan'.file = chan.file /\ chan'.pos = 0 BY <1>3, Zenon DEF Places
<1>6. Size[chan.file] \in Nat BY <1>4, PrefetchAssumption, Zenon DEF Places
<1>7. /\ kpc'[M] = "none" /\ (kpc'[C] = "none" <=> kpc[C] = "none")
      /\ kpc'[C] = "join" => ppc' = ppc /\ kpc[C] = "join"
  BY <1>3, <1>4, Two, Zenon DEF Places
<1>8. Script' BY <1>1, <1>2, <1>3, <1>4, <1>7, Zenon DEF Rules, Script
<1>9. Named' BY <1>3, <1>4, <1>5, <1>6 DEF Named
<1>10. Joinable' BY <1>3, <1>4, <1>7, Zenon DEF Rules, Joinable
<1>11. Stopped' BY <1>2, <1>3, <1>4, <1>7, Zenon DEF Stopped, Behind
<1>12. Undisturbed' BY <1>1, <1>2, <1>3, <1>4, <1>7, Zenon DEF Rules, Undisturbed, Script
<1> QED BY <1>1, <1>2, <1>8, <1>9, <1>10, <1>11, <1>12, Zenon DEF Rules

\* An open that finds the file.
LEMMA OpenRules ==
  ASSUME Places, Calling, Rules, Doing(C, "open"), NEW f \in Files, Open(f), Calls(<<"start">>),
         UNCHANGED <<mpc, terminate>>
  PROVE  Calling' /\ Rules' /\ Call(C)' = "start" /\ ppc = "off" /\ rd = "none"
<1>1. Call(C) = "open" /\ todo[C] # <<>> BY DoingIs, Zenon DEF Doing
<1>2. Calling' /\ Call(C)' = "start" /\ Call(M)' = Call(M)
  <2>1. <<"start">> \in ControlCalls BY Zenon DEF ControlCalls
  <2> QED BY Zenon, <2>1, ControlCallsTo, FirstIs DEF Calls
<1>3. mpc = "off" /\ kpc[C] = "none" /\ rd = "none" /\ ppc = "off" /\ terminate # 0
  BY <1>1, Zenon DEF Rules, Script, Stopped, Behind
<1>4. Call(M) = "none" /\ kpc[M] = "none" BY <1>3, CallRange, Zenon DEF Rules, Script
<1>5. /\ UNCHANGED rd /\ abort_flag' = 0 /\ cut' = 0 /\ in_running' = 1
      /\ chan' = [file |-> f, pos |-> 0]
      /\ ppc' = "made" /\ need_join' = 0
      /\ kpc' = [t \in Threads |-> IF kpc[t] = "join" THEN "mark" ELSE kpc[t]]
  BY <1>3, Zenon DEF Open, OpenStep1
<1>6. kpc'[C] = "none" /\ kpc'[M] = "none" BY <1>3, <1>4, <1>5, Two, Zenon DEF Places
<1>7. chan'.file = f /\ chan'.pos = 0 /\ f # None /\ Size[f] \in Nat
  BY <1>5, PrefetchAssumption, Zenon
<1>8. Script' BY <1>2, <1>3, <1>4, <1>5, <1>6, Zenon DEF Script
<1>9. Named' BY <1>7 DEF Named
<1>10. Joinable' BY <1>5, Zenon DEF Joinable
<1>11. Stopped' BY <1>2, <1>3, <1>4, <1>6, Zenon DEF Stopped, Behind
<1>12. Undisturbed' BY <1>2, <1>3, <1>5, <1>6, Zenon DEF Undisturbed
<1> QED BY <1>2, <1>3, <1>8, <1>9, <1>10, <1>11, <1>12, Zenon DEF Rules

LEMMA OpenFailsRules ==
  ASSUME Places, Calling, Rules, Doing(C, "open"), OpenFails, Done(C), UNCHANGED <<mpc, terminate>>
  PROVE  Calling' /\ Rules' /\ Call(C)' = "none" /\ terminate # 0
<1>1. Call(C) = "open" /\ todo[C] # <<>> BY DoingIs, Zenon DEF Doing
<1>2. Calling' /\ Call(C)' = "none" /\ Call(M)' = Call(M) BY <1>1, ControlDone, Zenon
<1>3. mpc = "off" /\ kpc[C] = "none" /\ rd = "none" /\ ppc = "off" /\ terminate # 0
  BY <1>1, Zenon DEF Rules, Script, Stopped, Behind
<1>4. UNCHANGED <<abort_flag, in_running, need_join, ppc, rd, kpc>>
      /\ chan' = [chan EXCEPT !.pos = 0]
  BY Zenon DEF OpenFails, prefetchVars, readVars
<1>5. chan'.file = chan.file /\ chan'.pos = 0 BY <1>4, Zenon DEF Places
<1>6. chan.file # None => Size[chan.file] \in Nat BY PrefetchAssumption, Zenon DEF Places
<1>8. Script' BY <1>1, <1>2, <1>3, <1>4, Zenon DEF Rules, Script
<1>9. Named' BY <1>2, <1>3, <1>4, <1>5, <1>6 DEF Named
<1>10. Joinable' BY <1>3, <1>4, Zenon DEF Joinable
<1>11. Stopped' BY <1>3, <1>4, Zenon DEF Stopped, Behind
<1>12. Undisturbed' BY <1>2, <1>3, Zenon DEF Undisturbed
<1> QED BY <1>2, <1>3, <1>8, <1>9, <1>10, <1>11, <1>12, Zenon DEF Rules

\* The other calls of the control thread leave the engine alone.
LEMMA ControlRules ==
  ASSUME Places, Calling, Rules,
         Join \/ stm_start \/ stm_wait_for_playing \/ stm_stop \/ stm_open \/ stm_reset
  PROVE  Calling' /\ Rules'
<1>0. UNCHANGED <<chan, cut, abort_flag, in_running, need_join, ppc, rd, kpc>>
  BY Zenon DEF Join, stm_start, stm_wait_for_playing, stm_stop, stm_open, stm_reset, vars,
         readVars, prefetchVars
<1>1. CASE Join
  <2>0. Call(C) = "join" /\ todo[C] # <<>> /\ Done(C) BY Zenon, <1>1, DoingIs DEF Join, Doing
  <2>1. Call(C) = "join" /\ Calling' /\ Call(C)' = "close" /\ Call(M)' = Call(M)
    BY <2>0, ControlDone, Zenon
  <2>2. mpc \in {"off", "over"} /\ mpc' = "off" /\ UNCHANGED terminate BY <1>1, Zenon DEF Join
  <2>3. terminate # 0 /\ kpc[C] = "none" /\ kpc[M] = "none" /\ rd = "none"
    BY <2>1, <2>2, CallRange, Zenon DEF Rules, Script
  <2>4. Script' /\ Named' BY <1>0, <2>1, <2>2, <2>3, CallRange, Zenon DEF Rules, Script, Named
  <2>5. Joinable' /\ Stopped' /\ Undisturbed'
    BY <1>0, <2>1, <2>2, <2>3, Zenon DEF Rules, Joinable, Stopped, Behind, Undisturbed
  <2> QED BY <2>1, <2>4, <2>5, Zenon DEF Rules
<1>2. CASE stm_start
  <2>1. Call(C) = "start" /\ todo[C] # <<>> BY Zenon, <1>2, DoingIs DEF stm_start, Doing
  <2>2. Calling' /\ Call(C)' \in {"none", "wait"} /\ Call(M)' = Call(M)
    <3>1. CASE Calls(<<"wait">>)
      <4>1. <<"wait">> \in ControlCalls BY Zenon DEF ControlCalls
      <4> QED BY Zenon, <3>1, <4>1, ControlCallsTo, FirstIs DEF Calls
    <3>2. CASE Done(C) BY <2>1, <3>2, ControlDone, Zenon
    <3> QED BY <1>2, <3>1, <3>2, Zenon DEF stm_start
  <2>3. mpc = "off" /\ mpc' = "first" /\ terminate' = 0 BY <1>2, Zenon DEF stm_start
  <2>4. kpc[C] = "none" /\ kpc[M] = "none" /\ Call(M) = "none"
    BY <2>1, <2>3, CallRange, Zenon DEF Rules, Script
  <2>5. Script' /\ Named' BY <1>0, <2>1, <2>2, <2>3, <2>4, Zenon DEF Rules, Script, Named
  <2>6. Joinable' /\ Stopped' /\ Undisturbed'
    BY <1>0, <2>1, <2>2, <2>3, <2>4, Zenon DEF Rules, Joinable, Stopped, Behind, Undisturbed
  <2> QED BY <2>2, <2>5, <2>6, Zenon DEF Rules
<1>3. CASE stm_wait_for_playing
  <2>0. Call(C) = "wait" /\ todo[C] # <<>> /\ Done(C)
    BY Zenon, <1>3, DoingIs DEF stm_wait_for_playing, Doing
  <2>1. Call(C) = "wait" /\ Calling' /\ Call(C)' = "none" /\ Call(M)' = Call(M)
    BY <2>0, ControlDone, Zenon
  <2>2. UNCHANGED <<mpc, terminate>> BY <1>3, Zenon DEF stm_wait_for_playing, playVars
  <2>5. Script' /\ Named' BY Zenon, <1>0, <2>1, <2>2 DEF Rules, Script, Named
  <2>6. Joinable' /\ Stopped' /\ Undisturbed'
    BY <1>0, <2>1, <2>2 DEF Rules, Joinable, Stopped, Behind, Undisturbed
  <2> QED BY <2>1, <2>5, <2>6, Zenon DEF Rules
<1>4. CASE stm_stop \/ stm_open
  <2>1. Call(C) = "none" BY <1>4, Zenon DEF stm_stop, stm_open, Idle, Call, First
  <2>2. Calling' /\ Call(C)' = "abort" /\ Call(M)' = Call(M)
    <3>1. <<"abort", "join", "close">> \in ControlCalls BY Zenon DEF ControlCalls
    <3>2. <<"abort", "join", "close", "open">> \in ControlCalls BY Zenon DEF ControlCalls
    <3>3. CASE stm_stop BY Zenon, <3>1, <3>3, ControlCallsTo, FirstIs DEF stm_stop, Calls
    <3>4. CASE stm_open BY Zenon, <3>2, <3>4, ControlCallsTo, FirstIs DEF stm_open, Calls
    <3> QED BY <1>4, <3>3, <3>4, Zenon
  <2>3. UNCHANGED mpc /\ terminate' = 1 BY <1>4, Zenon DEF stm_stop, stm_open
  <2>4. kpc[C] = "none" BY <2>1, Zenon DEF Rules, Script
  <2>5. Script' /\ Named' BY <1>0, <2>1, <2>2, <2>3, <2>4 DEF Rules, Script, Named
  <2>6. Joinable' /\ Stopped' /\ Undisturbed'
    BY <1>0, <2>1, <2>2, <2>3, <2>4 DEF Rules, Joinable, Stopped, Behind, Undisturbed
  <2> QED BY <2>2, <2>5, <2>6, Zenon DEF Rules
<1>5. CASE stm_reset
  <2>1. Calling' /\ Call(C)' = Call(C) /\ Call(M)' = Call(M)
    BY <1>5, CallsKept, Zenon DEF stm_reset
  <2>2. UNCHANGED <<mpc, terminate>> BY <1>5, Zenon DEF stm_reset
  <2>5. Script' /\ Named' BY Zenon, <1>0, <2>1, <2>2 DEF Rules, Script, Named
  <2>6. Joinable' /\ Stopped' /\ Undisturbed'
    BY <1>0, <2>1, <2>2 DEF Rules, Joinable, Stopped, Behind, Undisturbed
  <2> QED BY <2>1, <2>5, <2>6, Zenon DEF Rules
<1> QED BY <1>1, <1>2, <1>3, <1>4, <1>5, Zenon

\* The player's own steps leave the engine's threads alone.
LEMMA PlayerRules ==
  ASSUME Places, Calling, Rules,
         FirstRead \/ FirstResult \/ StartPlaying \/ Play \/ Push \/ Read \/ Result \/ Over
  PROVE  Calling' /\ Rules'
<1>0. UNCHANGED <<chan, cut, abort_flag, in_running, need_join, ppc, kpc, terminate>>
  BY Zenon DEF FirstRead, FirstResult, StartPlaying, Play, Push, Read, Result, Over, ReadBegin,
         ReadUnchanged, vars, prefetchVars
<1>1. ASSUME Calling', Call(C)' = Call(C), Call(M)' = Call(M),
             mpc # "off", mpc # "over", mpc # "closing", mpc' # "off", mpc' # "closing",
             mpc = "read" => Call(M) = "none", rd' # "none" <=> mpc' \in {"first_result", "result"}
      PROVE  Calling' /\ Rules'
  <2>1. Script' /\ Named' BY <1>0, <1>1, CallRange, Zenon DEF Rules, Script, Named
  <2>2. Joinable' /\ Stopped' /\ Undisturbed'
    BY <1>0, <1>1, CallRange, Zenon DEF Rules, Joinable, Stopped, Behind, Undisturbed, Script
  <2> QED BY <1>1, <2>1, <2>2, Zenon DEF Rules
<1>2. ASSUME mpc \in {"play", "result"}, LeaveLoop, rd' = "none" PROVE Calling' /\ Rules'
  <2>1. Calling' /\ Call(M)' = "abort" /\ Call(C)' = Call(C) /\ mpc' = "closing"
    <3>1. <<"abort", "close">> \in PlayerCalls BY Zenon DEF PlayerCalls
    <3> QED BY Zenon, <1>2, <3>1, PlayerCallsTo, FirstIs DEF LeaveLoop
  <2>2. Call(M) = "none" /\ kpc[M] = "none" BY <1>2, CallRange, Zenon DEF Rules, Script
  <2>3. Script' /\ Named' BY <1>0, <1>2, <2>1, <2>2, Zenon DEF Rules, Script, Named
  <2>4. Joinable' /\ Stopped' /\ Undisturbed'
    BY <1>0, <1>2, <2>1, <2>2, Zenon DEF Rules, Joinable, Stopped, Behind, Undisturbed
  <2> QED BY <2>1, <2>3, <2>4, Zenon DEF Rules
<1>3. CASE FirstRead
  BY <1>1, <1>3, CallsKept, Zenon DEF FirstRead, ReadBegin
<1>4. CASE FirstResult
  BY <1>1, <1>4, CallsKept, Zenon DEF FirstResult
<1>5. CASE StartPlaying
  <2>1. UNCHANGED <<rd, todo>> /\ mpc = "fill" /\ mpc' = "play"
    BY <1>5, Zenon DEF StartPlaying, vars, readVars
  <2>2. rd = "none" BY <2>1, Zenon DEF Rules, Script
  <2> QED BY <1>1, <2>1, <2>2, CallsKept, Zenon
<1>6. CASE Play
  <2>1. UNCHANGED rd /\ mpc = "play" BY <1>6, Zenon DEF Play, vars, readVars
  <2>2. rd = "none" BY <2>1, Zenon DEF Rules, Script
  <2>3. CASE LeaveLoop BY <1>2, <2>1, <2>2, <2>3, Zenon
  <2>4. CASE mpc' = "push" /\ UNCHANGED todo BY <1>1, <2>1, <2>2, <2>4, CallsKept, Zenon
  <2> QED BY <1>6, <2>3, <2>4, Zenon DEF Play
<1>7. CASE Push
  <2>1. UNCHANGED rd /\ mpc = "push" BY <1>7, Zenon DEF Push, vars, readVars
  <2>2. rd = "none" /\ Call(M) = "none" /\ kpc[M] = "none"
    BY <2>1, CallRange, Zenon DEF Rules, Script
  <2>3. CASE mpc' = "over" /\ UNCHANGED todo BY <1>1, <2>1, <2>2, <2>3, CallsKept, Zenon
  <2>4. CASE mpc' = "read" /\ ~UNCHANGED todo
    <3>1. PICK s \in {<<"reset">>, <<>>} : todo' = [todo EXCEPT ![M] = s] BY <1>7, <2>4, Zenon DEF Push
    <3>2. s \in PlayerCalls /\ First(s) \in {"reset", "none"}
      BY <3>1, FirstIs, Zenon DEF PlayerCalls
    <3>3. Calling' /\ Call(M)' \in {"reset", "none"} /\ Call(C)' = Call(C)
      <4>1. Calling' /\ Call(M)' = First(s) /\ Call(C)' = Call(C)
        BY Zenon, <3>1, <3>2, PlayerCallsTo
      <4> QED BY <3>2, <4>1, Zenon
    <3>4. Script' /\ Named' BY <1>0, <2>1, <2>2, <2>4, <3>3, Zenon DEF Rules, Script, Named
    <3>5. Joinable' /\ Stopped' /\ Undisturbed'
      BY <1>0, <2>1, <2>2, <2>4, <3>3, Zenon DEF Rules, Joinable, Stopped, Behind, Undisturbed
    <3> QED BY <3>3, <3>4, <3>5, Zenon DEF Rules
  <2>5. CASE mpc' = "read" /\ UNCHANGED todo BY <1>1, <2>1, <2>2, <2>5, CallsKept, Zenon
  <2> QED BY <1>7, <2>3, <2>4, <2>5, Zenon DEF Push
<1>8. CASE Read
  <2>1. Call(M) = "none" /\ UNCHANGED todo /\ mpc = "read" /\ mpc' = "result" /\ rd' # "none"
    BY <1>8, Zenon DEF Read, ReadBegin, Call, First
  <2> QED BY <1>1, <2>1, CallsKept, Zenon
<1>9. CASE Result
  <2>1. mpc = "result" /\ rd' = "none" BY <1>9, Zenon DEF Result
  <2>2. CASE LeaveLoop BY <1>2, <2>1, <2>2, Zenon
  <2>3. CASE mpc' = "play" /\ UNCHANGED todo BY <1>1, <2>1, <2>3, CallsKept, Zenon
  <2> QED BY <1>9, <2>2, <2>3, Zenon DEF Result
<1>10. CASE Over
  <2>1. /\ mpc = "closing" /\ mpc' = "over" /\ Call(M) = "none" /\ UNCHANGED <<todo, rd>>
    BY <1>10, Zenon DEF Over, Call, First, vars, readVars
  <2>2. Calling' /\ Call(C)' = Call(C) /\ Call(M)' = Call(M) BY <2>1, CallsKept, Zenon
  <2>3. Script' /\ Named' BY <1>0, <2>1, <2>2, Zenon DEF Rules, Script, Named
  <2>4. Joinable' /\ Stopped' /\ Undisturbed'
    BY <1>0, <2>1, <2>2, Zenon DEF Rules, Joinable, Stopped, Behind, Undisturbed
  <2> QED BY <2>2, <2>3, <2>4, Zenon DEF Rules
<1> QED BY <1>3, <1>4, <1>5, <1>6, <1>7, <1>8, <1>9, <1>10, Zenon

\* Neither does set_repeat, nor do the steps of a read.
LEMMA ReadRules ==
  ASSUME Places, Calling, Rules,
         set_repeat \/ (ReadStep /\ UNCHANGED <<playVars, todo>>) \/ UNCHANGED mpegVars
  PROVE  Calling' /\ Rules'
<1>1. UNCHANGED <<chan, cut, abort_flag, in_running, need_join, ppc, kpc, terminate, mpc, todo>>
      /\ (rd' = "none" <=> rd = "none")
  BY Zenon DEF set_repeat, SetRepeat, ReadStep, ReadEnter, ReadTake, ReadCopy, ReadLeave,
         ReadUnchanged, mpegVars, vars, prefetchVars, readVars, playVars
<1>2. Calling' /\ Call(C)' = Call(C) /\ Call(M)' = Call(M) BY <1>1, CallsKept, Zenon
<1>3. Script' BY Zenon, <1>1, <1>2 DEF Rules, Script
<1>4. Named' /\ Joinable' /\ Stopped' /\ Undisturbed'
  BY <1>1, <1>2, Zenon DEF Rules, Named, Joinable, Stopped, Behind, Undisturbed
<1> QED BY <1>2, <1>3, <1>4, Zenon DEF Rules

\* What the engine reads lies in the file.
LEMMA ReadRange ==
  ASSUME NEW c \in [file : Files \cup {None}, pos : Nat], NEW n \in Outcomes(c),
         IF c.file = None THEN c.pos = 0 ELSE c.pos <= Size[c.file]
  PROVE  /\ n \in 0 .. BSize
         /\ c.file = None => n = 0
         /\ c.file # None => c.pos + n <= Size[c.file]
BY PrefetchAssumption DEF Outcomes, ReadAt, Least

\* What a fill leaves: the channel in the file, a buffer of the file.
FillLeaves ==
    /\ chan' \in [file : Files \cup {None}, pos : Nat] /\ chan'.file = chan.file
    /\ IF chan.file = None THEN chan'.pos = 0 ELSE chan'.pos <= Size[chan.file]
    /\ pbuf' \in Buffer /\ (pbuf'.rc > 0 => pbuf'.file = chan.file)

LEMMA FilledLeaves ==
  ASSUME NEW c \in [file : Files \cup {None}, pos : Nat], NEW n \in Outcomes(c),
         NEW flag \in {0, 1}, c.file = chan.file,
         IF c.file = None THEN c.pos = 0 ELSE c.pos <= Size[c.file], Filled(c, n, flag)
  PROVE  FillLeaves
<1>1. /\ n \in 0 .. BSize /\ (c.file = None => n = 0)
      /\ c.file # None => c.pos + n <= Size[c.file]
  BY ReadRange, Zenon
<1> QED BY <1>1, PrefetchAssumption DEF Filled, Buffer, FillLeaves

LEMMA FillPlace ==
  ASSUME Places, Named, PFill, repeat_cnt \in Int
  PROVE  FillLeaves /\ repeat_cnt' \in Int
<1>1. CASE PFillAborted
  BY <1>1, PrefetchAssumption DEF PFillAborted, Mark, Buffer, Places, Named, FillLeaves
<1>2. CASE PFillRead
  <2> DEFINE start == [chan EXCEPT !.pos = 0]
  <2>1. PICK n \in Outcomes(chan) :
          IF n > 0 \/ repeat_cnt = 0
          THEN Filled(chan, n, 0) /\ UNCHANGED repeat_cnt
          ELSE /\ repeat_cnt' = IF repeat_cnt > 0 THEN repeat_cnt - 1 ELSE repeat_cnt
               /\ \E m \in Outcomes(start) : Filled(start, m, 1)
    BY <1>2, Zenon DEF PFillRead
  <2>2. repeat_cnt' \in Int BY <2>1
  <2>3. CASE Filled(chan, n, 0) BY <2>2, <2>3, FilledLeaves, Zenon DEF Places, Named
  <2>4. ASSUME NEW m \in Outcomes(start), Filled(start, m, 1) PROVE FillLeaves
    <3>1. /\ start \in [file : Files \cup {None}, pos : Nat] /\ start.file = chan.file
          /\ start.pos = 0 /\ (start.file # None => 0 <= Size[start.file])
      BY PrefetchAssumption DEF Places
    <3> QED BY <2>4, <3>1, FilledLeaves, Zenon
  <2> QED BY <2>1, <2>2, <2>3, <2>4, Zenon
<1> QED BY <1>1, <1>2, Zenon DEF PFill

\* The prefetch thread: it is joinable from its begin to its end.
LEMMA PrefetchRules ==
  ASSUME Places, Calling, Rules, repeat_cnt \in Int, Prefetcher
  PROVE  Calling' /\ Rules'
<1>1. UNCHANGED <<cut, abort_flag, kpc, terminate, mpc, todo, rd>>
  BY Zenon DEF Prefetcher, PrefetchMain, PBegin, PRequest, PFill, PReady, PEnd, PExit, PNever,
         readVars, playVars
<1>2. Calling' /\ Call(C)' = Call(C) /\ Call(M)' = Call(M) BY <1>1, CallsKept, Zenon
<1>3. Script' /\ Undisturbed' BY <1>1, <1>2, Zenon DEF Rules, Script, Undisturbed
<1>4. CASE PFill
  <2>1. UNCHANGED <<in_running, need_join>> /\ ppc = "fill" /\ ppc' = "ready"
    BY <1>4, Zenon DEF PFill
  <2>2. Named' BY <1>1, <1>2, <1>4, <2>1, FillPlace, Zenon DEF Rules, Named, FillLeaves
  <2>3. Joinable' /\ Stopped'
    BY <1>1, <1>2, <2>1, Zenon DEF Rules, Joinable, Stopped, Behind
  <2> QED BY <1>2, <1>3, <2>2, <2>3, Zenon DEF Rules
<1>5. CASE PBegin \/ PNever
  <2>1. /\ UNCHANGED chan /\ need_join' = 1
        /\ \/ ppc = "made" /\ ppc' = "request" /\ in_running' = 1
           \/ ppc = "never" /\ ppc' = "over" /\ in_running' = in_running
    BY <1>5, Zenon DEF PBegin, PNever
  <2>2. Named' BY <1>1, <1>2, <2>1, Zenon DEF Rules, Named
  <2>3. Joinable' BY <2>1, Zenon DEF Joinable
  <2>4. Stopped' BY <1>1, <1>2, <2>1, Zenon DEF Rules, Stopped, Behind, Joinable
  <2> QED BY <1>2, <1>3, <2>2, <2>3, <2>4, Zenon DEF Rules
<1>6. CASE PRequest \/ PReady \/ PEnd \/ PExit
  <2>1. /\ UNCHANGED <<chan, need_join>>
        /\ ppc \in {"request", "fill", "ready", "end", "exit"}
        /\ \/ ppc' \in {"fill", "request", "end"} /\ ppc # "exit" /\ UNCHANGED in_running
              /\ ppc # "end"
           \/ ppc' \in {"exit", "over"} 
    BY <1>6, Zenon DEF PRequest, PReady, PEnd, PExit
  <2>2. Named' BY <1>1, <1>2, <2>1, Zenon DEF Rules, Named
  <2>3. Joinable' BY <1>1, <2>1, Zenon DEF Rules, Joinable
  <2>4. Stopped' BY <1>1, <1>2, <2>1, Zenon DEF Rules, Stopped, Behind
  <2> QED BY <1>2, <1>3, <2>2, <2>3, <2>4 DEF Rules
<1> QED BY <1>4, <1>5, <1>6, Zenon DEF Prefetcher, PrefetchMain

-----------------------------------------------------------------------------
(***************************************************************************)
(* The blocks on their way from the file to the decoder, for files,        *)
(* buffers, caches and reads of any size: they make up a chain from where  *)
(* the reader stands to where the prefetch thread stands, as long as       *)
(* nobody has asked the player to stop.  So the reader has the blocks in   *)
(* order, and a mark of the end that it takes means the end of the file.   *)
(***************************************************************************)
\* The buffer b of the file f goes on at unit e, and what follows it.
Follows(f, e, b) ==
    /\ b.file = f
    /\ b.rc >= 0
    /\ IF b.dbflag = 1 THEN b.start = 0 /\ e = Size[f] ELSE b.start = e
    /\ b.rc = 0 => b.start = Size[f]
After(b) == b.start + b.rc

\* Where the reader, the last buffer taken, the last one ready stand.
ReaderAt == out + IF tmp.size > 0 THEN tmp.size ELSE 0
TakenAt == IF rd = "copy" THEN After(taken) ELSE ReaderAt
ReadyAt == IF ready = <<>> THEN TakenAt ELSE After(ready[Len(ready)])

Chain ==
    /\ tmp.size > 0 => tmp.start = out
    /\ rd = "copy" => rlen > 0
    /\ rd \in {"enter", "take", "copy"} /\ rlen > 0 => tmp.size = 0
    /\ rd = "copy" => Follows(chan.file, ReaderAt, taken)
    /\ ready # <<>> => Follows(chan.file, TakenAt, ready[1])
    /\ \A i \in 1 .. Len(ready) - 1 :
          Follows(chan.file, After(ready[i]), ready[i + 1])
    /\ IF ppc = "ready" THEN Follows(chan.file, ReadyAt, pbuf) /\ chan.pos = After(pbuf)
       ELSE chan.pos = ReadyAt

Flow == Asked /\ abort_flag = 0 => Chain
Kept == Asked /\ tmp.size > 0 => tmp.start = out

\* Every block on its way is of the open file.
OfFile ==
    /\ \A i \in 1 .. Len(ready) : ready[i].rc > 0 => ready[i].file = chan.file
    /\ ppc = "ready" /\ pbuf.rc > 0 => pbuf.file = chan.file
    /\ rd = "copy" /\ taken.rc > 0 => taken.file = chan.file

\* The types the blocks need.
Shapes ==
    /\ chan \in [file : Files \cup {None}, pos : Nat]
    /\ ready \in Seq(Buffer) /\ pbuf \in Buffer /\ taken \in Buffer
    /\ tmp \in [start : Nat, size : -1 .. BSize]
    /\ rlen \in Nat /\ out \in Nat /\ abort_flag \in {0, 1}

PlayInv ==
    /\ Places /\ Shapes /\ repeat_cnt \in Int /\ Calling
    /\ Rules /\ Flow /\ Kept /\ OfFile

----------------------------------------------------------------------------
(* The blocks on their way.                                                *)

LEMMA BufferIs ==
  ASSUME NEW b \in Buffer
  PROVE  b.start \in Nat /\ b.rc \in -1 .. BSize /\ b.rc \in Int /\ After(b) \in Int
BY PrefetchAssumption DEF Buffer, After

\* Steps that move nothing, or empty the cache.
LEMMA FileKept ==
  ASSUME OfFile, ready' \in {ready, <<>>}, chan'.file = chan.file,
         ppc' = "ready" => ppc = "ready" /\ pbuf' = pbuf,
         rd' = "copy" => rd = "copy" /\ taken' = taken
  PROVE  OfFile'
BY DEF OfFile

LEMMA Moves ==
  ASSUME ready \in Seq(Buffer), ready # <<>>
  PROVE  /\ Head(ready) = ready[1] /\ Tail(ready) \in Seq(Buffer) /\ ready[1] \in Buffer
         /\ Len(Tail(ready)) = Len(ready) - 1 /\ Len(ready) \in Nat /\ Len(ready) >= 1
         /\ \A i \in 1 .. Len(ready) - 1 : Tail(ready)[i] = ready[i + 1]
OBVIOUS

\* A buffer leaves the cache, and one enters it.
LEMMA TakeFile == ASSUME Shapes, OfFile, ReadTake PROVE OfFile'
<1>1. /\ UNCHANGED <<chan, ppc, pbuf>> /\ taken' = Head(ready) /\ ready' = Tail(ready)
      /\ ready # <<>>
  BY Zenon DEF ReadTake, ReadUnchanged, prefetchVars
<1>2. ready \in Seq(Buffer) BY Zenon DEF Shapes
<1>3. /\ taken' = ready[1] /\ Len(ready') = Len(ready) - 1 /\ Len(ready) \in Nat /\ Len(ready) >= 1
      /\ \A i \in 1 .. Len(ready) - 1 : ready'[i] = ready[i + 1]
  BY <1>1, <1>2, Moves, Zenon
<1> QED BY <1>1, <1>3 DEF OfFile

LEMMA PutFile ==
  ASSUME Shapes, OfFile, NEW b \in Buffer, ready' = Append(ready, b), b.rc > 0 => b.file = chan.file,
         chan' = chan, ppc' # "ready" \/ UNCHANGED <<ppc, pbuf>>, UNCHANGED <<rd, taken>>
  PROVE  OfFile'
<1>1. /\ Len(ready') = Len(ready) + 1 /\ ready'[Len(ready) + 1] = b /\ Len(ready) \in Nat
      /\ \A i \in 1 .. Len(ready) : ready'[i] = ready[i]
  BY DEF Shapes
<1>2. ASSUME NEW i \in 1 .. Len(ready'), ready'[i].rc > 0 PROVE ready'[i].file = chan.file
  <2>1. i \in 1 .. Len(ready) \/ i = Len(ready) + 1 BY <1>1
  <2> QED BY <1>1, <1>2, <2>1, Zenon DEF OfFile
<1> QED BY <1>2, Zenon DEF OfFile

\* The reader's and the prefetch thread's places do not move.
LEMMA ChainKept ==
  ASSUME Chain, UNCHANGED <<chan, tmp, out, rlen, taken, ready, pbuf>>,
         ppc' = "ready" <=> ppc = "ready", rd' = "copy" <=> rd = "copy",
         rd' \in {"enter", "take"} => rd \in {"enter", "take"}
  PROVE  Chain'
BY Zenon DEF Chain, ReaderAt, TakenAt, ReadyAt

\* An engine that was just opened or reset.
LEMMA ChainFresh ==
  ASSUME ready' = <<>>, out' = 0, tmp' = [start |-> 0, size |-> 0], chan'.pos = 0,
         ppc' # "ready", rd' = "none"
  PROVE  Chain'
BY DEF Chain, ReaderAt, TakenAt, ReadyAt

\* A read first takes what is left of the last buffer.
LEMMA ChainBegin ==
  ASSUME Shapes, Chain, abort_flag = 0, NEW len \in ReadLens, ReadBegin(len)
  PROVE  Chain'
<1>1. UNCHANGED <<chan, ppc, pbuf, ready, taken>> /\ rd = "none" /\ rd' # "copy" /\ rd' # "take"
  BY Zenon DEF ReadBegin, ReadUnchanged, prefetchVars, cacheVars
<1>2. len \in Nat /\ tmp.size \in Int /\ tmp.start \in Nat
  BY StreamMpegAssumption, PrefetchAssumption DEF Shapes
<1>3. /\ ReaderAt' = ReaderAt /\ (tmp'.size > 0 => tmp'.start = out')
      /\ rd' = "enter" => tmp'.size = 0
  <2>1. CASE tmp.size < 0
    BY <1>2, <2>1 DEF ReadBegin, ReaderAt, Chain, Shapes
  <2>2. CASE tmp.size > len
    <3>1. out' = out + len /\ tmp' = [start |-> tmp.start + len, size |-> tmp.size - len]
          /\ rd' = "done"
      BY <1>2, <2>2 DEF ReadBegin
    <3>2. out \in Nat /\ (tmp.size > 0 => tmp.start = out) BY Zenon DEF Shapes, Chain
    <3>3. tmp'.size = tmp.size - len /\ tmp'.start = tmp.start + len BY <3>1, Zenon
    <3> QED BY <1>2, <2>2, <3>1, <3>2, <3>3 DEF ReaderAt
  <2>3. CASE tmp.size >= 0 /\ ~(tmp.size > len)
    <3>1. out' = out + tmp.size /\ tmp' = [start |-> 0, size |-> 0]
      BY <1>2, <2>3 DEF ReadBegin
    <3> QED BY <1>2, <2>3, <3>1 DEF ReaderAt, Shapes
  <2> QED BY <1>2, <2>1, <2>2, <2>3
<1>4. TakenAt' = TakenAt BY <1>1, <1>3, Zenon DEF TakenAt
<1>5. ReadyAt' = ReadyAt BY <1>1, <1>4, Zenon DEF ReadyAt
<1> QED BY <1>1, <1>3, <1>4, <1>5, Zenon DEF Chain

\* The reader takes a buffer, and copies what it can use of it.
LEMMA ChainTake == ASSUME Shapes, Chain, ReadTake PROVE Chain'
<1>1. /\ UNCHANGED <<chan, ppc, pbuf, tmp, out, rlen>> /\ rlen > 0 /\ rd = "take" /\ rd' = "copy"
      /\ taken' = Head(ready) /\ ready' = Tail(ready) /\ ready # <<>>
  BY Zenon DEF ReadTake, ReadUnchanged, prefetchVars
<1>2. ready \in Seq(Buffer) BY DEF Shapes
<1>3. /\ taken' = ready[1] /\ Len(ready') = Len(ready) - 1 /\ Len(ready) \in Nat /\ Len(ready) >= 1
      /\ ready' \in Seq(Buffer) /\ \A i \in 1 .. Len(ready) - 1 : ready'[i] = ready[i + 1]
  BY <1>1, <1>2, Moves, Zenon
<1>4. ReaderAt' = ReaderAt BY <1>1, Zenon DEF ReaderAt
<1>5. TakenAt = ReaderAt /\ TakenAt' = After(ready[1]) BY <1>1, <1>3, Zenon DEF TakenAt, After
<1>6. ReadyAt' = ReadyAt
  <2>1. CASE Len(ready) = 1
    <3>1. ready' = <<>> BY <1>3, <2>1
    <3> QED BY <1>1, <1>5, <2>1, <3>1, Zenon DEF ReadyAt
  <2>2. CASE Len(ready) # 1
    <3>1. ready' # <<>> /\ ready'[Len(ready')] = ready[Len(ready)] BY <1>3, <2>2
    <3> QED BY <1>1, <3>1, Zenon DEF ReadyAt, After
  <2> QED BY <2>1, <2>2, Zenon
<1>7. ready' # <<>> => Follows(chan.file, After(ready[1]), ready'[1])
  <2> SUFFICES ASSUME ready' # <<>> PROVE Follows(chan.file, After(ready[1]), ready'[1]) BY Zenon
  <2>1. Len(ready) > 1 BY <1>3
  <2>2. 1 \in 1 .. Len(ready) - 1 /\ ready'[1] = ready[1 + 1] BY <1>3, <2>1
  <2> QED BY <2>2, Zenon DEF Chain
<1>8. ASSUME NEW i \in 1 .. Len(ready') - 1
      PROVE  Follows(chan.file, After(ready'[i]), ready'[i + 1])
  <2>1. ready'[i] = ready[i + 1] /\ ready'[i + 1] = ready[(i + 1) + 1]
        /\ i + 1 \in 1 .. Len(ready) - 1
    BY <1>3, <1>8
  <2> QED BY <2>1, Zenon DEF Chain
<1> QED BY <1>1, <1>3, <1>4, <1>5, <1>6, <1>7, <1>8, Zenon DEF Chain

LEMMA ChainCopy == ASSUME Shapes, Chain, ReadCopy PROVE Chain'
<1>1. /\ UNCHANGED <<chan, ppc, pbuf, ready>> /\ rd = "copy" /\ rd' = "take"
  BY Zenon DEF ReadCopy, ReadUnchanged, prefetchVars
<1>2. /\ rlen \in Nat /\ rlen > 0 /\ tmp.size = 0 /\ taken.rc >= 0 /\ taken.rc \in Int
      /\ taken.start \in Nat /\ out \in Nat
  BY <1>1, BufferIs, Zenon DEF Shapes, Chain, Follows
<1>3. /\ ReaderAt' = After(taken) /\ (tmp'.size > 0 => tmp'.start = out')
      /\ rlen' > 0 => tmp'.size = 0
  <2>1. CASE taken.rc = 0
    <3>1. tmp' = [start |-> 0, size |-> -1] /\ out' = out /\ rlen' = 0
      BY <1>2, <2>1, Zenon DEF ReadCopy
    <3>2. taken.start = out
      <4>1. ReaderAt = out BY <1>2 DEF ReaderAt
      <4> QED BY <1>1, <2>1, <4>1, Zenon DEF Chain, Follows
    <3> QED BY <1>2, <2>1, <3>1, <3>2 DEF ReaderAt, After
  <2>2. CASE taken.rc > 0 /\ taken.rc > rlen
    <3>1. tmp' = [start |-> taken.start + rlen, size |-> taken.rc - rlen]
          /\ out' = taken.start + rlen /\ rlen' = 0
      BY <1>2, <2>2 DEF ReadCopy, Least
    <3> QED BY <1>2, <2>2, <3>1 DEF ReaderAt, After
  <2>3. CASE taken.rc > 0 /\ ~(taken.rc > rlen)
    <3>1. tmp' = tmp /\ out' = taken.start + taken.rc
      BY <1>2, <2>3 DEF ReadCopy, Least
    <3> QED BY <1>2, <2>3, <3>1 DEF ReaderAt, After
  <2> QED BY <1>2, <2>1, <2>2, <2>3
<1>4. TakenAt' = TakenAt BY <1>1, <1>3, Zenon DEF TakenAt
<1>5. ReadyAt' = ReadyAt BY <1>1, <1>4, Zenon DEF ReadyAt
<1> QED BY <1>1, <1>3, <1>4, <1>5, Zenon DEF Chain

\* The prefetch thread hands its buffer over.
LEMMA ChainReady == ASSUME Shapes, Chain, PReady PROVE Chain'
<1>1. /\ UNCHANGED <<chan, tmp, out, rlen, taken, rd>> /\ ppc = "ready" /\ ppc' # "ready"
      /\ ready' = Append(ready, pbuf)
  BY Zenon DEF PReady, readVars
<1>2. /\ Len(ready') = Len(ready) + 1 /\ ready'[Len(ready) + 1] = pbuf /\ Len(ready) \in Nat
      /\ \A i \in 1 .. Len(ready) : ready'[i] = ready[i]
  BY <1>1 DEF Shapes
<1>3. ReaderAt' = ReaderAt /\ TakenAt' = TakenAt BY <1>1, Zenon DEF ReaderAt, TakenAt, After
<1>4. ready' # <<>> /\ ReadyAt' = After(pbuf)
  <2>1. ready' # <<>> BY <1>2
  <2> QED BY <1>2, <2>1, Zenon DEF ReadyAt, After
<1>5. Follows(chan.file, TakenAt, ready'[1])
  <2>1. CASE ready = <<>> BY <1>1, <1>2, <2>1 DEF Chain, ReadyAt
  <2>2. CASE ready # <<>>
    <3>1. ready'[1] = ready[1] BY <1>2, <2>2 DEF Shapes
    <3> QED BY <2>2, <3>1, Zenon DEF Chain
  <2> QED BY <2>1, <2>2, Zenon
<1>6. ASSUME NEW i \in 1 .. Len(ready') - 1
      PROVE  Follows(chan.file, After(ready'[i]), ready'[i + 1])
  <2>1. CASE i = Len(ready)
    <3>1. ready # <<>> /\ ready'[i] = ready[Len(ready)] /\ ready'[i + 1] = pbuf
      BY <1>2, <1>6, <2>1
    <3> QED BY <1>1, <3>1, Zenon DEF Chain, ReadyAt
  <2>2. CASE i # Len(ready)
    <3>1. i \in 1 .. Len(ready) - 1 /\ ready'[i] = ready[i] /\ ready'[i + 1] = ready[i + 1]
      BY <1>2, <1>6, <2>2
    <3> QED BY <3>1, Zenon DEF Chain
  <2> QED BY <2>1, <2>2, Zenon
<1> QED BY <1>1, <1>3, <1>4, <1>5, <1>6, Zenon DEF Chain

\* A buffer that is filled where the channel stands, or from the beginning
\* once the channel stands at the end.
LEMMA ChainFill ==
  ASSUME Shapes, Named, Chain, chan.file # None, cut = 0, abort_flag = 0, repeat_cnt \in Int, PFill
  PROVE  Chain'
<1>1. /\ UNCHANGED <<tmp, out, rlen, taken, rd, ready>> /\ ppc = "fill" /\ ppc' = "ready" /\ PFillRead
  BY DEF PFill, readVars, cacheVars
<1>2. /\ ReaderAt' = ReaderAt /\ TakenAt' = TakenAt /\ ReadyAt' = ReadyAt
  BY <1>1, Zenon DEF ReaderAt, TakenAt, ReadyAt, After
<1>3. chan.pos = ReadyAt BY <1>1, Zenon DEF Chain
<1>4. /\ Size[chan.file] \in Nat /\ BSize \in Nat /\ BSize > 0 /\ chan.pos \in Nat
      /\ chan.pos <= Size[chan.file]
  BY PrefetchAssumption DEF Shapes, Named
<1>5. /\ chan'.file = chan.file /\ Follows(chan.file, ReadyAt, pbuf') /\ chan'.pos = After(pbuf')
  <2>1. Outcomes(chan) = {Least(BSize, Size[chan.file] - chan.pos)}
    BY DEF Outcomes, ReadAt
  <2>2. Outcomes([chan EXCEPT !.pos = 0]) = {Least(BSize, Size[chan.file])}
    BY <1>4 DEF Outcomes, ReadAt, Shapes
  <2>3. PICK n \in Outcomes(chan) :
          IF n > 0 \/ repeat_cnt = 0 THEN Filled(chan, n, 0)
          ELSE \E m \in Outcomes([chan EXCEPT !.pos = 0]) : Filled([chan EXCEPT !.pos = 0], m, 1)
    BY <1>1, Zenon DEF PFillRead
  <2>4. n = Least(BSize, Size[chan.file] - chan.pos) BY <2>1, <2>3, Zenon
  <2>5. CASE n > 0 \/ repeat_cnt = 0
    <3>1. /\ pbuf' = [file |-> chan.file, start |-> chan.pos, rc |-> n, dbflag |-> 0]
          /\ chan' = [chan EXCEPT !.pos = @ + n]
      BY Zenon, <2>3, <2>5 DEF Filled
    <3>2. n \in Int /\ n >= 0 /\ (n = 0 => chan.pos = Size[chan.file])
      BY <1>4, <2>4 DEF Least
    <3>3. chan'.file = chan.file /\ chan'.pos = chan.pos + n BY <3>1, Zenon DEF Shapes
    <3> QED BY <1>3, <3>1, <3>2, <3>3 DEF Follows, After
  <2>6. CASE ~(n > 0 \/ repeat_cnt = 0)
    <3>1. chan.pos = Size[chan.file] BY <1>4, <2>4, <2>6 DEF Least
    <3>2. Filled([chan EXCEPT !.pos = 0], Least(BSize, Size[chan.file]), 1)
      BY <2>2, <2>3, <2>6, Zenon
    <3> DEFINE m == Least(BSize, Size[chan.file])
    <3>3. m \in Int /\ m >= 0 /\ (m = 0 => Size[chan.file] = 0) BY <1>4 DEF Least
    <3> HIDE DEF m
    <3>4. /\ pbuf' = [file |-> chan.file, start |-> 0, rc |-> m, dbflag |-> 1]
          /\ chan'.file = chan.file /\ chan'.pos = 0 + m
      BY <3>2, Zenon DEF Filled, Shapes, m
    <3> QED BY <1>3, <3>1, <3>3, <3>4, Zenon DEF Follows, After
  <2> QED BY <2>5, <2>6, Zenon
<1> QED BY <1>1, <1>2, <1>5, Zenon DEF Chain

----------------------------------------------------------------------------
(* Types.                                                                  *)

LEMMA MarkIs == \A n \in -1 .. 0 : Mark(n) \in Buffer /\ Mark(n).rc = n
BY PrefetchAssumption DEF Mark, Buffer

\* The engine's part of a step.
Opens(f) ==
    Doing(C, "open") /\ Open(f) /\ Calls(<<"start">>) /\ UNCHANGED <<mpc, terminate>>
EngineStep ==
    \/ \E t \in {C, M} : (\E aborts \in BOOLEAN : CloseBegin(t, aborts)) \/ CloseStep(t) \/ CloseClean(t)
    \/ (Reset /\ Doing(M, "reopen"))
    \/ (\E f \in Files : Opens(f))
    \/ (OpenFails /\ Doing(C, "open"))
    \/ (\E r \in Repeats : SetRepeat(r))
    \/ (\E len \in ReadLens : ReadBegin(len)) \/ ReadStep \/ PrefetchMain

LEMMA BeginShapes ==
  ASSUME Shapes, NEW len \in ReadLens, ReadBegin(len)
  PROVE  Shapes'
<1>1. UNCHANGED <<chan, ready, pbuf, taken, abort_flag>>
  BY Zenon DEF ReadBegin, ReadUnchanged, prefetchVars, cacheVars
<1>2. len \in Nat /\ tmp.size \in -1 .. BSize /\ BSize \in Nat /\ tmp.start \in Nat
      /\ out \in Nat /\ rlen \in Nat /\ abort_flag \in {0, 1}
  BY StreamMpegAssumption, PrefetchAssumption, Zenon DEF Shapes
<1>3. CASE abort_flag = 1 \/ tmp.size < 0
  BY <1>1, <1>2, <1>3 DEF ReadBegin, Shapes
<1>4. CASE abort_flag = 0 /\ tmp.size > len
  <2>1. out' = out + len /\ tmp' = [start |-> tmp.start + len, size |-> tmp.size - len]
        /\ rlen' = rlen
    BY <1>2, <1>4 DEF ReadBegin
  <2> QED BY <1>1, <1>2, <1>4, <2>1 DEF Shapes
<1>5. CASE abort_flag = 0 /\ tmp.size >= 0 /\ ~(tmp.size > len)
  <2>1. out' = out + tmp.size /\ tmp' = [start |-> 0, size |-> 0] /\ rlen' = len - tmp.size
    BY <1>2, <1>5 DEF ReadBegin
  <2> QED BY <1>1, <1>2, <1>5, <2>1 DEF Shapes
<1> QED BY <1>2, <1>3, <1>4, <1>5

LEMMA CopyShapes ==
  ASSUME Shapes, ReadCopy
  PROVE  Shapes'
<1>1. UNCHANGED <<chan, ready, pbuf, abort_flag>> /\ taken' = Mark(0)
  BY Zenon DEF ReadCopy, ReadUnchanged, prefetchVars
<1>2. taken' \in Buffer BY <1>1, MarkIs
<1>3. /\ rlen \in Nat /\ taken.rc \in -1 .. BSize /\ taken.start \in Nat /\ BSize \in Nat
      /\ out \in Nat /\ tmp \in [start : Nat, size : -1 .. BSize]
  BY BufferIs, PrefetchAssumption, Zenon DEF Shapes
<1>4. CASE taken.rc <= 0
  <2>1. tmp' = [start |-> 0, size |-> -1] /\ rlen' = 0 /\ out' = out
    BY <1>4, Zenon DEF ReadCopy
  <2> QED BY <1>1, <1>2, <1>3, <2>1 DEF Shapes
<1>5. CASE taken.rc > 0 /\ taken.rc > rlen
  <2>1. tmp' = [start |-> taken.start + rlen, size |-> taken.rc - rlen]
        /\ out' = taken.start + rlen /\ rlen' = rlen - rlen
    BY <1>3, <1>5 DEF ReadCopy, Least
  <2>2. tmp' \in [start : Nat, size : -1 .. BSize] BY <1>3, <1>5, <2>1
  <2>3. out' \in Nat /\ rlen' \in Nat BY <1>3, <2>1
  <2> QED BY <1>1, <1>2, <2>2, <2>3, Zenon DEF Shapes
<1>6. CASE taken.rc > 0 /\ ~(taken.rc > rlen)
  <2>1. tmp' = tmp /\ out' = taken.start + taken.rc /\ rlen' = rlen - taken.rc
    BY <1>3, <1>6 DEF ReadCopy, Least
  <2>2. out' \in Nat /\ rlen' \in Nat BY <1>3, <1>6, <2>1
  <2> QED BY <1>1, <1>2, <1>3, <2>1, <2>2, Zenon DEF Shapes
<1> QED BY <1>3, <1>4, <1>5, <1>6

LEMMA EngineShapes ==
  ASSUME Places, Shapes, Named, repeat_cnt \in Int, EngineStep
  PROVE  Shapes'
<1>0. \A b \in Buffer : Append(ready, b) \in Seq(Buffer) BY DEF Shapes
<1>1. Mark(0) \in Buffer /\ Mark(-1) \in Buffer BY MarkIs
<1>2. <<>> \in Seq(Buffer) OBVIOUS
<1>3. ASSUME NEW t \in {C, M}, NEW aborts \in BOOLEAN, CloseBegin(t, aborts) PROVE Shapes'
  BY <1>3, Zenon DEF CloseBegin, CloseUnchanged, ReaderUnchanged, readVars, prefetchVars, cacheVars, Shapes
<1>4. ASSUME NEW t \in {C, M}, CloseStep(t) PROVE Shapes'
  <2>1. UNCHANGED <<chan, pbuf, taken, tmp, rlen, out, abort_flag>>
        /\ (ready' = ready \/ ready' = <<>> \/ ready' = Append(ready, Mark(-1)))
    BY <1>4, Zenon DEF CloseStep, CloseFlush, CloseStop, CloseJoin, CloseMark, ClosePut, CloseReader,
         ClosePrefetch, CloseUnchanged, ReaderUnchanged, readVars, prefetchVars, cacheVars
  <2>2. ready' \in Seq(Buffer) BY Zenon, <1>0, <1>1, <1>2, <2>1 DEF Shapes
  <2> QED BY <2>1, <2>2, Zenon DEF Shapes
<1>5. ASSUME NEW t \in {C, M}, CloseClean(t) PROVE Shapes'
  BY <1>2, <1>5, PrefetchAssumption DEF CloseClean, CloseUnchanged, prefetchVars, Shapes
<1>6. ASSUME Reset \/ (\E f \in Files : Opens(f)) PROVE Shapes'
  <2>1. /\ tmp' = [start |-> 0, size |-> 0] /\ abort_flag' = 0 /\ ready' = <<>> /\ out' = 0
        /\ UNCHANGED <<pbuf, rlen, taken>>
    BY <1>6, Zenon DEF Reset, Opens, Open, OpenStep1
  <2>2. chan' \in [file : Files \cup {None}, pos : Nat]
    BY <1>6 DEF Reset, Opens, Open, Shapes
  <2> QED BY <1>2, <2>1, <2>2, PrefetchAssumption DEF Shapes
<1>7. ASSUME OpenFails PROVE Shapes'
  BY <1>7, Zenon DEF OpenFails, readVars, prefetchVars, cacheVars, Shapes
<1>8. ASSUME NEW r \in Repeats, SetRepeat(r) PROVE Shapes'
  BY <1>8, Zenon DEF SetRepeat, readVars, prefetchVars, cacheVars, Shapes
<1>9. ASSUME ReadEnter \/ ReadLeave PROVE Shapes'
  BY <1>9, Zenon DEF ReadEnter, ReadLeave, ReadUnchanged, prefetchVars, cacheVars, Shapes
<1>10. ASSUME ReadTake PROVE Shapes'
  <2>1. /\ UNCHANGED <<chan, pbuf, tmp, rlen, out, abort_flag>> /\ ready # <<>>
        /\ taken' = Head(ready) /\ ready' = Tail(ready)
    BY <1>10, Zenon DEF ReadTake, ReadUnchanged, prefetchVars
  <2>2. taken' \in Buffer /\ ready' \in Seq(Buffer) BY <2>1, Moves, Zenon DEF Shapes
  <2> QED BY <2>1, <2>2, Zenon DEF Shapes
<1>11. ASSUME PFill PROVE Shapes'
  <2>1. UNCHANGED <<ready, taken, tmp, rlen, out, abort_flag>>
    BY <1>11, Zenon DEF PFill, readVars, cacheVars
  <2> QED BY <1>11, <2>1, FillPlace, Zenon DEF Shapes, FillLeaves
<1>12. ASSUME PReady PROVE Shapes'
  BY <1>0, <1>1, <1>12, Zenon DEF PReady, readVars, Shapes
<1>13. ASSUME PBegin \/ PRequest \/ PEnd \/ PExit \/ PNever PROVE Shapes'
  BY <1>13, Zenon DEF PBegin, PRequest, PEnd, PExit, PNever, readVars, cacheVars, Shapes
<1> QED BY <1>3, <1>4, <1>5, <1>6, <1>7, <1>8, <1>9, <1>10, <1>11, <1>12, <1>13, BeginShapes, CopyShapes
        DEF EngineStep, ReadStep, PrefetchMain

LEMMA EnginePlaces ==
  ASSUME Places, Shapes', EngineStep
  PROVE  Places'
<1> USE DEF Places
<1>1. chan' \in [file : Files \cup {None}, pos : Nat] BY Zenon DEF Shapes
<1>2. ASSUME NEW t \in {C, M}, NEW aborts \in BOOLEAN, CloseBegin(t, aborts) PROVE Places'
  BY <1>1, <1>2, Two, Zenon DEF CloseBegin
<1>3. ASSUME NEW t \in {C, M}, CloseStep(t) \/ CloseClean(t) PROVE Places'
  <2>1. PICK k \in {"none", "stop", "join", "mark", "put", "reader", "prefetch", "clean"} :
          kpc' = [kpc EXCEPT ![t] = k]
    BY <1>3, Zenon DEF CloseStep, CloseFlush, CloseStop, CloseJoin, CloseMark, ClosePut, CloseReader,
          ClosePrefetch, CloseClean
  <2> QED BY <1>1, <2>1, Two, Zenon
<1>4. ASSUME Reset \/ (\E f \in Files : Opens(f)) PROVE Places'
  <2>1. kpc' = kpc \/ kpc' = [t \in Threads |-> IF kpc[t] = "join" THEN "mark" ELSE kpc[t]]
    BY <1>4, Zenon DEF Reset, Opens, Open, OpenStep1
  <2> QED BY <1>1, <2>1, Zenon
<1>5. ASSUME OpenFails \/ (\E r \in Repeats : SetRepeat(r)) PROVE Places'
  BY <1>1, <1>5, Zenon DEF OpenFails, SetRepeat
<1>6. ASSUME (\E len \in ReadLens : ReadBegin(len)) \/ ReadStep PROVE Places'
  <2>1. kpc' = kpc BY <1>6, Zenon DEF ReadBegin, ReadStep, ReadEnter, ReadTake, ReadCopy, ReadLeave, ReadUnchanged
  <2> QED BY <1>1, <2>1, Zenon
<1>7. ASSUME PrefetchMain PROVE Places'
  <2>1. kpc' = kpc
    BY <1>7, Zenon DEF PrefetchMain, PBegin, PRequest, PFill, PReady, PEnd, PExit, PNever
  <2> QED BY <1>1, <2>1
<1> QED BY Zenon, <1>2, <1>3, <1>4, <1>5, <1>6, <1>7 DEF EngineStep

\* Every step of the player is one of the engine's or leaves it alone.
LEMMA NextEngine ==
  ASSUME [Next]_mpegVars
  PROVE  EngineStep \/ UNCHANGED vars \/ FirstResult \/ Result
<1>1. CASE Control
  <2>1. ASSUME EngineClose(C) PROVE EngineStep BY Zenon, <2>1 DEF EngineClose, EngineStep
  <2> QED BY <1>1, <2>1, Zenon DEF Control, Join, OpenFile, Opens, stm_start, stm_wait_for_playing, EngineStep
<1>2. CASE Request
  BY <1>2, Zenon DEF Request, stm_stop, stm_open, set_repeat, stm_reset, EngineStep
<1>3. CASE Player
  <2>1. ASSUME EngineClose(M) \/ EngineReset(M) PROVE EngineStep
    BY Zenon, <2>1 DEF EngineClose, EngineReset, EngineStep
  <2> QED BY <1>3, <2>1, Zenon DEF Player, FirstRead, StartPlaying, Play, Push, Read, Over, EngineStep
<1>4. CASE Prefetcher BY <1>4, Zenon DEF Prefetcher, EngineStep
<1>5. CASE UNCHANGED mpegVars BY <1>5, Zenon DEF mpegVars
<1> QED BY <1>1, <1>2, <1>3, <1>4, <1>5, Zenon DEF Next

LEMMA TypeStep ==
  ASSUME Places, Shapes, repeat_cnt \in Int, Named, [Next]_mpegVars
  PROVE  Places' /\ Shapes' /\ repeat_cnt' \in Int
<1>1. CASE EngineStep
  <2>1. Shapes' BY <1>1, EngineShapes, Zenon
  <2>2. Places' BY <1>1, <2>1, EnginePlaces, Zenon
  <2>3. repeat_cnt' \in Int
    <3>1. CASE PFill BY <3>1, FillPlace, Zenon
    <3>2. CASE EngineStep /\ ~PFill
      <4>1. repeat_cnt' = repeat_cnt \/ repeat_cnt' = 0 \/ repeat_cnt' \in Repeats
        BY <3>2, Zenon DEF EngineStep, CloseBegin, CloseStep, CloseFlush, CloseStop, CloseJoin,
           CloseMark, ClosePut, CloseReader, ClosePrefetch, CloseClean, CloseUnchanged, Reset, Opens, Open,
           OpenStep1, OpenFails, SetRepeat, ReadBegin, ReadStep, ReadEnter, ReadTake, ReadCopy,
           ReadLeave, ReadUnchanged, PrefetchMain, PBegin, PRequest, PReady, PEnd, PExit, PNever
      <4>2. Repeats \subseteq Int /\ 0 \in Int BY PrefetchAssumption
      <4> QED BY Zenon, <4>1, <4>2
    <3> QED BY <1>1, <3>1, <3>2, Zenon
  <2> QED BY <2>1, <2>2, <2>3, Zenon
<1>2. CASE UNCHANGED vars \/ FirstResult \/ Result
  BY <1>2, Zenon DEF vars, FirstResult, Result, Places, Shapes, prefetchVars, readVars, cacheVars
<1> QED BY <1>1, <1>2, NextEngine, Zenon

----------------------------------------------------------------------------
(* The invariant.                                                          *)

LEMMA PlayInitially == MInit => PlayInv
<1> SUFFICES ASSUME MInit PROVE PlayInv BY Zenon
<1>1. /\ todo = [t \in Threads |-> <<>>] /\ kpc = [t \in Threads |-> "none"]
      /\ mpc = "off" /\ terminate = 0 /\ rd = "none" /\ ppc = "off"
      /\ abort_flag = 0 /\ cut = 0 /\ ready = <<>>
  BY Zenon DEF MInit, Init
<1>2. /\ chan = [file |-> None, pos |-> 0] /\ tmp = [start |-> 0, size |-> 0]
      /\ pbuf = Mark(0) /\ taken = Mark(0) /\ rlen = 0 /\ out = 0 /\ repeat_cnt = 0
  BY Zenon DEF MInit, Init
<1>3. Calling BY <1>1, Two, Zenon DEF Calling, ControlCalls, PlayerCalls
<1>4. Call(C) = "none" /\ Call(M) = "none" /\ kpc[C] = "none" /\ kpc[M] = "none"
  BY <1>1, Two, Zenon DEF Call, First
<1>5. Places BY <1>1, <1>2, Zenon DEF Places
<1>6. Shapes
  <2>1. Mark(0) \in Buffer BY MarkIs
  <2>2. <<>> \in Seq(Buffer) OBVIOUS
  <2> QED BY <1>1, <1>2, <2>1, <2>2, PrefetchAssumption DEF Shapes
<1>7. Rules
  <2>1. chan.file = None /\ chan.pos = 0 BY <1>2, Zenon
  <2>2. Script /\ Named BY <1>1, <1>4, <2>1, Zenon DEF Script, Named
  <2>3. Joinable /\ Stopped BY <1>1, <1>4, Zenon DEF Joinable, Stopped, Behind
  <2>4. Undisturbed BY <1>1, <1>4, Zenon DEF Undisturbed
  <2> QED BY <2>2, <2>3, <2>4, Zenon DEF Rules
<1>8. Chain BY <1>1, <1>2 DEF Chain, ReaderAt, TakenAt, ReadyAt
<1>9. OfFile BY <1>1 DEF OfFile
<1>10. Kept BY <1>2, Zenon DEF Kept
<1>11. repeat_cnt \in Int BY <1>2
<1> QED BY <1>3, <1>5, <1>6, <1>7, <1>8, <1>9, <1>10, <1>11, Zenon DEF PlayInv, Flow

LEMMA RulesStep ==
  ASSUME PlayInv, [Next]_mpegVars
  PROVE  Calling' /\ Rules'
<1>0. Places /\ Calling /\ Rules /\ repeat_cnt \in Int BY Zenon DEF PlayInv
<1>1. ASSUME NEW t \in {C, M}, EngineClose(t) PROVE Calling' /\ Rules'
  <2>1. ASSUME NEW aborts \in BOOLEAN, CloseBegin(t, aborts), UNCHANGED <<todo, playVars>>,
               Call(t) \in {"abort", "close", "reset"}, aborts => Call(t) = "abort"
        PROVE  Calling' /\ Rules'
    BY <1>0, <2>1, BeginRules, CallsKept, Zenon
  <2>2. CASE Doing(t, "abort") /\ CloseBegin(t, TRUE) /\ UNCHANGED <<todo, playVars>>
    <3>1. Call(t) = "abort" BY <1>0, <2>2, DoingIs, Zenon
    <3> QED BY <2>1, <2>2, <3>1, Zenon
  <2>3. CASE Doing(t, "close") /\ CloseBegin(t, FALSE) /\ UNCHANGED <<todo, playVars>>
    <3>1. Call(t) = "close" BY <1>0, <2>3, DoingIs, Zenon
    <3> QED BY <2>1, <2>3, <3>1, Zenon
  <2>4. CASE Doing(t, "reset") /\ CloseBegin(t, FALSE) /\ UNCHANGED <<todo, playVars>>
    <3>1. Call(t) = "reset" BY <1>0, <2>4, DoingIs, Zenon
    <3> QED BY <2>1, <2>4, <3>1, Zenon
  <2>5. CASE CloseStep(t) /\ UNCHANGED <<todo, playVars>>
    BY <1>0, <2>5, CloseRules, CallsKept, Zenon
  <2>6. CASE CloseClean(t) /\ UNCHANGED playVars
             /\ todo' = [todo EXCEPT ![t] = IF Head(@) = "reset" THEN <<"reopen">> ELSE Tail(@)]
    BY <1>0, <2>6, CleanRules, Zenon
  <2> QED BY Zenon, <1>1, <2>2, <2>3, <2>4, <2>5, <2>6 DEF EngineClose
<1>2. CASE OpenFile
  <2>1. UNCHANGED <<mpc, terminate>> /\ Doing(C, "open") BY <1>2, Zenon DEF OpenFile
  <2>2. ASSUME NEW f \in Files, Open(f), Calls(<<"start">>) PROVE Calling' /\ Rules'
    BY <1>0, <2>1, <2>2, OpenRules, Zenon
  <2>3. ASSUME OpenFails, Done(C) PROVE Calling' /\ Rules'
    BY <1>0, <2>1, <2>3, OpenFailsRules, Zenon
  <2> QED BY <1>2, <2>2, <2>3, Zenon DEF OpenFile
<1>3. CASE Control
  BY <1>0, <1>1, <1>2, <1>3, ControlRules, Zenon DEF Control
<1>4. CASE Request
  BY <1>0, <1>4, ControlRules, ReadRules, Zenon DEF Request
<1>5. CASE Player
  <2>1. CASE EngineReset(M) BY <1>0, <2>1, ResetRules, Zenon
  <2>2. CASE EngineClose(M) BY <1>1, <2>2, Zenon
  <2>3. CASE ReadStep /\ UNCHANGED <<playVars, todo>> BY <1>0, <2>3, ReadRules, Zenon
  <2> QED BY <1>0, <1>5, <2>1, <2>2, <2>3, PlayerRules, Zenon DEF Player
<1>6. CASE Prefetcher BY <1>0, <1>6, PrefetchRules, Zenon
<1>7. CASE UNCHANGED mpegVars BY <1>0, <1>7, ReadRules, Zenon
<1> QED BY <1>3, <1>4, <1>5, <1>6, <1>7, Zenon DEF Next

LEMMA FileStep == ASSUME PlayInv, [Next]_mpegVars PROVE OfFile'
<1>0. Places /\ Shapes /\ Calling /\ Rules /\ Named /\ OfFile /\ repeat_cnt \in Int BY Zenon DEF PlayInv, Rules
<1>1. ASSUME ready' \in {ready, <<>>}, chan'.file = chan.file,
             ppc' # "ready" \/ UNCHANGED <<ppc, pbuf>>, rd' # "copy" \/ UNCHANGED <<rd, taken>>
      PROVE  OfFile'
  BY <1>0, <1>1, FileKept, Zenon
<1>2. CASE UNCHANGED vars \/ FirstResult \/ Result
  BY <1>1, <1>2, Zenon DEF vars, FirstResult, Result, prefetchVars, readVars, cacheVars
<1>3. ASSUME NEW t \in {C, M}, NEW aborts \in BOOLEAN, CloseBegin(t, aborts) PROVE OfFile'
  BY <1>1, <1>3, Zenon DEF CloseBegin, CloseUnchanged, ReaderUnchanged, prefetchVars, readVars, cacheVars
<1>4. ASSUME NEW t \in {C, M}, ClosePut(t) PROVE OfFile'
  <2>1. Mark(-1) \in Buffer /\ ~(Mark(-1).rc > 0) BY MarkIs
  <2>2. ready' = Append(ready, Mark(-1)) /\ UNCHANGED <<chan, ppc, pbuf, rd, taken>>
    BY <1>4, Zenon DEF ClosePut, CloseUnchanged, ReaderUnchanged, prefetchVars, readVars
  <2> QED BY <1>0, <2>1, <2>2, PutFile, Zenon
<1>5. ASSUME NEW t \in {C, M}, CloseStep(t), ~ClosePut(t) PROVE OfFile'
  <2>1. ready' \in {ready, <<>>} /\ UNCHANGED <<chan, pbuf, rd, taken>>
        /\ (ppc' # "ready" \/ UNCHANGED ppc)
    BY <1>5, Zenon DEF CloseStep, CloseFlush, CloseStop, CloseJoin, CloseMark, CloseReader, ClosePrefetch,
                CloseUnchanged, ReaderUnchanged, prefetchVars, readVars, cacheVars
  <2> QED BY <1>1, <2>1, Zenon
<1>6. ASSUME NEW t \in {C, M}, CloseClean(t) PROVE OfFile'
  BY <1>1, <1>6, Zenon DEF CloseClean, CloseUnchanged, prefetchVars
<1>7. ASSUME Reset \/ OpenFails PROVE OfFile'
  <2>1. chan'.file = chan.file BY <1>0, <1>7, Zenon DEF Reset, OpenFails, Shapes
  <2>2. ready' \in {ready, <<>>} /\ UNCHANGED <<pbuf, rd, taken>> /\ (ppc' # "ready" \/ UNCHANGED ppc)
    BY <1>7, Zenon DEF Reset, OpenFails, OpenStep1, prefetchVars, readVars, cacheVars
  <2> QED BY <1>1, <2>1, <2>2, Zenon
<1>8. ASSUME NEW f \in Files, Opens(f) PROVE OfFile'
  <2>1. ppc = "off" /\ rd = "none" BY <1>0, <1>8, OpenRules, Zenon DEF Opens
  <2>2. ready' = <<>> /\ ppc' = "made" /\ rd' = "none" BY <1>8, <2>1, Zenon DEF Opens, Open, OpenStep1
  <2> QED BY <2>2 DEF OfFile
<1>9. ASSUME NEW r \in Repeats, SetRepeat(r) PROVE OfFile'
  BY <1>1, <1>9, Zenon DEF SetRepeat, prefetchVars, readVars, cacheVars
<1>10. ASSUME (\E len \in ReadLens : ReadBegin(len)) \/ ReadEnter \/ ReadCopy \/ ReadLeave PROVE OfFile'
  BY <1>1, <1>10, Zenon DEF ReadBegin, ReadEnter, ReadCopy, ReadLeave, ReadUnchanged, prefetchVars, cacheVars
<1>11. CASE ReadTake BY <1>0, <1>11, TakeFile, Zenon
<1>12. CASE PFill
  <2>1. FillLeaves BY <1>0, <1>12, FillPlace, Zenon
  <2>2. UNCHANGED <<ready, rd, taken>> BY <1>12, Zenon DEF PFill, readVars, cacheVars
  <2> QED BY <1>0, <2>1, <2>2, Zenon DEF FillLeaves, OfFile
<1>13. CASE PReady
  <2>1. ready' = Append(ready, pbuf) /\ ppc = "ready" /\ ppc' # "ready" /\ UNCHANGED <<chan, rd, taken>>
    BY <1>13, Zenon DEF PReady, readVars
  <2>2. pbuf \in Buffer /\ (pbuf.rc > 0 => pbuf.file = chan.file) BY <1>0, <2>1, Zenon DEF Shapes, OfFile
  <2> QED BY <1>0, <2>1, <2>2, PutFile, Zenon
<1>14. ASSUME PBegin \/ PRequest \/ PEnd \/ PExit \/ PNever PROVE OfFile'
  BY <1>1, <1>14, Zenon DEF PBegin, PRequest, PEnd, PExit, PNever, readVars, cacheVars
<1> QED BY Zenon, <1>2, <1>3, <1>4, <1>5, <1>6, <1>7, <1>8, <1>9, <1>10, <1>11, <1>12, <1>13, <1>14,
        NextEngine DEF EngineStep, ReadStep, PrefetchMain

\* Only an open makes the player wanted again.
LEMMA AskedStep ==
  ASSUME PlayInv, [Next]_mpegVars, Asked'
  PROVE  Asked \/ \E f \in Files : Opens(f)
<1>0. Places /\ Calling /\ Rules BY Zenon DEF PlayInv
<1>1. ASSUME Call(C)' = "start" => Call(C) = "start", terminate' = terminate PROVE Asked
  BY <1>1, Zenon DEF Asked
<1>2. ASSUME todo'[C] = todo[C], terminate' = terminate PROVE Asked
  BY <1>2, Zenon DEF Asked, Call
<1>3. ASSUME NEW t \in {C, M}, EngineClose(t) PROVE Asked
  <2>1. CASE UNCHANGED todo BY <1>2, <1>3, <2>1, Zenon DEF EngineClose, playVars
  <2>2. CASE CloseClean(t) /\ todo' = [todo EXCEPT ![t] =
                         IF Head(@) = "reset" THEN <<"reopen">> ELSE Tail(@)]
    <3>1. UNCHANGED playVars BY <1>3, Zenon DEF EngineClose
    <3>2. Call(C)' = "start" => Call(C) = "start" BY <1>0, <2>2, <3>1, CleanRules, Zenon
    <3> QED BY <1>1, <3>1, <3>2, Zenon DEF playVars
  <2> QED BY Zenon, <1>3, <2>1, <2>2 DEF EngineClose
<1>4. CASE Join \/ stm_wait_for_playing
  <2>1. todo[C] # <<>> /\ Done(C) /\ Call(C) \in {"join", "wait"} /\ UNCHANGED terminate
    BY <1>4, Zenon DEF Join, stm_wait_for_playing, Doing, Call, First, playVars
  <2>2. Call(C)' # "start" BY <1>0, <2>1, ControlDone, Zenon
  <2> QED BY <1>1, <2>1, <2>2, Zenon
<1>5. CASE OpenFile
  <2>1. ASSUME OpenFails, Done(C) PROVE Asked
    <3>1. Call(C)' = "none" BY <1>0, <1>5, <2>1, OpenFailsRules, Zenon DEF OpenFile
    <3> QED BY <1>1, <1>5, <3>1, Zenon DEF OpenFile
  <2> QED BY <1>5, <2>1, Zenon DEF OpenFile, Opens
<1>6. CASE stm_start
  <2>1. Call(C) = "start" BY <1>0, <1>6, DoingIs, Zenon DEF stm_start
  <2> QED BY <2>1, Zenon DEF Asked
<1>7. CASE stm_stop \/ stm_open
  <2>1. terminate' = 1 BY <1>7, Zenon DEF stm_stop, stm_open
  <2>2. Call(C)' = "abort"
    <3>1. todo \in [Threads -> ControlCalls \cup PlayerCalls] BY <1>0, Zenon DEF Calling
    <3>2. todo'[C] \in {<<"abort", "join", "close">>, <<"abort", "join", "close", "open">>}
      BY <1>7, <3>1, Two, Zenon DEF stm_stop, stm_open, Calls
    <3> QED BY <3>2, FirstIs, Zenon DEF Call
  <2> QED BY <2>1, <2>2 DEF Asked
<1>8. CASE set_repeat \/ stm_reset \/ Prefetcher \/ UNCHANGED mpegVars
  BY <1>2, <1>8, Zenon DEF set_repeat, stm_reset, Prefetcher, mpegVars, playVars
<1>9. CASE Player
  <2>1. CASE EngineClose(M) BY <1>3, <2>1, Zenon
  <2>2. CASE Player /\ ~EngineClose(M)
    <3>1. UNCHANGED terminate /\ (UNCHANGED todo \/ \E s : todo' = [todo EXCEPT ![M] = s])
      BY Zenon, <2>2 DEF Player, FirstRead, FirstResult, StartPlaying, Play, Push, Read, Result, Over,
         EngineReset, Done, LeaveLoop, playVars
    <3>2. todo'[C] = todo[C] BY <1>0, <3>1, Two, Zenon DEF Calling
    <3> QED BY <1>2, <3>1, <3>2, Zenon
  <2> QED BY <1>9, <2>1, <2>2, Zenon
<1> QED BY <1>3, <1>4, <1>5, <1>6, <1>7, <1>8, <1>9, Zenon DEF Next, Control, Request

\* While the player is wanted nobody closes but the player itself.
LEMMA Quiet ==
  ASSUME Calling, Rules, Asked
  PROVE  /\ abort_flag = 0 => kpc[C] = "none" /\ kpc[M] = "none" /\ cut = 0
         /\ rd # "none" => abort_flag = 0 /\ cut = 0 /\ terminate = 0
<1>1. CASE terminate = 0 BY <1>1, CallRange DEF Rules, Script, Undisturbed
<1>2. CASE Call(C) = "start"
  <2>1. mpc = "off" /\ rd = "none" /\ cut = 0 BY <1>2, Zenon DEF Rules, Script, Undisturbed
  <2> QED BY <1>2, <2>1, Zenon DEF Rules, Script
<1> QED BY <1>1, <1>2, Zenon DEF Asked

\* Both an open and the player's own reset find the prefetch thread gone.
LEMMA FreshStep ==
  ASSUME PlayInv, (\E f \in Files : Opens(f)) \/ (Asked /\ Reset /\ Doing(M, "reopen"))
  PROVE  Chain' /\ tmp'.size = 0
<1>0. Places /\ Calling /\ Rules BY Zenon DEF PlayInv
<1>1. ppc = "off" /\ rd = "none"
  <2>1. ASSUME NEW f \in Files, Opens(f) PROVE ppc = "off" /\ rd = "none"
    BY <1>0, <2>1, OpenRules, Zenon DEF Opens
  <2>2. CASE Asked /\ Reset /\ Doing(M, "reopen")
    <3>1. Call(M) = "reopen" BY <1>0, <2>2, DoingIs, Zenon
    <3>2. mpc = "read" BY <1>0, <3>1, Zenon DEF Rules, Script
    <3>3. terminate = 0 BY <1>0, <2>2, <3>2, Zenon DEF Asked, Rules, Script
    <3> QED BY <1>0, <3>1, <3>2, <3>3, Zenon DEF Rules, Script, Stopped, Behind
  <2> QED BY <2>1, <2>2, Zenon
<1>2. ready' = <<>> /\ out' = 0 /\ tmp' = [start |-> 0, size |-> 0] /\ ppc' = "made" /\ rd' = "none"
  BY <1>1, Zenon DEF Opens, Open, Reset, OpenStep1
<1>3. chan'.pos = 0 BY <1>0 DEF Opens, Open, Reset, Places
<1> QED BY <1>2, <1>3, ChainFresh, Zenon

LEMMA FlowStep == ASSUME PlayInv, [Next]_mpegVars PROVE Flow'
<1> SUFFICES ASSUME Asked', abort_flag' = 0 PROVE Chain' BY Zenon DEF Flow
<1>1. CASE \E f \in Files : Opens(f) BY <1>1, FreshStep, Zenon
<1>2. CASE Asked
  <2>0. Places /\ Shapes /\ Calling /\ Rules /\ Named /\ Flow /\ repeat_cnt \in Int
    BY Zenon DEF PlayInv, Rules
  <2>1. ASSUME abort_flag = 0, UNCHANGED <<chan, tmp, out, rlen, taken, ready, pbuf>>,
               ppc' = "ready" <=> ppc = "ready", rd' = "copy" <=> rd = "copy",
               rd' \in {"enter", "take"} => rd \in {"enter", "take"}
        PROVE  Chain'
    BY <1>2, <2>0, <2>1, ChainKept, Zenon DEF Flow
  <2>2. CASE UNCHANGED vars \/ FirstResult \/ Result
    BY <2>1, <2>2, Zenon DEF vars, FirstResult, Result, prefetchVars, readVars, cacheVars
  <2>3. ASSUME NEW t \in {C, M}, (\E aborts \in BOOLEAN : CloseBegin(t, aborts))
               \/ CloseStep(t) \/ CloseClean(t)
        PROVE  FALSE
    <3>1. ~\E aborts \in BOOLEAN : CloseBegin(t, aborts) BY DEF CloseBegin
    <3>2. kpc[t] # "none" /\ abort_flag = 0
      BY <2>3, <3>1, Zenon DEF CloseStep, CloseFlush, CloseStop, CloseJoin, CloseMark, ClosePut, CloseReader,
            ClosePrefetch, CloseClean
    <3> QED BY <1>2, <2>0, <3>2, Quiet, Zenon
  <2>4. CASE Reset /\ Doing(M, "reopen") BY <1>2, <2>4, FreshStep, Zenon
  <2>5. CASE OpenFails /\ Doing(C, "open")
    <3>1. Call(C) = "open" BY <2>0, <2>5, DoingIs, Zenon
    <3> QED BY <1>2, <2>0, <3>1, Zenon DEF Asked, Rules, Script
  <2>6. ASSUME NEW r \in Repeats, SetRepeat(r) PROVE Chain'
    BY <2>1, <2>6, Zenon DEF SetRepeat, prefetchVars, readVars, cacheVars
  <2>7. ASSUME NEW len \in ReadLens, ReadBegin(len) PROVE Chain'
    <3>1. abort_flag = 0 BY <2>7, Zenon DEF ReadBegin, ReadUnchanged
    <3> QED BY <1>2, <2>0, <2>7, <3>1, ChainBegin, Zenon DEF Flow
  <2>8. CASE ReadStep
    <3>1. abort_flag = 0
      BY <2>8, Zenon DEF ReadStep, ReadEnter, ReadTake, ReadCopy, ReadLeave, ReadUnchanged
    <3>2. Chain BY <1>2, <2>0, <3>1, Zenon DEF Flow
    <3>3. CASE ReadEnter \/ ReadLeave
      BY <2>1, <3>1, <3>3, Zenon DEF ReadEnter, ReadLeave, ReadUnchanged, prefetchVars, cacheVars
    <3>4. CASE ReadTake BY <2>0, <3>2, <3>4, ChainTake, Zenon
    <3>5. CASE ReadCopy BY <2>0, <3>2, <3>5, ChainCopy, Zenon
    <3> QED BY <2>8, <3>3, <3>4, <3>5, Zenon DEF ReadStep
  <2>9. CASE PrefetchMain
    <3>1. abort_flag = 0
      BY <2>9, Zenon DEF PrefetchMain, PBegin, PRequest, PFill, PReady, PEnd, PExit, PNever
    <3>2. Chain /\ cut = 0 BY <1>2, <2>0, <3>1, Quiet, Zenon DEF Flow
    <3>3. CASE PBegin \/ PRequest \/ PEnd \/ PExit \/ PNever
      BY <2>1, <3>1, <3>3, Zenon DEF PBegin, PRequest, PEnd, PExit, PNever, readVars, cacheVars
    <3>4. CASE PReady BY <2>0, <3>2, <3>4, ChainReady, Zenon
    <3>5. CASE PFill
      <4>1. chan.file # None BY <2>0, <3>5, Zenon DEF Named, PFill
      <4> QED BY <2>0, <3>1, <3>2, <3>5, <4>1, ChainFill, Zenon
    <3> QED BY <2>9, <3>3, <3>4, <3>5, Zenon DEF PrefetchMain
  <2> QED BY Zenon, <1>1, <2>2, <2>3, <2>4, <2>5, <2>6, <2>7, <2>8, <2>9, NextEngine DEF EngineStep
<1> QED BY <1>1, <1>2, AskedStep, Zenon

\* What a read kept of its last buffer stays the next of the file, even
\* while the player resets.
LEMMA KeptStep == ASSUME PlayInv, [Next]_mpegVars PROVE Kept'
<1> SUFFICES ASSUME Asked', tmp'.size > 0 PROVE tmp'.start = out' BY Zenon DEF Kept
<1>1. Asked /\ ~\E f \in Files : Opens(f) BY AskedStep, FreshStep
<1>2. Calling /\ Rules /\ Kept BY Zenon DEF PlayInv
<1>3. CASE UNCHANGED <<tmp, out>> BY <1>1, <1>2, <1>3, Zenon DEF Kept
<1>4. ASSUME abort_flag' = 0 PROVE tmp'.start = out'
  BY <1>4, FlowStep, Zenon DEF Flow, Chain
<1>5. CASE UNCHANGED vars \/ FirstResult \/ Result
  BY <1>3, <1>5, Zenon DEF vars, FirstResult, Result, readVars
<1>6. ASSUME NEW t \in {C, M}, (\E aborts \in BOOLEAN : CloseBegin(t, aborts)) \/ CloseStep(t)
      PROVE  tmp'.start = out'
  BY <1>3, <1>6, Zenon DEF CloseBegin, CloseStep, CloseFlush, CloseStop, CloseJoin, CloseMark, ClosePut,
        CloseReader, ClosePrefetch, ReaderUnchanged, readVars
<1>7. ASSUME NEW t \in {C, M}, CloseClean(t) PROVE FALSE BY <1>7 DEF CloseClean
<1>8. CASE Reset /\ Doing(M, "reopen") BY <1>1, <1>8, FreshStep
<1>9. ASSUME (OpenFails /\ Doing(C, "open")) \/ (\E r \in Repeats : SetRepeat(r)) \/ PrefetchMain
      PROVE  tmp'.start = out'
  BY <1>3, <1>9, Zenon DEF OpenFails, SetRepeat, PrefetchMain, PBegin, PRequest, PFill, PReady, PEnd, PExit,
        PNever, readVars
<1>10. ASSUME NEW len \in ReadLens, ReadBegin(len) PROVE tmp'.start = out'
  <2>1. UNCHANGED <<tmp, out>> \/ (abort_flag = 0 /\ abort_flag' = abort_flag)
    BY <1>10, Zenon DEF PlayInv, Shapes, ReadBegin, ReadUnchanged
  <2> QED BY <1>3, <1>4, <2>1, Zenon
<1>11. CASE ReadStep
  <2>1. UNCHANGED <<tmp, out>> \/ (rd = "copy" /\ abort_flag' = abort_flag)
    BY <1>11, Zenon DEF ReadStep, ReadEnter, ReadTake, ReadCopy, ReadLeave, ReadUnchanged
  <2> QED BY <1>1, <1>2, <1>3, <1>4, <2>1, Quiet, Zenon
<1> QED BY Zenon, <1>1, <1>5, <1>6, <1>7, <1>8, <1>9, <1>10, <1>11, NextEngine DEF EngineStep

LEMMA PlayStep == PlayInv /\ [Next]_mpegVars => PlayInv'
<1> SUFFICES ASSUME PlayInv, [Next]_mpegVars PROVE PlayInv' BY Zenon
<1>1. Calling' /\ Rules' BY RulesStep, Zenon
<1>2. Places' /\ Shapes' /\ repeat_cnt' \in Int BY TypeStep, Zenon DEF PlayInv, Rules
<1>3. OfFile' /\ Flow' /\ Kept' BY FileStep, FlowStep, KeptStep, Zenon
<1> QED BY <1>1, <1>2, <1>3, Zenon DEF PlayInv

\* Whatever the two threads call and whenever they are interrupted, a mark
\* of the end that reaches the reader before anybody has asked the player
\* to stop means that pre_read has given it the whole file, for files,
\* buffers, caches and reads of any length.
THEOREM EndIsTheEnd == Spec => []WholeFile
<1>1. ASSUME PlayInv PROVE WholeFile
  <2> SUFFICES ASSUME rd = "copy", taken.rc <= 0, terminate = 0
               PROVE  taken.rc = 0 /\ out = Size[chan.file]
    BY Zenon DEF WholeFile
  <2>1. Shapes /\ Calling /\ Rules /\ Flow BY <1>1, Zenon DEF PlayInv
  <2>2. Chain BY <2>1, Quiet, Zenon DEF Asked, Flow
  <2>3. Follows(chan.file, ReaderAt, taken) /\ tmp.size = 0 BY <2>2, Zenon DEF Chain
  <2>4. ReaderAt = out BY <2>1, <2>3 DEF ReaderAt, Shapes
  <2>5. taken.rc \in Int BY <2>1, BufferIs, Zenon DEF Shapes
  <2> QED BY <2>3, <2>4, <2>5 DEF Follows
<1> QED BY <1>1, PlayInitially, PlayStep, PTL DEF Spec

\* The blocks reach the reader in the order of the file, each of them
\* where the one before it ended or at the beginning again on a repeat, and
\* always of the file that is open.
THEOREM ReadInOrder == Spec => []InOrder
<1>1. ASSUME PlayInv PROVE InOrder
  <2>1. Shapes /\ Calling /\ Rules /\ Flow /\ Kept /\ OfFile BY <1>1, Zenon DEF PlayInv
  <2>2. ASSUME rd = "copy", terminate = 0
        PROVE  IF taken.dbflag = 1 THEN taken.start = 0 /\ out = Size[chan.file] ELSE taken.start = out
    <3>1. Chain BY <2>1, <2>2, Quiet, Zenon DEF Asked, Flow
    <3>2. Follows(chan.file, ReaderAt, taken) /\ tmp.size = 0 BY <2>2, <3>1, Zenon DEF Chain
    <3>3. ReaderAt = out BY <2>1, <3>2 DEF ReaderAt, Shapes
    <3> QED BY <3>2, <3>3, Zenon DEF Follows
  <2> QED BY <2>1, <2>2, Zenon DEF InOrder, OfFile, Kept, Asked
<1> QED BY <1>1, PlayInitially, PlayStep, PTL DEF Spec
=============================================================================

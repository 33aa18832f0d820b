-------------------------- MODULE MarketDataProofs --------------------------
(***************************************************************************)
(* Proofs about CircuitBreaker, for any set of callers and threshold,      *)
(* about CandleStream, for any number of overlapping starts, and about the *)
(* table of Candles, for any range of time and all bounds.                 *)
(***************************************************************************)
EXTENDS CircuitBreaker, CandleStream, Candles, SequenceTheorems, FiniteSetTheorems, TLAPS

(* The flag is up exactly while one caller probes. *)
FlagIsProbe ==
    \/ probeInFlight /\ \E c \in Callers : Inside("probe") = {c}
    \/ ~probeInFlight /\ Inside("probe") = {}

(* A probe is in flight whenever the breaker is half open, and none when it is *)
(* closed; it is the only call since the last opening.                         *)
ProbeWindow ==
    /\ state = "halfOpen" => probeInFlight /\ admitted <= 1
    /\ state = "open" => admitted = 0
    /\ state = "closed" => ~probeInFlight

BreakerInv == TypeOK /\ FlagIsProbe /\ ProbeWindow /\ ClosedBelowThreshold

LEMMA InitInv == Init => BreakerInv
  <1> SUFFICES ASSUME Init PROVE BreakerInv
    OBVIOUS
  <1>1. TypeOK
    BY DEF Init, TypeOK
  <1>2. FlagIsProbe
    BY DEF Init, FlagIsProbe, Inside
  <1>3. ProbeWindow /\ ClosedBelowThreshold
    BY ThresholdAssumption DEF Init, ProbeWindow, ClosedBelowThreshold
  <1> QED
    BY <1>1, <1>2, <1>3 DEF BreakerInv

(* A caller's move between outside and inside, as the sets of those inside. *)
LEMMA Moved ==
    ASSUME TypeOK, NEW c \in Callers, NEW to \in {"idle", "normal", "probe"},
           call' = [call EXCEPT ![c] = to]
    PROVE  /\ call' \in [Callers -> {"idle", "normal", "probe"}]
           /\ Inside("probe")' = IF to = "probe" THEN Inside("probe") \cup {c}
                                                 ELSE Inside("probe") \ {c}
           /\ Inside("normal")' = IF to = "normal" THEN Inside("normal") \cup {c}
                                                   ELSE Inside("normal") \ {c}
  BY DEF TypeOK, Inside

LEMMA TransitionTypes ==
    ASSUME TypeOK, NEW new \in {"closed", "open", "halfOpen"}, TransitionTo(new)
    PROVE  state' = new /\ aged' \in BOOLEAN /\ admitted' \in Nat
  <1>1. state' = new /\ admitted' \in Nat
    BY DEF TypeOK, TransitionTo
  <1>2. aged' \in BOOLEAN
    BY Zenon DEF TypeOK, TransitionTo
  <1> QED
    BY <1>1, <1>2

LEMMA NextInv == BreakerInv /\ [Next]_vars => BreakerInv'
  <1> SUFFICES ASSUME BreakerInv, [Next]_vars PROVE BreakerInv'
    OBVIOUS
  <1> USE ThresholdAssumption DEF BreakerInv, FlagIsProbe, ProbeWindow, ClosedBelowThreshold
  <1>1. ASSUME NEW c \in Callers, ExecuteClosed(c) PROVE BreakerInv'
    <2>1. Inside("probe")' = Inside("probe") /\ call' \in [Callers -> {"idle", "normal", "probe"}]
      BY <1>1, Moved DEF ExecuteClosed, Inside
    <2> QED
      BY <1>1, <2>1 DEF ExecuteClosed, TypeOK
  <1>2. ASSUME NEW c \in Callers, ExecuteOpen(c) \/ ExecuteHalfOpen(c) PROVE BreakerInv'
    <2>1. CASE ~probeInFlight
      <3>1. /\ Inside("probe")' = {c} /\ probeInFlight' = TRUE
            /\ call' \in [Callers -> {"idle", "normal", "probe"}]
        BY <1>2, <2>1, Moved DEF ExecuteOpen, ExecuteHalfOpen, Probe
      <3>2. /\ state' = "halfOpen" /\ UNCHANGED <<failures, aged, up>>
            /\ state = "open" /\ admitted' = admitted + 1
        BY <1>2, <2>1 DEF ExecuteOpen, ExecuteHalfOpen, Probe
      <3> QED
        BY <3>1, <3>2 DEF TypeOK
    <2>2. CASE probeInFlight
      <3>1. Inside("probe")' = Inside("probe") /\ UNCHANGED <<call, probeInFlight>>
        BY <1>2, <2>2 DEF ExecuteOpen, ExecuteHalfOpen, Probe, Inside
      <3>2. /\ state' = "halfOpen" /\ UNCHANGED <<failures, aged, up, admitted>>
            /\ state \in {"open", "halfOpen"}
        BY <1>2, <2>2 DEF ExecuteOpen, ExecuteHalfOpen, Probe
      <3> QED
        BY <2>2, <3>1, <3>2 DEF TypeOK
    <2> QED
      BY <2>1, <2>2 DEF TypeOK
  <1>3. ASSUME NEW c \in Callers, OnSuccess(c) \/ OnFailure(c) PROVE BreakerInv'
    <2>1. Inside("probe")' = Inside("probe") /\ call' \in [Callers -> {"idle", "normal", "probe"}]
      BY <1>3, Moved DEF OnSuccess, OnFailure, Inside
    <2>2. CASE OnSuccess(c)
      BY <2>1, <2>2 DEF OnSuccess, TypeOK
    <2>3. CASE OnFailure(c)
      <3>1. failures' = failures + 1 /\ UNCHANGED <<probeInFlight, up>>
        BY <2>3 DEF OnFailure
      <3>2. TypeOK'
        <4>1. state' \in {"closed", "open", "halfOpen"} /\ aged' \in BOOLEAN /\ admitted' \in Nat
          BY <2>3, TransitionTypes DEF OnFailure, TypeOK
        <4> QED
          BY <2>1, <3>1, <4>1 DEF TypeOK
      <3>3. FlagIsProbe'
        BY <2>1, <3>1
      <3>4. ProbeWindow' /\ ClosedBelowThreshold'
        BY <2>3, <3>1 DEF OnFailure, TransitionTo, TypeOK
      <3> QED
        BY <3>2, <3>3, <3>4
    <2> QED
      BY <1>3, <2>2, <2>3
  <1>4. ASSUME NEW c \in Callers, OnProbeSuccess(c) \/ OnProbeFailure(c) PROVE BreakerInv'
    <2>1. /\ Inside("probe")' = {} /\ probeInFlight' = FALSE
          /\ call' \in [Callers -> {"idle", "normal", "probe"}]
      <3>1. Inside("probe") = {c}
        BY <1>4 DEF OnProbeSuccess, OnProbeFailure, Inside
      <3> QED
        BY <1>4, <3>1, Moved DEF OnProbeSuccess, OnProbeFailure
    <2>2. TypeOK'
      <3>1. /\ state' \in {"closed", "open", "halfOpen"}
            /\ aged' \in BOOLEAN /\ admitted' \in Nat
        BY <1>4, TransitionTypes DEF OnProbeSuccess, OnProbeFailure
      <3>2. failures' \in Nat /\ up' = up
        BY <1>4 DEF OnProbeSuccess, OnProbeFailure, TypeOK
      <3> QED
        BY <2>1, <3>1, <3>2 DEF TypeOK
    <2>3. ProbeWindow' /\ ClosedBelowThreshold'
      BY <1>4, <2>1 DEF OnProbeSuccess, OnProbeFailure, TransitionTo, TypeOK
    <2> QED
      BY <2>1, <2>2, <2>3
  <1>5. CASE Elapse \/ Change \/ UNCHANGED vars
    <2>1. Inside("probe")' = Inside("probe") /\ UNCHANGED <<state, failures, probeInFlight, call, admitted>>
      BY <1>5 DEF Elapse, Change, vars, Inside
    <2>2. TypeOK'
      BY <1>5, <2>1 DEF Elapse, Change, vars, TypeOK
    <2> QED
      BY <2>1, <2>2
  <1> QED
    BY <1>1, <1>2, <1>3, <1>4, <1>5 DEF Next, Execute, Return

LEMMA InvHolds == Spec => []BreakerInv
  BY InitInv, NextInv, PTL DEF Spec

(* At most one probe is in flight and the flag is up exactly while one is, *)
(* whatever late outcomes reopen the breaker in the meantime.              *)
THEOREM OneProbe == Spec => []AtMostOneProbe
  <1>1. BreakerInv => AtMostOneProbe
    <2> SUFFICES ASSUME BreakerInv PROVE AtMostOneProbe
      OBVIOUS
    <2>1. CASE probeInFlight
      <3>1. PICK c \in Callers : Inside("probe") = {c}
        BY <2>1 DEF BreakerInv, FlagIsProbe
      <3>2. Cardinality({c}) = 1
        BY FS_Singleton
      <3> QED
        BY <2>1, <3>1, <3>2 DEF AtMostOneProbe
    <2>2. CASE ~probeInFlight
      <3>1. Inside("probe") = {} /\ Cardinality({}) = 0
        BY <2>2, FS_EmptySet DEF BreakerInv, FlagIsProbe
      <3> QED
        BY <2>2, <3>1 DEF AtMostOneProbe
    <2> QED
      BY <2>1, <2>2
  <1> QED
    BY InvHolds, <1>1, PTL

(* A breaker that lets every call through has counted too few failures to open. *)
THEOREM ClosedIsBelow == Spec => []ClosedBelowThreshold
  <1>1. BreakerInv => ClosedBelowThreshold
    BY DEF BreakerInv
  <1> QED
    BY InvHolds, <1>1, PTL

(* From one opening to the next, or to the closing, one call goes through. *)
THEOREM OneCall == Spec => []OneCallPerWindow
  <1>1. BreakerInv => OneCallPerWindow
    BY DEF BreakerInv, ProbeWindow, OneCallPerWindow, TypeOK
  <1> QED
    BY InvHolds, <1>1, PTL

(* The breaker implements GuardedService: every step of it is a step of the *)
(* service's guard, or changes nothing the guard promises.                  *)
THEOREM Implements == Spec => GuardSpec
  <1> USE DEF Guard!vars
  <1>1. Init => Guard!Init
    BY DEF Init, Guard!Init, Inside
  <1>2. BreakerInv /\ [Next]_vars => [Guard!Next]_(Guard!vars)
    <2> SUFFICES ASSUME BreakerInv, [Next]_vars PROVE [Guard!Next]_(Guard!vars)
      OBVIOUS
    <2> USE DEF BreakerInv
    <2>1. ASSUME NEW c \in Callers, ExecuteClosed(c) PROVE Guard!Enter(c)
      <3>1. /\ Inside("normal")' = Inside("normal") \cup {c}
            /\ Inside("probe")' = Inside("probe")
            /\ c \notin Inside("normal") \cup Inside("probe")
        BY <2>1, Moved DEF ExecuteClosed, Inside
      <3> QED
        BY <2>1, <3>1 DEF ExecuteClosed, Guard!Enter
    <2>2. ASSUME NEW c \in Callers, ExecuteOpen(c) \/ ExecuteHalfOpen(c)
          PROVE Guard!EnterOnTrial(c) \/ UNCHANGED Guard!vars
      <3>0. state # "closed" /\ state' # "closed" /\ up' = up
        BY <2>2 DEF ExecuteOpen, ExecuteHalfOpen
      <3>1. CASE ~probeInFlight
        <4>1. /\ Inside("normal")' = Inside("normal") /\ Inside("probe")' = {c}
              /\ Inside("probe") = {} /\ c \notin Inside("normal")
          BY <2>2, <3>1, Moved DEF ExecuteOpen, ExecuteHalfOpen, Probe, Inside, FlagIsProbe
        <4> QED
          BY <3>0, <4>1 DEF Guard!EnterOnTrial
      <3>2. CASE probeInFlight
        BY <2>2, <3>0, <3>2 DEF ExecuteOpen, ExecuteHalfOpen, Probe, Inside
      <3> QED
        BY <3>1, <3>2 DEF TypeOK
    <2>3. ASSUME NEW c \in Callers, OnSuccess(c) \/ OnFailure(c) PROVE Guard!Leave(c)
      <3>1. /\ Inside("normal")' = Inside("normal") \ {c}
            /\ Inside("probe")' = Inside("probe") /\ c \in Inside("normal")
        BY <2>3, Moved DEF OnSuccess, OnFailure, Inside
      <3>2. (state' # "closed") \in {state # "closed", state # "closed" \/ ~up} /\ up' = up
        BY <2>3 DEF OnSuccess, OnFailure, TransitionTo
      <3> QED
        BY <3>1, <3>2 DEF Guard!Leave
    <2>4. ASSUME NEW c \in Callers, OnProbeSuccess(c) \/ OnProbeFailure(c)
          PROVE Guard!EndTrial(c)
      <3>1. Inside("probe") = {c}
        BY <2>4 DEF OnProbeSuccess, OnProbeFailure, Inside, FlagIsProbe
      <3>2. Inside("probe")' = {} /\ Inside("normal")' = Inside("normal")
        BY <2>4, <3>1, Moved DEF OnProbeSuccess, OnProbeFailure, Inside
      <3>3. (state' # "closed") = ~up /\ up' = up
        BY <2>4 DEF OnProbeSuccess, OnProbeFailure, TransitionTo
      <3> QED
        BY <3>1, <3>2, <3>3 DEF Guard!EndTrial
    <2>5. CASE Elapse \/ Change \/ UNCHANGED vars
      <3>1. UNCHANGED <<state, call>>
        BY <2>5 DEF Elapse, Change, vars
      <3>2. UNCHANGED <<state # "closed", Inside("normal"), Inside("probe")>>
        BY <3>1 DEF Inside
      <3>3. up' = up \/ up' = ~up
        BY <2>5 DEF Elapse, Change, vars
      <3> QED
        BY <3>2, <3>3 DEF Guard!Change, Guard!Next
    <2> QED
      BY <2>1, <2>2, <2>3, <2>4, <2>5 DEF Next, Execute, Return, Guard!Next
  <1> QED
    BY <1>1, <1>2, InvHolds, PTL DEF Spec, GuardSpec, Guard!Spec

-----------------------------------------------------------------------------
(* The stream of ticks.  A handler hears ticks only over the connection it was made on, and  *)
(* a coroutine has one only between its subscription and the record of it.                    *)

StartStates == [pc : {"idle", "subscribe", "reconnect", "record"}, attempt : Nat,
                got : {"no", "live", "dead"}]

StreamTypes ==
    /\ connected \in BOOLEAN /\ errors \in 0 .. ErrorThreshold - 1
    /\ recorded \in {"none", "empty", "live", "dead"} /\ orphans \in BOOLEAN
    /\ start \in [Starts -> StartStates] /\ checked \in {"no", "down"}
    /\ recovering \in BOOLEAN /\ restarts \in Nat

(* No handler is taken for live without a connection: losing it, reconnecting after the third *)
(* error and a restart of the engine silence all of them, also the ones on no record          *)
(* (_read_loop, force_reconnect).                                                             *)
LiveNeedsConnection ==
    recorded = "live" \/ orphans \/ (\E s \in Starts : start[s].got = "live") => connected

(* Without two coroutines of start_stream that overlap no handler goes unrecorded: the one    *)
(* that is there is on record, so that the next start or stop_stream ends it.                 *)
OneStart == \A s, t \in Starts : s = t
RecordedAtRest == recorded = "live" => \A s \in Starts : start[s].pc = "idle"
OrphansNeedOverlap == OneStart => ~orphans

HandlersInv == StreamTypes /\ LiveNeedsConnection /\ (OneStart => ~orphans /\ RecordedAtRest)

LEMMA SilenceSteps ==
    ASSUME HandlersInv, NEW S \in [Starts -> StartStates], Silence(S)
    PROVE  /\ recorded' \in {"none", "empty", "dead"} /\ orphans' = FALSE
           /\ start' \in [Starts -> StartStates] /\ \A s \in Starts : start'[s].got # "live"
  <1>1. recorded' \in {"none", "empty", "dead"} /\ orphans' = FALSE
    BY DEF Silence, Dead, HandlersInv, StreamTypes
  <1>2. start' = [s \in Starts |-> [S[s] EXCEPT !.got = Dead(@)]]
    BY DEF Silence
  <1>3. ASSUME NEW s \in Starts
        PROVE  [S[s] EXCEPT !.got = Dead(@)] \in StartStates /\ [S[s] EXCEPT !.got = Dead(@)].got # "live"
    BY DEF StartStates, Dead
  <1> QED
    BY <1>1, <1>2, <1>3

(* Whatever silences the handlers keeps the invariant, with the connection or without.        *)
LEMMA SilenceInv ==
    ASSUME HandlersInv, NEW S \in [Starts -> StartStates], Silence(S),
           connected' \in BOOLEAN, errors' \in 0 .. ErrorThreshold - 1,
           checked' \in {"no", "down"}, recovering' \in BOOLEAN, restarts' \in Nat
    PROVE  HandlersInv'
  <1>1. /\ recorded' \in {"none", "empty", "dead"} /\ orphans' = FALSE
        /\ start' \in [Starts -> StartStates] /\ \A s \in Starts : start'[s].got # "live"
    BY SilenceSteps
  <1>2. StreamTypes' /\ LiveNeedsConnection' /\ ~orphans' /\ RecordedAtRest'
    BY <1>1 DEF StreamTypes, LiveNeedsConnection, RecordedAtRest
  <1> QED
    BY <1>2 DEF HandlersInv

(* The states of a coroutine that goes from one attempt to the next. *)
LEMMA FailedSteps ==
    ASSUME HandlersInv, NEW s \in Starts
    PROVE  /\ Failed(s) \in [Starts -> StartStates]
           /\ \A t \in Starts : Failed(s)[t].got = start[t].got
           /\ \A t \in Starts : Failed(s)[t].pc = "idle" => start[t].pc = "idle" \/ t = s
           /\ \A t \in Starts : start[t].pc = "idle" /\ t # s => Failed(s)[t].pc = "idle"
  <1>1. start \in [Starts -> StartStates] /\ start[s] \in StartStates
    BY DEF HandlersInv, StreamTypes
  <1> DEFINE last == [start[s] EXCEPT !.pc = "record"]
             next == [start[s] EXCEPT !.pc = "reconnect", !.attempt = start[s].attempt + 1]
             over == IF start[s].attempt + 1 = MaxRetries THEN last ELSE next
  <1>2. over \in StartStates /\ over.got = start[s].got /\ over.pc # "idle"
    <2>1. last \in StartStates /\ last.got = start[s].got /\ last.pc = "record"
      BY <1>1 DEF StartStates
    <2>2. next \in StartStates /\ next.got = start[s].got /\ next.pc = "reconnect"
      <3>1. start[s].attempt + 1 \in Nat
        BY <1>1 DEF StartStates
      <3> QED
        BY <1>1, <3>1 DEF StartStates
    <2> HIDE DEF last, next
    <2> QED
      BY <2>1, <2>2
  <1>3. Failed(s) = [start EXCEPT ![s] = over]
    BY Zenon DEF Failed
  <1> HIDE DEF over
  <1> QED
    BY <1>1, <1>2, <1>3

LEMMA StreamStep == HandlersInv /\ [StreamNext]_streamVars => HandlersInv'
  <1> SUFFICES ASSUME HandlersInv, [StreamNext]_streamVars PROVE HandlersInv'
    OBVIOUS
  <1>1. /\ StreamTypes /\ start \in [Starts -> StartStates] /\ LiveNeedsConnection
        /\ 0 \in 0 .. ErrorThreshold - 1 /\ errors \in 0 .. ErrorThreshold - 1
    BY DEF HandlersInv, StreamTypes, ErrorThreshold
  <1>2. NotStarted \in StartStates /\ NotStarted.pc = "idle" /\ NotStarted.got = "no"
    BY DEF NotStarted, StartStates
  <1>3. ASSUME UNCHANGED <<connected, errors, recorded, orphans, start, restarts>>,
               checked' \in {"no", "down"}, recovering' \in BOOLEAN
        PROVE  HandlersInv'
    BY <1>1, <1>3 DEF HandlersInv, StreamTypes, LiveNeedsConnection, RecordedAtRest
  <1>4. CASE ConnectionLost
    BY <1>1, <1>4, SilenceInv DEF ConnectionLost, StreamTypes
  <1>5. ASSUME NEW S \in [Starts -> StartStates], NEW again \in BOOLEAN, TrackError(S, again),
               \A t \in Starts : S[t].got = start[t].got,
               \A t \in Starts : start[t].pc = "idle" => S[t].pc = "idle",
               UNCHANGED <<checked, recovering, restarts>>
        PROVE  HandlersInv'
    <2>1. CASE errors + 1 < ErrorThreshold
      <3>1. /\ errors' \in 0 .. ErrorThreshold - 1 /\ connected' = TRUE
            /\ start' = S /\ UNCHANGED <<recorded, orphans>>
        BY <1>1, <1>5, <2>1 DEF TrackError, ErrorThreshold
      <3>2. StreamTypes' /\ LiveNeedsConnection'
        BY <1>1, <1>5, <3>1 DEF StreamTypes, LiveNeedsConnection
      <3>3. OneStart => ~orphans' /\ RecordedAtRest'
        BY <1>5, <3>1 DEF HandlersInv, RecordedAtRest
      <3> QED
        BY <3>2, <3>3 DEF HandlersInv
    <2>2. CASE ~(errors + 1 < ErrorThreshold)
      <3>1. Silence(S) /\ errors' = 0 /\ connected' = again
        BY <1>5, <2>2 DEF TrackError
      <3> QED
        BY <1>1, <1>5, <3>1, SilenceInv DEF StreamTypes
    <2> QED
      BY <2>1, <2>2
  <1>6. ASSUME NEW b \in BOOLEAN, NEW c \in BOOLEAN, Historical(b, c) PROVE HandlersInv'
    <2>1. CASE b
      BY <1>1, <1>6, <2>1 DEF Historical, HandlersInv, StreamTypes, LiveNeedsConnection, RecordedAtRest
    <2>2. CASE ~b
      BY <1>1, <1>5, <1>6, <2>2 DEF Historical
    <2> QED
      BY <2>1, <2>2
  <1>7. CASE EngineRestarts
    <2>1. /\ start' = [s \in Starts |-> NotStarted] /\ recorded' = "none" /\ orphans' = FALSE
          /\ restarts' \in Nat /\ connected' = FALSE /\ errors' = 0 /\ UNCHANGED <<checked, recovering>>
      BY <1>1, <1>7 DEF EngineRestarts, StreamTypes
    <2>2. StreamTypes' /\ LiveNeedsConnection' /\ ~orphans' /\ RecordedAtRest'
      BY <1>1, <1>2, <2>1 DEF StreamTypes, LiveNeedsConnection, RecordedAtRest
    <2> QED
      BY <2>2 DEF HandlersInv
  <1>8. CASE StopStream
    BY <1>1, <1>8 DEF StopStream, HandlersInv, StreamTypes, LiveNeedsConnection, RecordedAtRest
  <1>9. ASSUME NEW s \in Starts, Begin(s), checked' \in {"no", "down"}, recovering' \in BOOLEAN,
               restarts' = restarts
        PROVE  HandlersInv'
    <2>1. [NotStarted EXCEPT !.pc = "subscribe"] \in StartStates /\ [NotStarted EXCEPT !.pc = "subscribe"].got = "no"
      BY DEF NotStarted, StartStates
    <2>2. /\ start' \in [Starts -> StartStates] /\ start'[s].got = "no"
          /\ \A t \in Starts : t # s => start'[t] = start[t]
          /\ recorded' = "none" /\ UNCHANGED <<connected, errors, orphans>>
      BY <1>1, <1>9, <2>1 DEF Begin
    <2>3. StreamTypes' /\ LiveNeedsConnection' /\ (OneStart => ~orphans') /\ RecordedAtRest'
      BY <1>1, <1>9, <2>2 DEF StreamTypes, LiveNeedsConnection, RecordedAtRest, HandlersInv
    <2> QED
      BY <2>3 DEF HandlersInv
  <1>10. ASSUME NEW s \in Starts, NEW b \in BOOLEAN, NEW c \in BOOLEAN, Subscribe(s, b, c) PROVE HandlersInv'
    <2>1. CASE b
      <3>1. [start[s] EXCEPT !.pc = "record", !.got = "live"] \in StartStates
        BY <1>1 DEF StartStates
      <3>2. start' = [start EXCEPT ![s] = [start[s] EXCEPT !.pc = "record", !.got = "live"]]
        BY <1>10, <2>1, Zenon DEF Subscribe
      <3>3. /\ start' \in [Starts -> StartStates]
            /\ connected' = TRUE /\ errors' = 0 /\ UNCHANGED <<recorded, orphans, checked, recovering, restarts>>
        BY <1>1, <1>10, <2>1, <3>1, <3>2 DEF Subscribe
      <3>4. StreamTypes' /\ LiveNeedsConnection'
        BY <1>1, <3>3 DEF StreamTypes, LiveNeedsConnection
      <3>5. OneStart => ~orphans' /\ RecordedAtRest'
        BY <1>10, <3>3 DEF Subscribe, HandlersInv, RecordedAtRest
      <3> QED
        BY <3>4, <3>5 DEF HandlersInv
    <2>2. CASE ~b
      <3>1. TrackError(Failed(s), c) /\ start[s].pc # "idle" /\ UNCHANGED <<checked, recovering, restarts>>
        BY <1>10, <2>2 DEF Subscribe
      <3> QED
        BY <1>5, <3>1, FailedSteps
    <2> QED
      BY <2>1, <2>2
  <1>11. ASSUME NEW s \in Starts, NEW b \in BOOLEAN, Reconnect(s, b) PROVE HandlersInv'
    <2> DEFINE S == IF b THEN [start EXCEPT ![s].pc = "subscribe"] ELSE Failed(s)
    <2>1. S \in [Starts -> StartStates]
      BY <1>1, FailedSteps DEF StartStates
    <2>2. Silence(S) /\ connected' = b /\ errors' = 0 /\ UNCHANGED <<checked, recovering, restarts>>
      BY <1>11 DEF Reconnect
    <2> HIDE DEF S
    <2> QED
      BY <1>1, <2>1, <2>2, SilenceInv DEF StreamTypes
  <1>12. ASSUME NEW s \in Starts, Record(s) PROVE HandlersInv'
    <2>1. /\ start' \in [Starts -> StartStates] /\ start'[s].pc = "idle" /\ start'[s].got = "no"
          /\ \A t \in Starts : t # s => start'[t] = start[t]
          /\ recorded' = (IF start[s].got = "no" THEN "empty" ELSE start[s].got)
          /\ orphans' = (orphans \/ recorded = "live")
          /\ UNCHANGED <<connected, errors, checked, recovering, restarts>>
      BY <1>1, <1>2, <1>12 DEF Record
    <2>2. StreamTypes'
      <3>1. recorded' \in {"empty", "live", "dead"}
        BY <1>1, <2>1 DEF StartStates
      <3>2. orphans' \in BOOLEAN
        BY <1>1, <2>1 DEF StreamTypes
      <3> QED
        BY <1>1, <2>1, <3>1, <3>2 DEF StreamTypes
    <2>3. LiveNeedsConnection'
      BY <1>1, <2>1 DEF LiveNeedsConnection
    <2>4. ASSUME OneStart PROVE ~orphans' /\ RecordedAtRest'
      <3>1. ~orphans /\ recorded # "live"
        BY <1>12, <2>4 DEF Record, HandlersInv, RecordedAtRest
      <3>2. \A t \in Starts : t = s
        BY <2>4 DEF OneStart
      <3> QED
        BY <2>1, <3>1, <3>2 DEF RecordedAtRest
    <2> QED
      BY <2>2, <2>3, <2>4 DEF HandlersInv, OneStart
  <1>13. ASSUME NEW b \in BOOLEAN, HealthCheck(b) PROVE HandlersInv'
    BY <1>1, <1>3, <1>13 DEF HealthCheck, StreamTypes
  <1>14. CASE RecoveryEnds
    BY <1>1, <1>3, <1>14 DEF RecoveryEnds, StreamTypes
  <1>15. ASSUME NEW s \in Starts, NEW b \in BOOLEAN, RecoverStream(s, b) PROVE HandlersInv'
    <2>1. CASE recovering \/ ~b
      BY <1>1, <1>3, <1>15, <2>1 DEF RecoverStream, StreamTypes
    <2>2. CASE ~(recovering \/ ~b)
      BY <1>9, <1>15, <2>2 DEF RecoverStream
    <2> QED
      BY <2>1, <2>2
  <1>16. ASSUME NEW s \in Starts, AutoStart(s) PROVE HandlersInv'
    BY <1>1, <1>9, <1>16 DEF AutoStart, StreamTypes
  <1>17. CASE UNCHANGED streamVars
    BY <1>1, <1>3, <1>17 DEF streamVars, StreamTypes
  <1> QED
    BY <1>4, <1>6, <1>7, <1>8, <1>10, <1>11, <1>12, <1>13, <1>14, <1>15, <1>16, <1>17 DEF StreamNext

LEMMA StreamInvariant == StreamInit /\ [][StreamNext]_streamVars => []HandlersInv
  <1>1. StreamInit => HandlersInv
    <2> SUFFICES ASSUME StreamInit PROVE HandlersInv
      OBVIOUS
    <2>1. NotStarted \in StartStates /\ NotStarted.pc = "idle" /\ NotStarted.got = "no"
      BY DEF NotStarted, StartStates
    <2>2. StreamTypes
      <3>1. start \in [Starts -> StartStates]
        BY <2>1 DEF StreamInit
      <3>2. errors \in 0 .. ErrorThreshold - 1
        BY DEF StreamInit, ErrorThreshold
      <3> QED
        BY <3>1, <3>2 DEF StreamInit, StreamTypes
    <2>3. LiveNeedsConnection /\ ~orphans /\ RecordedAtRest
      BY <2>1 DEF StreamInit, LiveNeedsConnection, RecordedAtRest
    <2> QED
      BY <2>2, <2>3 DEF HandlersInv
  <1> QED
    BY <1>1, StreamStep, PTL

(* The types of the handlers, connections and restarts of the candle streams. *)
THEOREM StreamTypeCorrect == StreamInit /\ [][StreamNext]_streamVars => []StreamTypes
  BY StreamInvariant, PTL DEF HandlersInv

(* With the connection, or for another one in its place, every handler falls silent, recorded or *)
(* not (_read_loop, force_reconnect): nobody takes a handler for live that hears nothing.        *)
THEOREM LiveIsConnected == StreamInit /\ [][StreamNext]_streamVars => []LiveNeedsConnection
  BY StreamInvariant, PTL DEF HandlersInv

(* Where starts do not overlap, what a start subscribes to stands on record before the next one  *)
(* or a stop looks (start_stream, stop_stream): only overlapping starts leave orphans.           *)
THEOREM NoOrphanAlone == StreamInit /\ [][StreamNext]_streamVars => []OrphansNeedOverlap
  <1>1. HandlersInv => OrphansNeedOverlap
    BY DEF HandlersInv, OrphansNeedOverlap
  <1> QED
    BY <1>1, StreamInvariant, PTL

-----------------------------------------------------------------------------
(* The table of candles.  T are the minutes of which there was a tick by now and O those that *)
(* are over: what the writers of the table hold is about T, and is called whole for O only.   *)

Over == {m \in Minutes : m < now \/ (m = now /\ ticks = 2)}

BucketsOf(T) ==
    {NoBucket} \cup {b \in [start : Buckets, has : SUBSET T] : \A m \in b.has : BucketOf(m) = b.start}
SnapshotsOf(T, O) ==
    {s \in [minute : T, q : {"part", "whole"}, final : BOOLEAN] : s.q = "whole" => s.minute \in O}
MarksOf(T) == [do : {"mark"}, at : T, new : {NoRow}, force : {FALSE}]
RowsOf(T, O) ==
    {s \in [do : {"row"}, at : T, new : [q : {"part", "whole"}, done : {FALSE}], force : BOOLEAN] :
        s.new.q = "whole" => s.at \in O}
HighersOf(T) ==
    {s \in [do : {"higher"}, at : Buckets, new : [has : SUBSET T, done : {FALSE}], force : BOOLEAN] :
        \A m \in s.new.has : BucketOf(m) = s.at}
StatementsOf(T, O) == MarksOf(T) \cup RowsOf(T, O) \cup HighersOf(T)
SubscriberOf(T, O) == [p : {0} \cup T, b : BucketsOf(T), s : Seq(StatementsOf(T, O))]
AnsweredOf(T, O) == {c \in [at : T, q : {"part", "whole"}] : c.q = "whole" => c.at \in O}
AggregatesOf(T) == {w \in [at : Buckets, has : SUBSET T] : \A m \in w.has : BucketOf(m) = w.at}

Clock == now \in Minutes /\ ticks \in 0 .. 2 /\ LastMinute \in Nat

CandleOf(T) ==
    \/ candle = NoCandle
    \/ /\ candle \in [minute : T, got : SUBSET {1, 2}]
       /\ candle.minute = now => candle.got \subseteq 1 .. ticks

Subscriber == [p |-> prev, b |-> bucket, s |-> statements]

JobStates(Todos, T, O) ==
    [{"micro", "gap"} -> [todo : Todos, put : SUBSET AnsweredOf(T, O), write : SUBSET AggregatesOf(T)]]
JobsOf(T, O) == \E Todos : job \in JobStates(Todos, T, O)

TableOf(T, O) ==
    /\ row \in [Minutes -> [q : {"none", "part", "whole"}, done : BOOLEAN]]
    /\ \A m \in Minutes : /\ row[m].q = "none" => row[m] = NoRow
                          /\ row[m].q # "none" => m \in T
                          /\ row[m].q = "whole" => m \in O
    /\ higher \in [Buckets -> [has : SUBSET Minutes, done : BOOLEAN]]
    /\ \A b \in Buckets : \A m \in higher[b].has : m \in T /\ BucketOf(m) = b

CandleInv ==
    /\ Clock /\ CandleOf(Traded) /\ Subscriber \in SubscriberOf(Traded, Over)
    /\ JobsOf(Traded, Over) /\ TableOf(Traded, Over)

(* A step of time, or of anything else. *)
TimeStep ==
    /\ Clock /\ Clock'
    /\ \/ now' = now /\ ticks' \in {ticks, ticks + 1}
       \/ ticks = 2 /\ now' = now + 1

(* Time only adds to the minutes that were traded or are over. *)
LEMMA TimePasses ==
    ASSUME TimeStep
    PROVE  Traded \subseteq Traded' /\ Over \subseteq Over' /\ Traded \subseteq Minutes
  BY DEF TimeStep, Clock, Traded, Over, Minutes

LEMMA MoreStatements ==
    ASSUME NEW T, NEW O, NEW U, NEW P, T \subseteq U, O \subseteq P
    PROVE  SubscriberOf(T, O) \subseteq SubscriberOf(U, P)
  <1>1. MarksOf(T) \subseteq MarksOf(U)
    BY DEF MarksOf
  <1>2. RowsOf(T, O) \subseteq RowsOf(U, P)
    BY DEF RowsOf
  <1>3. HighersOf(T) \subseteq HighersOf(U)
    BY DEF HighersOf
  <1>4. StatementsOf(T, O) \subseteq StatementsOf(U, P)
    BY <1>1, <1>2, <1>3 DEF StatementsOf
  <1>5. ASSUME NEW s \in Seq(StatementsOf(T, O)) PROVE s \in Seq(StatementsOf(U, P))
    BY <1>4, <1>5, ElementOfSeq, SeqDef
  <1>6. BucketsOf(T) \subseteq BucketsOf(U)
    BY DEF BucketsOf
  <1>7. Seq(StatementsOf(T, O)) \subseteq Seq(StatementsOf(U, P))
    BY <1>5
  <1> HIDE DEF BucketsOf, StatementsOf
  <1> QED
    BY <1>6, <1>7 DEF SubscriberOf

(* What is left alone stays sound as time passes. *)
LEMMA SubscriberCarried ==
    ASSUME TimeStep, Subscriber \in SubscriberOf(Traded, Over), UNCHANGED subscriberVars
    PROVE  Subscriber' \in SubscriberOf(Traded, Over)'
  <1>1. Traded \subseteq Traded' /\ Over \subseteq Over'
    BY TimePasses
  <1>2. SubscriberOf(Traded, Over) \subseteq SubscriberOf(Traded', Over')
    BY <1>1, MoreStatements
  <1> QED
    BY <1>2 DEF Subscriber, subscriberVars

LEMMA JobsCarried ==
    ASSUME TimeStep, JobsOf(Traded, Over), UNCHANGED job
    PROVE  JobsOf(Traded, Over)'
  <1>1. Traded \subseteq Traded' /\ Over \subseteq Over'
    BY TimePasses
  <1>2. AnsweredOf(Traded, Over) \subseteq AnsweredOf(Traded', Over')
    BY <1>1 DEF AnsweredOf
  <1>3. AggregatesOf(Traded) \subseteq AggregatesOf(Traded')
    BY <1>1 DEF AggregatesOf
  <1>4. PICK Todos : job \in JobStates(Todos, Traded, Over)
    BY DEF JobsOf
  <1>5. job' \in JobStates(Todos, Traded', Over')
    BY <1>2, <1>3, <1>4 DEF JobStates
  <1> QED
    BY <1>5 DEF JobsOf

LEMMA TableCarried ==
    ASSUME TimeStep, TableOf(Traded, Over), UNCHANGED tableVars
    PROVE  TableOf(Traded, Over)'
  <1>1. Traded \subseteq Traded' /\ Over \subseteq Over'
    BY TimePasses
  <1> QED
    BY <1>1 DEF TableOf, tableVars

LEMMA CandleCarried ==
    ASSUME TimeStep, CandleOf(Traded), UNCHANGED candle
    PROVE  CandleOf(Traded)'
  <1>1. Traded \subseteq Traded'
    BY TimePasses
  <1>2. CASE candle = NoCandle
    BY <1>2 DEF CandleOf
  <1>3. CASE candle # NoCandle
    <2>1. candle.minute <= now /\ candle.minute \in Nat
      BY <1>3 DEF CandleOf, Traded, Minutes, TimeStep, Clock
    <2>2. candle'.minute = now' => now' = now /\ candle.got \subseteq 1 .. ticks'
      BY <1>3, <2>1 DEF CandleOf, TimeStep, Clock, Minutes
    <2> QED
      BY <1>1, <1>3, <2>2 DEF CandleOf
  <1> QED
    BY <1>2, <1>3

-----------------------------------------------------------------------------
(* A snapshot of a minute that came leaves the subscriber sound. *)
LEMMA HearSound ==
    ASSUME NEW T, NEW O, T \subseteq Minutes, NEW h \in SubscriberOf(T, O), NEW msg \in SnapshotsOf(T, O)
    PROVE  Hear(h, msg) \in SubscriberOf(T, O)
  <1> DEFINE St == StatementsOf(T, O)
             merged == MergedBucket(h.b, msg.minute)
  <1>1. msg.minute \in T /\ BucketOf(msg.minute) \in Buckets
    BY DEF SnapshotsOf, Buckets
  <1>2. h.p \in {0} \cup T /\ h.b \in BucketsOf(T) /\ h.s \in Seq(St)
    BY DEF SubscriberOf
  <1>3. merged \in [start : Buckets, has : SUBSET T] /\ \A m \in merged.has : BucketOf(m) = merged.start
    <2>1. CASE h.b.start = BucketOf(msg.minute)
      <3>1. h.b.has \subseteq T /\ \A m \in h.b.has : BucketOf(m) = h.b.start
        BY <1>2 DEF BucketsOf, NoBucket
      <3>2. merged = [start |-> h.b.start, has |-> h.b.has \cup {msg.minute}]
        BY <1>2, <2>1 DEF MergedBucket, BucketsOf, NoBucket
      <3> QED
        BY <1>1, <2>1, <3>1, <3>2
    <2>2. CASE h.b.start # BucketOf(msg.minute)
      BY <1>1, <2>2 DEF MergedBucket
    <2> QED
      BY <2>1, <2>2
  <1>4. Higher(merged, FALSE) \in St
    BY <1>3 DEF Higher, StatementsOf, HighersOf
  <1>5. h.p \notin {0, msg.minute} => Mark(h.p) \in St
    BY <1>2 DEF Mark, StatementsOf, MarksOf
  <1>6. Row(msg.minute, msg.q, msg.final) \in St
    BY DEF SnapshotsOf, Row, StatementsOf, RowsOf
  <1>7. h.b.start \notin {-1, BucketOf(msg.minute)} => Higher(h.b, TRUE) \in St
    BY <1>2 DEF BucketsOf, NoBucket, Higher, StatementsOf, HighersOf
  <1> HIDE DEF St, merged
  <1>8. Sent(h.p, h.b, msg) \in Seq(St)
    <2> DEFINE marks == IF h.p \notin {0, msg.minute} THEN <<Mark(h.p)>> ELSE <<>>
               rows == <<Row(msg.minute, msg.q, msg.final)>>
               done == IF h.b.start \notin {-1, BucketOf(msg.minute)} THEN <<Higher(h.b, TRUE)>> ELSE <<>>
               live == <<Higher(merged, FALSE)>>
    <2>1. marks \in Seq(St) /\ rows \in Seq(St) /\ done \in Seq(St) /\ live \in Seq(St)
      <3>1. <<>> \in Seq(St) /\ \A x \in St : <<x>> \in Seq(St)
        OBVIOUS
      <3>2. marks \in Seq(St)
        BY <1>5, <3>1
      <3>3. done \in Seq(St)
        BY <1>7, <3>1
      <3> QED
        BY <1>4, <1>6, <3>1, <3>2, <3>3
    <2>2. Sent(h.p, h.b, msg) = ((marks \o rows) \o done) \o live
      BY DEF Sent, merged
    <2> HIDE DEF marks, rows, done, live
    <2>3. marks \o rows \in Seq(St)
      BY <2>1, ConcatProperties
    <2>4. (marks \o rows) \o done \in Seq(St)
      BY <2>1, <2>3, ConcatProperties
    <2> QED
      BY <2>1, <2>2, <2>4, ConcatProperties
  <1>9. h.s \o Sent(h.p, h.b, msg) \in Seq(St)
    BY <1>2, <1>8, ConcatProperties
  <1>10. merged \in BucketsOf(T)
    BY <1>3 DEF BucketsOf
  <1> QED
    BY <1>1, <1>9, <1>10 DEF Hear, SubscriberOf, St, merged

LEMMA RemoveAtSound ==
    ASSUME NEW S, NEW s \in Seq(S), NEW i \in 1 .. Len(s)
    PROVE  RemoveAt(s, i) \in Seq(S)
  <1>1. SubSeq(s, 1, i - 1) \in Seq(S)
    BY SubSeqProperties
  <1>2. SubSeq(s, i + 1, Len(s)) \in Seq(S)
    BY SubSeqProperties
  <1> QED
    BY <1>1, <1>2, ConcatProperties DEF RemoveAt

LEMMA InitCandles ==
    ASSUME FirstMinute \in Minutes, LastMinute \in Nat, CandleInit
    PROVE  CandleInv
  <1>1. Clock /\ Traded = 1 .. FirstMinute - 1 /\ Over = Traded
    BY DEF Clock, CandleInit, Minutes, Traded, Over
  <1>2. CandleOf(Traded)
    BY DEF CandleInit, CandleOf
  <1>3. Subscriber \in SubscriberOf(Traded, Over)
    <2>1. bucket \in BucketsOf(Traded) /\ statements \in Seq(StatementsOf(Traded, Over))
      BY DEF CandleInit, BucketsOf
    <2> QED
      BY <2>1 DEF CandleInit, Subscriber, SubscriberOf
  <1>4. job \in JobStates({<<>>}, Traded, Over)
    BY DEF CandleInit, Idle, JobStates
  <1>5. TableOf(Traded, Over)
    <2>1. PICK old \in SUBSET (1 .. FirstMinute - 1) :
              row = [m \in Minutes |-> IF m \in old THEN Whole ELSE NoRow]
      BY DEF CandleInit
    <2>2. /\ row \in [Minutes -> [q : {"none", "part", "whole"}, done : BOOLEAN]]
          /\ \A m \in Minutes : /\ row[m].q = "none" => row[m] = NoRow
                                /\ row[m].q # "none" => m \in Traded
                                /\ row[m].q = "whole" => m \in Over
      BY <1>1, <2>1 DEF Whole, NoRow
    <2>3. \A m \in Minutes : row[m] = Whole => m \in Traded
      BY <2>2 DEF Whole
    <2>4. higher = [b \in Buckets |-> [has |-> {m \in Minutes : BucketOf(m) = b /\ row[m] = Whole},
                                       done |-> \E m \in Minutes : BucketOf(m) = b /\ row[m] = Whole]]
      BY DEF CandleInit
    <2>5. /\ higher \in [Buckets -> [has : SUBSET Minutes, done : BOOLEAN]]
          /\ \A b \in Buckets : higher[b].has = {m \in Minutes : BucketOf(m) = b /\ row[m] = Whole}
      BY <2>4
    <2> QED
      BY <2>2, <2>3, <2>5 DEF TableOf
  <1> QED
    BY <1>1, <1>2, <1>3, <1>4, <1>5 DEF CandleInv, JobsOf

(* The candle in progress and the subscriber after a tick. *)
LEMMA TickSound ==
    ASSUME CandleInv, TimeStep, now' = now, ticks' = ticks + 1, NEW due \in BOOLEAN, OnTick(ticks + 1, due)
    PROVE  CandleOf(Traded)' /\ Subscriber' \in SubscriberOf(Traded, Over)'
  <1> DEFINE fresh == candle.minute # now
             c == [minute |-> now, got |-> IF fresh THEN {ticks + 1} ELSE candle.got \cup {ticks + 1}]
             ended == IF fresh /\ candle # NoCandle THEN Hear(Subscriber, Snapshot(candle, TRUE)) ELSE Subscriber
             heard == IF fresh \/ due THEN Hear(ended, Snapshot(c, FALSE)) ELSE ended
  <1>1. Traded \subseteq Traded' /\ Over \subseteq Over' /\ Traded' \subseteq Minutes
    BY TimePasses DEF Traded
  <1>2. now \in Traded' /\ ticks' \in 1 .. 2 /\ ticks \in 0 .. 2 /\ (ticks' = 2 => now \in Over')
    BY DEF TimeStep, Clock, Traded, Over
  <1>3. /\ ~fresh => candle.got \subseteq 1 .. ticks
        /\ candle # NoCandle => candle.minute \in Traded
    BY DEF CandleInv, CandleOf, NoCandle, TimeStep, Clock, Minutes
  <1>4. c.got \subseteq 1 .. ticks' /\ c.got \subseteq {1, 2} /\ c.minute = now
    BY <1>2, <1>3
  <1>5. Snapshot(c, FALSE) \in SnapshotsOf(Traded', Over')
    <2>1. Quality(c.got) = "whole" => ticks' = 2
      BY <1>2, <1>4 DEF Quality
    <2> HIDE DEF c
    <2> QED
      BY <1>2, <1>4, <2>1 DEF Snapshot, SnapshotsOf, Quality
  <1>6. fresh /\ candle # NoCandle => Snapshot(candle, TRUE) \in SnapshotsOf(Traded', Over')
    <2>1. fresh /\ candle # NoCandle => candle.minute \in Over /\ candle.minute \in Traded
      BY <1>3 DEF Traded, Over
    <2> QED
      BY <1>1, <2>1 DEF Snapshot, SnapshotsOf, Quality
  <1>7. Subscriber \in SubscriberOf(Traded', Over')
    BY <1>1, MoreStatements DEF CandleInv
  <1> HIDE DEF fresh, c
  <1>8. ended \in SubscriberOf(Traded', Over')
    BY <1>1, <1>6, <1>7, HearSound
  <1> HIDE DEF ended
  <1>9. heard \in SubscriberOf(Traded', Over')
    BY <1>1, <1>5, <1>8, HearSound
  <1> HIDE DEF heard
  <1>10. /\ candle' = c
         /\ IF serving THEN prev' = heard.p /\ bucket' = heard.b /\ statements' = heard.s
            ELSE UNCHANGED subscriberVars
    BY DEF OnTick, c, fresh, ended, heard, Subscriber
  <1>11. Subscriber' \in SubscriberOf(Traded', Over')
    <2>1. CASE serving
      <3>1. heard = [p |-> heard.p, b |-> heard.b, s |-> heard.s]
        BY <1>9 DEF SubscriberOf
      <3> QED
        BY <1>9, <1>10, <2>1, <3>1 DEF Subscriber
    <2>2. CASE ~serving
      BY <1>7, <1>10, <2>2 DEF Subscriber, subscriberVars
    <2> QED
      BY <2>1, <2>2
  <1>12. CandleOf(Traded)'
    <2>1. candle' \in [minute : Traded', got : SUBSET {1, 2}]
      BY <1>2, <1>4, <1>10 DEF c
    <2> QED
      BY <1>4, <1>10, <2>1 DEF CandleOf
  <1> QED
    BY <1>11, <1>12

(* The row of a minute that was traded is replaced. *)
LEMMA NewRow ==
    ASSUME TableOf(Traded, Over), UNCHANGED <<timeVars, higher>>, NEW at \in Traded,
           NEW new \in [q : {"part", "whole"}, done : BOOLEAN], new.q = "whole" => at \in Over,
           row' = [row EXCEPT ![at] = new]
    PROVE  TableOf(Traded, Over)'
  <1>1. Traded' = Traded /\ Over' = Over /\ at \in Minutes
    BY DEF timeVars, Traded, Over
  <1>2. row' \in [Minutes -> [q : {"none", "part", "whole"}, done : BOOLEAN]]
    BY <1>1 DEF TableOf
  <1>3. \A m \in Minutes : row'[m] = IF m = at THEN new ELSE row[m]
    BY DEF TableOf
  <1> QED
    BY <1>1, <1>2, <1>3 DEF TableOf

(* Rows and candles of the higher timeframe after the statement that is executed. *)
LEMMA ExecuteSound ==
    ASSUME CandleInv, ExecuteStatement
    PROVE  TableOf(Traded, Over)' /\ Subscriber' \in SubscriberOf(Traded, Over)'
  <1>1. PICK i \in 1 .. Len(statements) :
           LET s == statements[i] IN
             /\ row' = CASE s.do = "mark" /\ row[s.at].q # "none" -> [row EXCEPT ![s.at].done = TRUE]
                         [] s.do = "row" -> [row EXCEPT ![s.at] = Upserted(@, s.new, s.force)]
                         [] OTHER -> row
             /\ higher' = IF s.do = "higher"
                            THEN [higher EXCEPT ![s.at] = Upserted(@, s.new, s.force)] ELSE higher
             /\ statements' = RemoveAt(statements, i)
    BY DEF ExecuteStatement
  <1> DEFINE s == statements[i]
  <1>2. prev \in {0} \cup Traded /\ bucket \in BucketsOf(Traded)
        /\ statements \in Seq(StatementsOf(Traded, Over))
    BY DEF CandleInv, Subscriber, SubscriberOf
  <1>3. s \in StatementsOf(Traded, Over)
    BY <1>2, ElementOfSeq
  <1>4. UNCHANGED <<timeVars, prev, bucket>> /\ Traded' = Traded /\ Over' = Over
    BY DEF ExecuteStatement, timeVars, Traded, Over
  <1>5. Subscriber' \in SubscriberOf(Traded, Over)'
    BY <1>1, <1>2, <1>4, RemoveAtSound DEF Subscriber, SubscriberOf
  <1>6. TableOf(Traded, Over) /\ Traded \subseteq Minutes
    BY DEF CandleInv, Traded
  <1> SUFFICES TableOf(Traded, Over)'
    BY <1>5
  <1> HIDE DEF s
  <1>7. CASE s \in MarksOf(Traded)
    <2>1. s.do = "mark" /\ s.at \in Traded
      BY <1>7 DEF MarksOf
    <2>2. /\ higher' = higher
          /\ \/ row' = row
             \/ row[s.at].q # "none" /\ row' = [row EXCEPT ![s.at] = [row[s.at] EXCEPT !.done = TRUE]]
      BY <1>1, <2>1 DEF s
    <2>3. CASE row' = row
      BY <1>4, <1>6, <2>2, <2>3 DEF TableOf
    <2>4. CASE row[s.at].q # "none" /\ row' = [row EXCEPT ![s.at] = [row[s.at] EXCEPT !.done = TRUE]]
      <3> DEFINE new == [row[s.at] EXCEPT !.done = TRUE]
      <3>1. row[s.at] \in [q : {"none", "part", "whole"}, done : BOOLEAN]
            /\ (row[s.at].q = "whole" => s.at \in Over)
        BY <1>6, <2>1 DEF TableOf
      <3>2. new \in [q : {"part", "whole"}, done : BOOLEAN] /\ (new.q = "whole" => s.at \in Over)
        BY <2>4, <3>1
      <3> HIDE DEF new
      <3> QED
        BY <1>4, <1>6, <2>1, <2>2, <2>4, <3>2, NewRow DEF new
    <2> QED
      BY <2>2, <2>3, <2>4
  <1>8. CASE s \in RowsOf(Traded, Over)
    <2>1. /\ s.do = "row" /\ s.at \in Traded /\ s.force \in BOOLEAN
          /\ s.new \in [q : {"part", "whole"}, done : {FALSE}] /\ (s.new.q = "whole" => s.at \in Over)
      BY <1>8 DEF RowsOf
    <2>2. higher' = higher /\ row' = [row EXCEPT ![s.at] = Upserted(row[s.at], s.new, s.force)]
      BY <1>1, <2>1 DEF s
    <2>3. Upserted(row[s.at], s.new, s.force) \in {row[s.at], [s.new EXCEPT !.done = s.force]}
      BY DEF Upserted
    <2>4. [s.new EXCEPT !.done = s.force] \in [q : {"part", "whole"}, done : BOOLEAN]
          /\ [s.new EXCEPT !.done = s.force].q = s.new.q
      BY <2>1
    <2>5. CASE Upserted(row[s.at], s.new, s.force) = row[s.at]
      <3>1. row' = row
        BY <1>6, <2>2, <2>5 DEF TableOf
      <3> QED
        BY <1>4, <1>6, <2>2, <3>1 DEF TableOf
    <2>6. CASE Upserted(row[s.at], s.new, s.force) = [s.new EXCEPT !.done = s.force]
      BY <1>4, <1>6, <2>1, <2>2, <2>4, <2>6, NewRow
    <2> QED
      BY <2>3, <2>5, <2>6
  <1>9. CASE s \in HighersOf(Traded)
    <2>1. /\ s.do = "higher" /\ s.at \in Buckets /\ s.force \in BOOLEAN
          /\ s.new \in [has : SUBSET Traded, done : {FALSE}] /\ \A m \in s.new.has : BucketOf(m) = s.at
      BY <1>9 DEF HighersOf
    <2>2. row' = row /\ higher' = [higher EXCEPT ![s.at] = Upserted(higher[s.at], s.new, s.force)]
      BY <1>1, <2>1 DEF s
    <2>3. Upserted(higher[s.at], s.new, s.force) \in {higher[s.at], [s.new EXCEPT !.done = s.force]}
      BY DEF Upserted
    <2>4. [s.new EXCEPT !.done = s.force] \in [has : SUBSET Minutes, done : BOOLEAN]
          /\ [s.new EXCEPT !.done = s.force].has = s.new.has
      BY <1>6, <2>1
    <2>5. CASE Upserted(higher[s.at], s.new, s.force) = higher[s.at]
      <3>1. higher' = higher
        BY <1>6, <2>2, <2>5 DEF TableOf
      <3> QED
        BY <1>4, <1>6, <2>2, <3>1 DEF TableOf
    <2>6. CASE Upserted(higher[s.at], s.new, s.force) = [s.new EXCEPT !.done = s.force]
      <3> DEFINE new == [s.new EXCEPT !.done = s.force]
      <3>1. new \in [has : SUBSET Minutes, done : BOOLEAN]
            /\ \A m \in new.has : m \in Traded /\ BucketOf(m) = s.at
        BY <2>1, <2>4
      <3>2. higher' = [higher EXCEPT ![s.at] = new]
        BY <2>2, <2>6
      <3> HIDE DEF new
      <3> QED
        BY <1>4, <1>6, <2>1, <2>2, <3>1, <3>2 DEF TableOf
    <2> QED
      BY <2>3, <2>5, <2>6
  <1> QED
    BY <1>3, <1>7, <1>8, <1>9 DEF StatementsOf

(* What an answer of the broker brings. *)
LEMMA AnswersSound ==
    ASSUME Clock, NEW t, NEW works, NEW answer \in Answers(t, works)
    PROVE  answer \subseteq AnsweredOf(Traded, Over)
  <1>1. \A m \in Traded : Candle(m) \in AnsweredOf(Traded, Over)
    BY DEF Clock, Candle, AnsweredOf, Traded, Over, Minutes
  <1>2. PICK cut : answer = {Candle(m) : m \in {n \in Traded : t.from <= n /\ n <= t.to /\ n > cut}}
    BY DEF Answers
  <1> QED
    BY <1>1, <1>2

(* The jobs: what one may hold to write after a step of its own. *)
LEMMA JobSound ==
    ASSUME JobsOf(Traded, Over), UNCHANGED timeVars, NEW j \in {"micro", "gap"},
           NEW todo, NEW put \in SUBSET AnsweredOf(Traded, Over), NEW write \in SUBSET AggregatesOf(Traded),
           \/ job' = [job EXCEPT ![j].todo = todo]
           \/ job' = [job EXCEPT ![j].put = put]
           \/ job' = [job EXCEPT ![j].write = write]
           \/ job' = [job EXCEPT ![j].put = put, ![j].todo = todo]
           \/ job' = [job EXCEPT ![j].todo = todo, ![j].write = write]
           \/ job' = [job EXCEPT ![j] = Idle]
    PROVE  JobsOf(Traded, Over)'
  <1>1. Traded' = Traded /\ Over' = Over
    BY DEF timeVars, Traded, Over
  <1>2. PICK Todos : job \in JobStates(Todos, Traded, Over)
    BY DEF JobsOf
  <1> DEFINE More == Todos \cup {todo, <<>>}
  <1>3. todo \in More /\ <<>> \in More /\ Todos \subseteq More
    OBVIOUS
  <1> HIDE DEF More
  <1>4. job' \in JobStates(More, Traded, Over)
    <2>1. job \in JobStates(More, Traded, Over)
      BY <1>2, <1>3 DEF JobStates
    <2>2. CASE job' = [job EXCEPT ![j].todo = todo]
      BY <1>3, <2>1, <2>2 DEF JobStates
    <2>3. CASE job' = [job EXCEPT ![j].put = put]
      BY <2>1, <2>3 DEF JobStates
    <2>4. CASE job' = [job EXCEPT ![j].write = write]
      BY <2>1, <2>4 DEF JobStates
    <2>5. CASE job' = [job EXCEPT ![j].put = put, ![j].todo = todo]
      BY <1>3, <2>1, <2>5 DEF JobStates
    <2>6. CASE job' = [job EXCEPT ![j].todo = todo, ![j].write = write]
      BY <1>3, <2>1, <2>6 DEF JobStates
    <2>7. CASE job' = [job EXCEPT ![j] = Idle]
      BY <1>3, <2>1, <2>7 DEF JobStates, Idle
    <2> QED
      BY <2>2, <2>3, <2>4, <2>5, <2>6, <2>7
  <1>5. JobStates(More, Traded', Over') = JobStates(More, Traded, Over)
    BY <1>1
  <1>6. \E S : job' \in JobStates(S, Traded', Over')
    BY <1>4, <1>5
  <1> QED
    BY <1>6 DEF JobsOf

LEMMA PutSound ==
    ASSUME CandleInv, NEW j \in {"micro", "gap"}, PutCandles(j)
    PROVE  TableOf(Traded, Over)' /\ JobsOf(Traded, Over)'
  <1>1. Traded' = Traded /\ Over' = Over /\ UNCHANGED <<timeVars, higher>>
    BY DEF PutCandles, JobStep, timeVars, Traded, Over
  <1>2. job[j].put \subseteq AnsweredOf(Traded, Over) /\ job[j].write \subseteq AggregatesOf(Traded)
    BY DEF CandleInv, JobsOf, JobStates
  <1>3. job' = [job EXCEPT ![j].put = {}]
    BY DEF PutCandles
  <1>4. JobsOf(Traded, Over)'
    <2>1. JobsOf(Traded, Over)
      BY DEF CandleInv
    <2> QED
      BY <1>1, <1>3, <2>1, JobSound
  <1>5. ASSUME NEW m \in Minutes
        PROVE  /\ row'[m] \in [q : {"none", "part", "whole"}, done : BOOLEAN]
               /\ row'[m].q = "none" => row'[m] = NoRow
               /\ row'[m].q # "none" => m \in Traded
               /\ row'[m].q = "whole" => m \in Over
    <2>1. CASE \E c \in job[j].put : c.at = m
      <3> DEFINE c == CHOOSE d \in job[j].put : d.at = m
      <3>1. c \in AnsweredOf(Traded, Over) /\ c.at = m
        BY <1>2, <2>1
      <3>2. row'[m] = Upserted(row[m], [q |-> c.q, done |-> FALSE], TRUE)
        BY <2>1 DEF PutCandles
      <3> HIDE DEF c
      <3> QED
        BY <3>1, <3>2 DEF Upserted, AnsweredOf
    <2>2. CASE ~\E c \in job[j].put : c.at = m
      BY <2>2 DEF PutCandles, CandleInv, TableOf
    <2> QED
      BY <2>1, <2>2
  <1>6. row' \in [Minutes -> [q : {"none", "part", "whole"}, done : BOOLEAN]]
    BY <1>5 DEF PutCandles
  <1> QED
    BY <1>1, <1>4, <1>5, <1>6 DEF CandleInv, TableOf

LEMMA AggregateSound ==
    ASSUME TableOf(Traded, Over), NEW from, NEW to
    PROVE  Aggregated(from, to) \subseteq AggregatesOf(Traded)
  <1>1. Persisted \subseteq Traded
    BY DEF TableOf, Persisted, NoRow
  <1>2. \A m \in Persisted : BucketOf(m) \in Buckets
    BY DEF Persisted, Buckets
  <1> QED
    BY <1>1, <1>2 DEF Aggregated, AggregatesOf

LEMMA PutAggregatesSound ==
    ASSUME CandleInv, NEW j \in {"micro", "gap"}, PutAggregates(j)
    PROVE  TableOf(Traded, Over)' /\ JobsOf(Traded, Over)'
  <1>1. Traded' = Traded /\ Over' = Over /\ UNCHANGED <<timeVars, row>> /\ Traded \subseteq Minutes
    BY DEF PutAggregates, JobStep, timeVars, Traded, Over
  <1>2. job[j].put \subseteq AnsweredOf(Traded, Over) /\ job[j].write \subseteq AggregatesOf(Traded)
    BY DEF CandleInv, JobsOf, JobStates
  <1>3. job' = [job EXCEPT ![j].write = {}]
    BY DEF PutAggregates
  <1>4. JobsOf(Traded, Over)'
    <2>1. JobsOf(Traded, Over)
      BY DEF CandleInv
    <2> QED
      BY <1>1, <1>3, <2>1, JobSound
  <1>5. ASSUME NEW b \in Buckets
        PROVE  /\ higher'[b] \in [has : SUBSET Minutes, done : BOOLEAN]
               /\ \A m \in higher'[b].has : m \in Traded /\ BucketOf(m) = b
    <2>1. CASE \E w \in job[j].write : w.at = b
      <3> DEFINE w == CHOOSE v \in job[j].write : v.at = b
      <3>1. w \in AggregatesOf(Traded) /\ w.at = b
        BY <1>2, <2>1
      <3>2. higher'[b] = Upserted(higher[b], [has |-> w.has, done |-> FALSE], TRUE)
        BY <2>1 DEF PutAggregates
      <3> HIDE DEF w
      <3> QED
        BY <1>1, <3>1, <3>2 DEF Upserted, AggregatesOf
    <2>2. CASE ~\E w \in job[j].write : w.at = b
      BY <2>2 DEF PutAggregates, CandleInv, TableOf
    <2> QED
      BY <2>1, <2>2
  <1>6. higher' \in [Buckets -> [has : SUBSET Minutes, done : BOOLEAN]]
    BY <1>5 DEF PutAggregates
  <1> QED
    BY <1>1, <1>4, <1>5, <1>6 DEF CandleInv, TableOf

-----------------------------------------------------------------------------
LEMMA OnlyJobs ==
    ASSUME CandleInv, UNCHANGED <<timeVars, candle, subscriberVars, tableVars>>, JobsOf(Traded, Over)'
    PROVE  CandleInv'
  <1>1. TimeStep /\ Clock'
    BY DEF CandleInv, TimeStep, Clock, Minutes, timeVars
  <1> QED
    BY <1>1, SubscriberCarried, TableCarried, CandleCarried DEF CandleInv

LEMMA NextTodo ==
    ASSUME CandleInv, UNCHANGED <<timeVars, candle, subscriberVars, tableVars>>,
           NEW j \in {"micro", "gap"}, NEW todo, job' = [job EXCEPT ![j].todo = todo]
    PROVE  CandleInv'
  <1>1. JobsOf(Traded, Over) /\ UNCHANGED timeVars
    BY DEF CandleInv
  <1>2. JobsOf(Traded, Over)'
    BY <1>1, JobSound
  <1> QED
    BY <1>2, OnlyJobs

LEMMA NextCandles == CandleInv /\ [CandleNext]_candleVars => CandleInv'
  <1> SUFFICES ASSUME CandleInv, [CandleNext]_candleVars PROVE CandleInv'
    OBVIOUS
  <1>1. /\ Clock /\ CandleOf(Traded) /\ Subscriber \in SubscriberOf(Traded, Over)
        /\ JobsOf(Traded, Over) /\ TableOf(Traded, Over)
    BY DEF CandleInv
  <1>2. ASSUME TimeStep, UNCHANGED <<candle, subscriberVars, tableVars, job>> PROVE CandleInv'
    BY <1>1, <1>2, SubscriberCarried, TableCarried, CandleCarried, JobsCarried DEF CandleInv, TimeStep
  <1>3. ASSUME UNCHANGED <<timeVars, candle, subscriberVars, tableVars, job>> PROVE CandleInv'
    <2>1. TimeStep
      BY <1>1, <1>3 DEF TimeStep, Clock, Minutes, timeVars
    <2> QED
      BY <1>2, <1>3, <2>1
  <1>4. CASE Tick
    <2>1. TimeStep /\ now' = now /\ ticks' = ticks + 1 /\ UNCHANGED <<tableVars, job>>
      BY <1>1, <1>4 DEF Tick, TimeStep, Clock, Minutes, jobVars
    <2>2. CASE streaming
      <3>1. PICK due \in BOOLEAN : OnTick(ticks + 1, due)
        BY <1>4, <2>2 DEF Tick
      <3>2. CandleOf(Traded)' /\ Subscriber' \in SubscriberOf(Traded, Over)'
        BY <2>1, <3>1, TickSound
      <3> QED
        BY <1>1, <2>1, <3>2, TableCarried, JobsCarried DEF CandleInv, TimeStep
    <2>3. CASE ~streaming
      BY <1>2, <1>4, <2>1, <2>3 DEF Tick
    <2> QED
      BY <2>2, <2>3
  <1>5. CASE NextMinute
    <2>1. TimeStep
      BY <1>1, <1>5 DEF NextMinute, TimeStep, Clock, Minutes
    <2> QED
      BY <1>2, <1>5, <2>1 DEF NextMinute, liveVars, jobVars
  <1>6. CASE StreamBreaks \/ StreamResumes
    BY <1>3, <1>6 DEF StreamBreaks, StreamResumes, jobVars
  <1>7. CASE ExecuteStatement
    <2>1. TimeStep /\ UNCHANGED <<candle, job>>
      BY <1>1, <1>7 DEF ExecuteStatement, TimeStep, Clock, Minutes, timeVars, liveVars, jobVars
    <2> QED
      BY <1>1, <1>7, <2>1, ExecuteSound, CandleCarried, JobsCarried DEF CandleInv, TimeStep
  <1>8. CASE BackendDies
    <2>1. TimeStep /\ UNCHANGED <<timeVars, candle, tableVars>>
      BY <1>1, <1>8 DEF BackendDies, TimeStep, Clock, Minutes, timeVars, liveVars
    <2>2. bucket' \in BucketsOf(Traded)' /\ statements' \in Seq(StatementsOf(Traded, Over))' /\ prev' = 0
      BY <1>8 DEF BackendDies, BucketsOf
    <2>3. Subscriber' \in SubscriberOf(Traded, Over)'
      BY <2>2 DEF Subscriber, SubscriberOf
    <2>4. job' \in JobStates({<<>>}, Traded', Over')
      BY <1>1, <1>8 DEF BackendDies, Idle, JobStates, JobsOf
    <2> QED
      BY <1>1, <2>1, <2>3, <2>4, CandleCarried, TableCarried DEF CandleInv, TimeStep, JobsOf
  <1>9. CASE BackendStarts
    BY <1>9, NextTodo DEF BackendStarts, liveVars
  <1>10. CASE Retain
    <2>1. TimeStep /\ UNCHANGED <<timeVars, candle, subscriberVars, job>>
      BY <1>1, <1>10 DEF Retain, TimeStep, Clock, Minutes, timeVars, liveVars, jobVars
    <2>2. TableOf(Traded, Over)'
      <3>1. Traded' = Traded /\ Over' = Over
        BY <2>1 DEF timeVars, Traded, Over
      <3>2. /\ row' = [m \in Minutes |-> IF m < now - Retention THEN NoRow ELSE row[m]]
            /\ higher' = [b \in Buckets |-> IF b < now - Retention THEN [has |-> {}, done |-> FALSE]
                                             ELSE higher[b]]
        BY <1>10 DEF Retain
      <3> QED
        BY <1>1, <3>1, <3>2 DEF TableOf, NoRow
    <2> QED
      BY <1>1, <2>1, <2>2, SubscriberCarried, CandleCarried, JobsCarried DEF CandleInv, TimeStep
  <1>11. ASSUME NEW j \in {"micro", "gap"}, NEW tasks, BeginJob(j, tasks) PROVE CandleInv'
    BY <1>11, NextTodo DEF BeginJob, liveVars
  <1>12. ASSUME NEW tasks, Replace("gap", tasks), JobStep, UNCHANGED tableVars PROVE CandleInv'
    BY <1>12, NextTodo DEF Replace, JobStep, liveVars
  <1>13. CASE MicroBackfill \/ PeriodicGapFill
    BY <1>11, <1>13 DEF MicroBackfill, PeriodicGapFill
  <1>14. ASSUME NEW j \in {"micro", "gap"}, JobNext(j) PROVE CandleInv'
    <2>1. CASE PutCandles(j) \/ PutAggregates(j)
      <3>1. TimeStep /\ UNCHANGED <<candle, subscriberVars>>
        BY <1>1, <2>1 DEF PutCandles, PutAggregates, JobStep, TimeStep, Clock, Minutes, timeVars, liveVars
      <3>2. TableOf(Traded, Over)' /\ JobsOf(Traded, Over)'
        BY <2>1, PutSound, PutAggregatesSound
      <3> QED
        BY <1>1, <3>1, <3>2, SubscriberCarried, CandleCarried DEF CandleInv, TimeStep
    <2>2. CASE Aggregate(j)
      <3>1. UNCHANGED <<timeVars, candle, subscriberVars, tableVars>>
        BY <2>2 DEF Aggregate, JobStep, liveVars
      <3> DEFINE t == Head(job[j].todo)
                 write == Aggregated(t.from, t.to)
      <3>2. write \in SUBSET AggregatesOf(Traded)
        BY <1>1, AggregateSound
      <3>3. job' = [job EXCEPT ![j].todo = Tail(job[j].todo), ![j].write = write]
        BY <2>2 DEF Aggregate
      <3> HIDE DEF write
      <3>4. JobsOf(Traded, Over)'
        BY <1>1, <3>1, <3>2, <3>3, JobSound
      <3> QED
        BY <3>1, <3>4, OnlyJobs
    <2> QED
      BY <1>14, <2>1, <2>2 DEF JobNext
  <1>15. ASSUME NEW b \in BOOLEAN, TriggerBackfill(b) PROVE CandleInv'
    BY <1>11, <1>15 DEF TriggerBackfill
  <1>16. ASSUME NEW b \in BOOLEAN, AskRecent(b) PROVE CandleInv'
    <2>1. UNCHANGED <<timeVars, candle, subscriberVars, tableVars>>
      BY <1>16 DEF AskRecent, JobStep, liveVars
    <2>2. PICK answer \in Answers(Head(job["micro"].todo), b) :
             \/ job' = [job EXCEPT !["micro"] = Idle]
             \/ job' = [job EXCEPT !["micro"].put = answer, !["micro"].todo = Tail(job["micro"].todo)]
      BY <1>16 DEF AskRecent
    <2>3. answer \in SUBSET AnsweredOf(Traded, Over)
      BY <1>1, AnswersSound
    <2>4. JobsOf(Traded, Over)'
      BY <1>1, <2>1, <2>2, <2>3, JobSound
    <2> QED
      BY <2>1, <2>4, OnlyJobs
  <1>17. ASSUME NEW b \in BOOLEAN, AskChunk(b) PROVE CandleInv'
    <2>1. UNCHANGED <<timeVars, candle, subscriberVars, tableVars>>
      BY <1>17 DEF AskChunk, JobStep, liveVars
    <2> DEFINE t == Head(job["gap"].todo)
               from == IF t.to - Chunk < t.from THEN t.from ELSE t.to - Chunk
               rest == IF from > t.from THEN <<Task("fill", t.from, from)>> ELSE <<>>
    <2>2. \/ Replace("gap", <<>>)
          \/ \E answer \in Answers([t EXCEPT !.from = from], b) :
                job' = [job EXCEPT !["gap"].put = answer, !["gap"].todo = rest \o Tail(job["gap"].todo)]
      BY <1>17 DEF AskChunk
    <2> HIDE DEF t, from, rest
    <2>3. CASE Replace("gap", <<>>)
      BY <1>12, <1>17, <2>3 DEF AskChunk
    <2>4. ASSUME NEW answer \in Answers([t EXCEPT !.from = from], b),
                 job' = [job EXCEPT !["gap"].put = answer, !["gap"].todo = rest \o Tail(job["gap"].todo)]
          PROVE  CandleInv'
      <3>1. answer \in SUBSET AnsweredOf(Traded, Over)
        BY <1>1, AnswersSound
      <3>2. JobsOf(Traded, Over)'
        BY <1>1, <2>1, <2>4, <3>1, JobSound
      <3> QED
        BY <2>1, <3>2, OnlyJobs
    <2> QED
      BY <2>2, <2>3, <2>4
  <1>18. ASSUME NEW b \in BOOLEAN, AskFlat(b) PROVE CandleInv'
    <2>1. UNCHANGED <<timeVars, candle, subscriberVars, tableVars>>
      BY <1>18 DEF AskFlat, JobStep, liveVars
    <2>2. PICK answer \in Answers(Head(job["gap"].todo), b) :
             job' = [job EXCEPT !["gap"].put = {c \in answer : c.q = "whole"},
                                !["gap"].todo = IF answer = {} THEN Tail(Tail(job["gap"].todo))
                                                ELSE Tail(job["gap"].todo)]
      BY <1>18 DEF AskFlat
    <2>3. {c \in answer : c.q = "whole"} \in SUBSET AnsweredOf(Traded, Over)
      BY <1>1, AnswersSound
    <2>4. JobsOf(Traded, Over)'
      BY <1>1, <2>1, <2>2, <2>3, JobSound
    <2> QED
      BY <2>1, <2>4, OnlyJobs
  <1>19. CASE GapFill
    BY <1>12, <1>19 DEF GapFill
  <1>20. CASE DetectInternalGaps
    BY <1>12, <1>20 DEF DetectInternalGaps
  <1>21. CASE DetectHigherGaps
    BY <1>12, <1>21 DEF DetectHigherGaps
  <1>22. CASE RefillFlat
    BY <1>12, <1>22 DEF RefillFlat
  <1>23. CASE RecoverIncomplete
    BY <1>12, <1>23 DEF RecoverIncomplete
  <1>24. CASE UNCHANGED candleVars
    BY <1>3, <1>24 DEF candleVars, liveVars, jobVars
  <1> QED
    BY <1>4, <1>5, <1>6, <1>7, <1>8, <1>9, <1>10, <1>13, <1>14, <1>15, <1>16, <1>17, <1>18, <1>19,
       <1>20, <1>21, <1>22, <1>23, <1>24 DEF CandleNext

(* The table holds the past: a candle of a minute only when it was traded, said whole only when *)
(* the minute is over, and a candle of the higher timeframe is made of minutes of its own that   *)
(* were traded, whichever of the live upserts, the jobs and the retention wrote last             *)
(* (handleCandleMessage, aggregateCandle, reaggregateSingleTimeframe, upsertCandle).             *)
TableIsPast ==
    /\ \A m \in Minutes : /\ row[m].q # "none" => m \in Traded
                          /\ row[m].q = "whole" => m < now \/ ticks = 2
    /\ \A b \in Buckets : higher[b].has \subseteq {m \in Traded : BucketOf(m) = b}

THEOREM CandlesArePast ==
    ASSUME LastMinute \in Nat, FirstMinute \in Minutes
    PROVE  CandleInit /\ [][CandleNext]_candleVars => []TableIsPast
  <1>1. CandleInit => CandleInv
    BY InitCandles
  <1>2. CandleInv => TableIsPast
    BY DEF CandleInv, TableOf, TableIsPast, Over
  <1> QED
    BY <1>1, <1>2, NextCandles, PTL

=============================================================================

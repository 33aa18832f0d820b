---------------------------- MODULE CandleStream ----------------------------
(***************************************************************************)
(* The live stream of the ticks of one symbol: the engine's client of      *)
(* Deriv, which all requests share, the streamer's start_stream, whose     *)
(* coroutines may overlap because the backend waits ten seconds for them   *)
(* and the retries take longer, and the backend's health check, which asks *)
(* for the number of subscriptions on record and restarts the stream.      *)
(***************************************************************************)
EXTENDS Naturals

CONSTANTS Starts,     \* coroutines of start_stream that may be in progress
          MaxRetries, \* MAX_SUBSCRIBE_RETRIES
          MaxRestarts \* bound: restarts of the engine

VARIABLES
    connected, errors,  \* of the client; errors in a row
    recorded,           \* the streamer's _sub_ids: none, empty, or a subscription live or dead
    orphans,            \* a live handler that is on no record
    start,              \* the coroutines
    checked,            \* the health check found the stream down, or failed and waits
    recovering,         \* isRecovering
    restarts

streamVars == <<connected, errors, recorded, orphans, start, checked, recovering, restarts>>

ErrorThreshold == 3
NotStarted == [pc |-> "idle", attempt |-> 0, got |-> "no"]

StreamInit ==
    /\ connected = FALSE /\ errors = 0 /\ recorded = "none" /\ orphans = FALSE
    /\ start = [s \in Starts |-> NotStarted] /\ checked = "no" /\ recovering = FALSE
    /\ restarts = 0

-----------------------------------------------------------------------------
\* The client.  Without its connection, or with another one, a handler hears
\* nothing more; the streamer's record of it stays.
Dead(x) == IF x = "live" THEN "dead" ELSE x
Silence(S) ==
    /\ recorded' = Dead(recorded) /\ orphans' = FALSE
    /\ start' = [s \in Starts |-> [S[s] EXCEPT !.got = Dead(@)]]

\* _read_loop and _send_and_wait on a closed connection.
ConnectionLost ==
    /\ connected /\ connected' = FALSE /\ Silence(start)
    /\ UNCHANGED <<errors, checked, recovering, restarts>>

\* An error answer: _track_error, which reconnects after the third in a row.
TrackError(S, again) ==
    IF errors + 1 < ErrorThreshold
      THEN /\ errors' = errors + 1 /\ connected' = TRUE
           /\ start' = S /\ UNCHANGED <<recorded, orphans>>
      ELSE /\ errors' = 0 /\ connected' = again /\ Silence(S)

\* The requests for candles of the backfill, which connect when needed.
Historical(works, again) ==
    /\ IF works THEN connected' = TRUE /\ errors' = 0 /\ UNCHANGED <<recorded, orphans, start>>
       ELSE TrackError(start, again)
    /\ UNCHANGED <<checked, recovering, restarts>>

\* The engine's process starts over.
EngineRestarts ==
    /\ restarts < MaxRestarts /\ restarts' = restarts + 1
    /\ connected' = FALSE /\ errors' = 0 /\ recorded' = "none" /\ orphans' = FALSE
    /\ start' = [s \in Starts |-> NotStarted]
    /\ UNCHANGED <<checked, recovering>>

-----------------------------------------------------------------------------
\* stop_stream: the record goes first, then its handler.
StopStream ==
    /\ recorded' = "none"
    /\ UNCHANGED <<connected, errors, orphans, start, checked, recovering, restarts>>

\* start_stream stops what is on record and subscribes.
Begin(s) ==
    /\ start[s].pc = "idle"
    /\ start' = [start EXCEPT ![s] = [NotStarted EXCEPT !.pc = "subscribe"]]
    /\ recorded' = "none" /\ UNCHANGED <<connected, errors, orphans>>

\* After the last attempt whatever there is is recorded.
Failed(s) ==
    LET next == start[s].attempt + 1 IN
    [start EXCEPT ![s] = IF next = MaxRetries THEN [@ EXCEPT !.pc = "record"]
                         ELSE [@ EXCEPT !.pc = "reconnect", !.attempt = next]]

Subscribe(s, works, again) ==
    /\ start[s].pc = "subscribe"
    /\ IF works
         THEN /\ connected' = TRUE /\ errors' = 0
              /\ start' = [start EXCEPT ![s].pc = "record", ![s].got = "live"]
              /\ UNCHANGED <<recorded, orphans>>
         ELSE TrackError(Failed(s), again)
    /\ UNCHANGED <<checked, recovering, restarts>>

\* force_reconnect before another attempt: a failed one uses it up.
Reconnect(s, works) ==
    /\ start[s].pc = "reconnect"
    /\ connected' = works /\ errors' = 0
    /\ Silence(IF works THEN [start EXCEPT ![s].pc = "subscribe"] ELSE Failed(s))
    /\ UNCHANGED <<checked, recovering, restarts>>

\* The record of another start that ended meanwhile is replaced, its handler
\* goes on.
Record(s) ==
    /\ start[s].pc = "record"
    /\ recorded' = IF start[s].got = "no" THEN "empty" ELSE start[s].got
    /\ orphans' = (orphans \/ recorded = "live")
    /\ start' = [start EXCEPT ![s] = NotStarted]
    /\ UNCHANGED <<connected, errors, checked, recovering, restarts>>

\* The start and the backfills of the backend ask for a stream as well.
AutoStart(s) == Begin(s) /\ UNCHANGED <<checked, recovering, restarts>>

-----------------------------------------------------------------------------
\* checkAndRecoverStream: an engine that does not answer is tried in five seconds.
Active == recorded \in {"live", "dead"}
HealthCheck(answers) ==
    /\ ~recovering /\ checked = "no" /\ ~(answers /\ Active)
    /\ checked' = "down"
    /\ UNCHANGED <<connected, errors, recorded, orphans, start, recovering, restarts>>

\* recoverStream: nothing while another recovery runs.
RecoverStream(s, reached) ==
    /\ checked = "down" /\ checked' = "no"
    /\ IF recovering \/ ~reached
         THEN UNCHANGED <<connected, errors, recorded, orphans, start, recovering, restarts>>
         ELSE Begin(s) /\ recovering' = TRUE /\ UNCHANGED restarts

\* Fault: the request waits for an answer.
RecoveryAnswered ==
    /\ recovering /\ Active /\ recovering' = FALSE
    /\ UNCHANGED <<connected, errors, recorded, orphans, start, checked, restarts>>

\* The request ends: the engine answered, died, or took more than ten seconds.
RecoveryEnds ==
    /\ recovering /\ recovering' = FALSE
    /\ UNCHANGED <<connected, errors, recorded, orphans, start, checked, restarts>>

StreamNext ==
    \/ ConnectionLost \/ EngineRestarts \/ StopStream \/ RecoveryEnds
    \/ \E b \in BOOLEAN : HealthCheck(b)
    \/ \E b, c \in BOOLEAN : Historical(b, c)
    \/ \E s \in Starts :
          \/ AutoStart(s) \/ Record(s)
          \/ \E b \in BOOLEAN : Reconnect(s, b) \/ RecoverStream(s, b)
          \/ \E b, c \in BOOLEAN : Subscribe(s, b, c)

-----------------------------------------------------------------------------
\* A stream without a subscription on record, because nobody started it, its
\* start failed, it was stopped or the engine restarted, gets one again
\* (checkAndRecoverStream, recoverStream, start_stream).
StreamRestarts == ~Active ~> Active
=============================================================================

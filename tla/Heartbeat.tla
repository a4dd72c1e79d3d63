----------------------------- MODULE Heartbeat ------------------------------
(***************************************************************************)
(* The heartbeat of the connections of one driving session                 *)
(* (app/realtime/heartbeat.py) and the last_heartbeat_at they share in the *)
(* session's runtime (app/realtime/session_runtime.py).                    *)
(*                                                                         *)
(* Time is counted in ticks.  A sleep ends on time; asking the connection  *)
(* manager and sending wait for its lock, which every session's sends      *)
(* hold, and take at most Stall ticks together with that wait.  A task     *)
(* never lets the time pass its due.                                       *)
(***************************************************************************)
EXTENDS Integers

CONSTANTS Conn,      \* connections of the session, each registers once
          NoConn,    \* "no connection"
          Prompt,    \* those whose client answers a PING within Delay
          Interval,  \* ws_heartbeat_interval_ms
          Timeout,   \* ws_heartbeat_timeout_ms
          Delay,     \* from the end of a PING to the handling of its PONG
          Stall,     \* longest wait for the manager, its sends included
          MaxTime    \* bound on the time

ASSUME PromptAssumption == Prompt \subseteq Conn /\ NoConn \notin Conn

\* Settings.validate_websocket_heartbeat_timeout
ASSUME TimeoutAssumption ==
    /\ Interval \in Nat \ {0} /\ Timeout \in Nat /\ Timeout > Interval

ASSUME BoundAssumption == Delay \in Nat /\ Stall \in Nat /\ MaxTime \in Nat

VARIABLES now,
          current,    \* the registered connection
          last,       \* last_heartbeat_at, None without a runtime
          phase,      \* per connection: its handler and its heartbeat task
          due,        \* per connection: when that phase ends at the latest
          owed,       \* per connection: when the unanswered PING was sent
          pinged,     \* per connection: a PING was sent to it
          inherited   \* per connection: it found a runtime of another one

vars == <<now, current, last, phase, due, owed, pinged, inherited>>

None == -1

Beating == {"sleeping", "asking", "pinging"}

\* "idle": the heartbeat task returned, the receive loop goes on.
Receiving == Beating \cup {"idle"}

Phase == Receiving \cup {"new", "registering", "readying", "timed out",
                         "failed", "gone"}

Time == 0 .. MaxTime

DueTime == 0 .. MaxTime + Interval + Stall

----------------------------------------------------------------------------

Init ==
    /\ now = 0
    /\ current = NoConn
    /\ last = None
    /\ phase = [c \in Conn |-> "new"]
    /\ due = [c \in Conn |-> 0]
    /\ owed = [c \in Conn |-> None]
    /\ pinged = [c \in Conn |-> FALSE]
    /\ inherited = [c \in Conn |-> FALSE]

Enter(c, p, time) ==
    /\ phase' = [phase EXCEPT ![c] = p]
    /\ due' = [due EXCEPT ![c] = time]

Register(c) ==
    /\ phase[c] = "new"
    /\ current' = c
    /\ Enter(c, "registering", now + Stall)
    /\ UNCHANGED <<now, last, owed, pinged, inherited>>

\* prepare_connection resets the runtime it finds, except for its times.
LastWhenFound == last

\* get_or_create and prepare_connection, after the replaced one was closed.
Prepare(c) ==
    /\ phase[c] = "registering"
    /\ inherited' = [inherited EXCEPT ![c] = last # None]
    /\ last' = IF last = None THEN now ELSE LastWhenFound
    /\ Enter(c, "readying", now + Stall)
    /\ UNCHANGED <<now, current, owed, pinged>>

NextWake == now + Interval

\* SESSION_READY was sent, or skipped; start() the heartbeat and receive.
StartHeartbeat(c) ==
    /\ phase[c] = "readying"
    /\ Enter(c, "sleeping", NextWake)
    /\ UNCHANGED <<now, current, last, owed, pinged, inherited>>

WakeUp(c) ==
    /\ phase[c] = "sleeping"
    /\ now >= due[c]
    /\ Enter(c, "asking", now + Stall)
    /\ UNCHANGED <<now, current, last, owed, pinged, inherited>>

MutSilentAfterInterval == now - last >= Interval

MutSilentAfterTwoTimeouts == now - last > 2 * Timeout

Silent == now - last > Timeout

\* is_current was answered: end, close the connection, or ping it.
Check(c) ==
    /\ phase[c] = "asking"
    /\ \/ /\ current # c \/ last = None
          /\ Enter(c, "idle", now)
       \/ /\ current = c /\ last # None /\ Silent
          /\ Enter(c, "timed out", now)
       \/ /\ current = c /\ last # None /\ ~Silent
          /\ Enter(c, "pinging", now + Stall)
    /\ UNCHANGED <<now, current, last, owed, pinged, inherited>>

\* The PING left, or was skipped because the connection was replaced.
PingSent(c) ==
    /\ phase[c] = "pinging"
    /\ Enter(c, "sleeping", NextWake)
    /\ IF current = c
       THEN /\ owed' = [owed EXCEPT ![c] = now]
            /\ pinged' = [pinged EXCEPT ![c] = TRUE]
       ELSE UNCHANGED <<owed, pinged>>
    /\ UNCHANGED <<now, current, last, inherited>>

\* A failing send closes the connection.
PingFails(c) ==
    /\ phase[c] = "pinging"
    /\ Enter(c, "failed", now)
    /\ UNCHANGED <<now, current, last, owed, pinged, inherited>>

\* touch_heartbeat, for an answer or unasked, on any connection of the session
\* whose receive loop still runs, replaced or just closed as it may be.
Pong(c) ==
    /\ phase[c] \in Receiving \cup {"timed out", "failed"}
    /\ last' = IF last = None THEN None ELSE now
    /\ owed' = [owed EXCEPT ![c] = None]
    /\ UNCHANGED <<now, current, phase, due, pinged, inherited>>

\* disconnect() says whether the runtime is the caller's to remove.
RemovesRuntime(c) == current = c

\* finally: stop() the heartbeat, disconnect, and remove the runtime.
Leave(c) ==
    /\ phase[c] \in Receiving \cup {"readying", "timed out", "failed"}
    /\ Enter(c, "gone", now)
    /\ current' = IF current = c THEN NoConn ELSE current
    /\ last' = IF RemovesRuntime(c) THEN None ELSE last
    /\ UNCHANGED <<now, owed, pinged, inherited>>

\* Phases that end by their due; a closed or idle handler may linger.
Timed == Beating \cup {"registering", "readying"}

Tick ==
    /\ now < MaxTime
    /\ \A c \in Conn : phase[c] \in Timed => now < due[c]
    /\ \A c \in Prompt :
          phase[c] \in Receiving /\ owed[c] # None => now < owed[c] + Delay
    /\ now' = now + 1
    /\ UNCHANGED <<current, last, phase, due, owed, pinged, inherited>>

Next ==
    \/ Tick
    \/ \E c \in Conn :
          \/ Register(c) \/ Prepare(c) \/ StartHeartbeat(c) \/ WakeUp(c)
          \/ Check(c) \/ PingSent(c) \/ PingFails(c) \/ Pong(c) \/ Leave(c)

Spec == Init /\ [][Next]_vars

----------------------------------------------------------------------------
(* Properties.                                                             *)

TypeOK ==
    /\ now \in Time
    /\ current \in Conn \cup {NoConn}
    /\ last \in Time \cup {None}
    /\ phase \in [Conn -> Phase]
    /\ due \in [Conn -> DueTime]
    /\ owed \in [Conn -> Time \cup {None}]
    /\ pinged \in [Conn -> BOOLEAN]
    /\ inherited \in [Conn -> BOOLEAN]

\* A client that answers its PINGs in time is not closed for silence, unless
\* it took over the runtime of a silent connection and was never pinged.  It
\* needs an Interval, a Stall and a Timeout that are Punctual.
PromptNotTimedOut ==
    \A c \in Prompt : phase[c] = "timed out" => inherited[c] /\ ~pinged[c]

\* A watched connection is never silent for longer than the timeout, one more
\* round of the heartbeat and its waits.
SilenceIsBounded ==
    \A c \in Conn :
       current = c /\ pinged[c] /\ phase[c] \in Beating =>
          now - last <= Timeout + Interval + 2 * Stall

\* The heartbeat of the registered connection never just ends, whoever leaves
\* or is replaced around it.
CurrentIsWatched == \A c \in Conn : phase[c] = "idle" => current # c

\* No client that fell silent holds its session for ever: the registered
\* connection is watched, and the watch has a bound.
SilenceIsNoticed == SilenceIsBounded /\ CurrentIsWatched

----------------------------------------------------------------------------
(* The inductive invariant.                                                *)

\* A PONG is due before the next PING, and the timeout leaves room for one
\* round of the heartbeat and the two waits before its check.
Punctual == Delay < Interval /\ Interval + 2 * Stall <= Timeout

TimesInOrder ==
    /\ last <= now
    /\ \A c \in Conn : phase[c] \in Timed => now <= due[c]
    /\ \A c \in Conn : owed[c] <= now
    /\ \A c \in Prompt :
          phase[c] \in Receiving /\ owed[c] # None => now <= owed[c] + Delay

\* From prepare_connection on, the registered connection has a runtime.
CurrentHasRuntime ==
    \A c \in Conn :
       current = c => /\ phase[c] \notin {"new", "gone", "idle"}
                      /\ phase[c] # "registering" => last # None

\* Until its first PING the runtime is as old as the connection itself.
UnpingedRound ==
    \A c \in Conn :
       current = c /\ ~inherited[c] /\ ~pinged[c] =>
          /\ phase[c] = "readying" => due[c] <= last + Stall
          /\ phase[c] = "sleeping" => due[c] <= last + Stall + Interval
          /\ phase[c] = "asking" => due[c] <= last + 2 * Stall + Interval

\* After a PING a prompt client is heard of within the round that follows it.
PromptRound ==
    \A c \in Conn :
       /\ phase[c] \in {"new", "registering", "readying"} \/ ~pinged[c] =>
             owed[c] = None /\ ~pinged[c]
       /\ current = c /\ phase[c] = "sleeping" =>
             \/ owed[c] # None /\ due[c] = owed[c] + Interval
             \/ owed[c] = None /\ (pinged[c] => due[c] <= last + Interval)
             \/ c \notin Prompt
       /\ current = c /\ c \in Prompt /\ phase[c] \in {"asking", "pinging"} =>
             owed[c] = None
       /\ current = c /\ c \in Prompt /\ phase[c] = "asking" /\ pinged[c] =>
             due[c] <= last + Interval + Stall

\* Every check that let a connection go on bounds its silence until the next.
SilentRound ==
    \A c \in Conn :
       current = c =>
          /\ phase[c] = "pinging" => due[c] <= last + Timeout + Stall
          /\ phase[c] = "sleeping" /\ pinged[c] =>
                due[c] <= last + Timeout + Stall + Interval
          /\ phase[c] = "asking" /\ pinged[c] =>
                due[c] <= last + Timeout + 2 * Stall + Interval

IInv ==
    /\ TypeOK
    /\ TimesInOrder
    /\ CurrentHasRuntime
    /\ UnpingedRound
    /\ PromptRound
    /\ SilentRound
    /\ PromptNotTimedOut
=============================================================================

------------------------------ MODULE BoltzWs ------------------------------
(* The connection loop of BoltzWsService: read the pending swaps, make a      *)
(* websocket, check its health with pings, and start over, after a growing    *)
(* delay, when it fails. Its timers and its callbacks are shared fields of    *)
(* one object, while the sockets, intervals and task callbacks are made anew  *)
(* by every attempt.                                                          *)
(*                                                                            *)
(* Time is counted in units of 5 seconds; a timer that is due runs before the *)
(* clock moves on, and timers due in the same unit run in any order.          *)
EXTENDS Naturals, FiniteSets, Functions

CONSTANTS MaxFaults,     \* refused handshakes, dead connections, failed queries
          MaxHangs,      \* handshakes that never end
          MaxLateErrors  \* 'error' events of a socket that is open

ASSUME WsAssumption == MaxFaults \in Nat /\ MaxHangs \in Nat /\ MaxLateErrors \in Nat

healthCheckInterval == 2  \* 10 s
pingTimeout == 1          \* 5 s
MAX_RESTART_TIMEOUT == 6  \* 30 s

(* Where the history variable offline stops counting. *)
OfflineCap == healthCheckInterval + pingTimeout + MAX_RESTART_TIMEOUT + 1

(* Every attempt but the last one ends with a fault. *)
Attempts == 1..(MaxFaults + MaxLateErrors + 1)

VARIABLES
  loop,           \* where the loop stands
  list,           \* the attempt for which getPendingSwaps was read last
  attempt,        \* number of sockets made; this.webSocket is the last one
  socket,         \* socket[a]: state of the socket of attempt a
  called,         \* attempts whose task callback has been called
  interval,       \* running health checks: attempt |-> time to the next ping
  timeout,        \* running ping timeouts: attempt |-> time left
  healthCheckIntervalId, pingTimeoutId,  \* the attempt whose timer they name, or 0
  pinged,         \* a ping that the other side will answer is on its way
  retryCount,
  restart,        \* time left until the loop starts over
  offline,        \* history: how long the process has gone without a connection
                  \* and without trying for one
  faults, hangs, lateErrors

vars == <<loop, list, attempt, socket, called, interval, timeout, healthCheckIntervalId,
          pingTimeoutId, pinged, retryCount, restart, offline, faults, hangs, lateErrors>>
timers == <<interval, timeout, healthCheckIntervalId, pingTimeoutId, pinged>>
budgets == <<faults, hangs, lateErrors>>

LoopStates == {"query", "loaded", "socket", "retry", "dead"}
(* "hung": connecting for ever; "mute": open here, but nothing comes back. *)
SocketStates == {"none", "connecting", "hung", "open", "mute", "closed"}

webSocket == IF attempt = 0 THEN "none" ELSE socket[attempt]

TypeOK ==
  /\ loop \in LoopStates
  /\ attempt \in Attempts \cup {0} /\ list \in 0..(attempt + 1)
  /\ socket \in [Attempts -> SocketStates]
  /\ called \subseteq Attempts
  /\ DOMAIN interval \subseteq Attempts /\ DOMAIN timeout \subseteq Attempts
  /\ \A a \in DOMAIN interval : interval[a] \in 0..healthCheckInterval
  /\ \A a \in DOMAIN timeout : timeout[a] \in 0..pingTimeout
  /\ healthCheckIntervalId \in Attempts \cup {0}
  /\ pingTimeoutId \in Attempts \cup {0}
  /\ pinged \in BOOLEAN
  /\ retryCount \in Nat
  /\ restart \in 0..MAX_RESTART_TIMEOUT
  /\ offline \in 0..OfflineCap
  /\ faults \in 0..MaxFaults /\ hangs \in 0..MaxHangs /\ lateErrors \in 0..MaxLateErrors

Init ==
  /\ loop = "query" /\ list = 0 /\ attempt = 0
  /\ socket = [a \in Attempts |-> "none"]
  /\ called = {}
  /\ interval = <<>> /\ timeout = <<>>
  /\ healthCheckIntervalId = 0 /\ pingTimeoutId = 0
  /\ pinged = FALSE
  /\ retryCount = 0 /\ restart = 0 /\ offline = 0
  /\ faults = 0 /\ hangs = 0 /\ lateErrors = 0

Fault == faults < MaxFaults /\ faults' = faults + 1 /\ UNCHANGED <<hangs, lateErrors>>

(* setInterval, setTimeout; clearInterval, clearTimeout. *)
Start(timer, a, time) == [b \in DOMAIN timer \cup {a} |-> IF b = a THEN time ELSE timer[b]]
Stop(timer, a) == Restrict(timer, DOMAIN timer \ {a})

-----------------------------------------------------------------------------
(* The loop. *)

(* The final callback of auto: schedule the next round. *)
Retry ==
  /\ loop' = "retry"
  /\ retryCount' = retryCount + 1
  /\ restart' = IF retryCount' < MAX_RESTART_TIMEOUT THEN retryCount'
                                                     ELSE MAX_RESTART_TIMEOUT

(* Mutant of Callback: the failed task does not lead to another round. *)
CallbackWithoutRetry(a) ==
  /\ called' = called \cup {a}
  /\ UNCHANGED <<loop, retryCount, restart>>

(* The callback of the websocket task of attempt a. auto lets a task call back
   once: the second call throws, out of a timer or an event handler, and the
   process dies. *)
Callback(a) ==
  IF a \in called
  THEN loop' = "dead" /\ UNCHANGED <<called, retryCount, restart>>
  ELSE called' = called \cup {a} /\ Retry

ReadPending ==
  /\ loop = "query"
  /\ loop' = "loaded"
  /\ list' = attempt + 1
  /\ UNCHANGED <<attempt, socket, called, timers, retryCount, restart, offline, budgets>>

(* getPendingSwaps throws: the round ends without a new socket. *)
QueryFails ==
  /\ loop = "query" /\ Fault
  /\ Retry
  /\ UNCHANGED <<list, attempt, socket, called, timers, offline>>

Connect ==
  /\ loop = "loaded" /\ attempt + 1 \in Attempts
  /\ loop' = "socket"
  /\ attempt' = attempt + 1
  /\ socket' = [socket EXCEPT ![attempt'] = "connecting"]
  /\ UNCHANGED <<list, called, timers, retryCount, restart, offline, budgets>>

(* Mutant of Restart: the new socket is made from the old list of swaps. *)
RestartWithOldList ==
  /\ loop = "retry" /\ restart = 0
  /\ loop' = "loaded"
  /\ UNCHANGED <<list, attempt, socket, called, timers, retryCount, restart, offline, budgets>>

Restart ==
  /\ loop = "retry" /\ restart = 0
  /\ loop' = "query"
  /\ offline' = 0
  /\ UNCHANGED <<list, attempt, socket, called, timers, retryCount, restart, budgets>>

-----------------------------------------------------------------------------
(* The socket. *)

(* Mutant of Open: no health check is started. *)
OpenUnchecked ==
  /\ loop = "socket" /\ webSocket = "connecting"
  /\ socket' = [socket EXCEPT ![attempt] = "open"]
  /\ UNCHANGED <<list, loop, attempt, called, timers, retryCount, restart, offline, budgets>>

(* On 'open': startHealthCheck, and the subscriptions BoltzSwaps models. *)
Open ==
  /\ loop = "socket" /\ webSocket = "connecting"
  /\ socket' = [socket EXCEPT ![attempt] = "open"]
  /\ interval' = Start(interval, attempt, healthCheckInterval)
  /\ healthCheckIntervalId' = attempt
  /\ UNCHANGED <<list, loop, attempt, called, timeout, pingTimeoutId, pinged,
                 retryCount, restart, offline, budgets>>

(* On 'error' the socket is terminated and the round ends; the health check of
   a socket that was open goes on. *)
OnError ==
  /\ socket' = [socket EXCEPT ![attempt] = "closed"]
  /\ pinged' = FALSE
  /\ Callback(attempt)
  /\ UNCHANGED <<list, attempt, interval, timeout, healthCheckIntervalId, pingTimeoutId, offline>>

Refused ==
  /\ loop = "socket" /\ webSocket = "connecting" /\ Fault
  /\ OnError

LateError ==
  /\ loop = "socket" /\ webSocket = "open"
  /\ lateErrors < MaxLateErrors /\ lateErrors' = lateErrors + 1
  /\ UNCHANGED <<faults, hangs>>
  /\ OnError

(* The handshake is given no time limit. *)
Hang ==
  /\ loop = "socket" /\ webSocket = "connecting"
  /\ hangs < MaxHangs /\ hangs' = hangs + 1
  /\ socket' = [socket EXCEPT ![attempt] = "hung"]
  /\ UNCHANGED <<list, loop, attempt, called, timers, retryCount, restart, offline,
                 faults, lateErrors>>

(* The connection dies, or Boltz closes it: 'close' has no handler. *)
Drop ==
  /\ loop = "socket" /\ webSocket = "open" /\ Fault
  /\ socket' = [socket EXCEPT ![attempt] = "mute"]
  /\ pinged' = FALSE
  /\ UNCHANGED <<list, loop, attempt, called, interval, timeout, healthCheckIntervalId,
                 pingTimeoutId, retryCount, restart, offline>>

-----------------------------------------------------------------------------
(* The health check. *)

(* The interval of attempt a pings this.webSocket, whichever it is now: ping
   throws while it connects and does nothing once it is closed. *)
Ping(a) ==
  /\ a \in DOMAIN interval /\ interval[a] = 0 /\ loop # "dead"
  /\ interval' = [interval EXCEPT ![a] = healthCheckInterval]
  /\ IF webSocket \in {"connecting", "hung"}
     THEN loop' = "dead" /\ UNCHANGED <<timeout, pingTimeoutId, pinged>>
     ELSE /\ timeout' = Start(timeout, a, pingTimeout)
          /\ pingTimeoutId' = a
          /\ pinged' = (webSocket = "open")
          /\ UNCHANGED loop
  /\ UNCHANGED <<list, attempt, socket, called, healthCheckIntervalId, retryCount, restart,
                 offline, budgets>>

(* Mutant of Pong: the timeout is forgotten but not cleared. *)
PongWithoutClear ==
  /\ pinged /\ webSocket = "open" /\ loop # "dead"
  /\ pinged' = FALSE
  /\ pingTimeoutId' = 0
  /\ UNCHANGED <<list, loop, attempt, socket, called, interval, timeout, healthCheckIntervalId,
                 retryCount, restart, offline, budgets>>

(* resetHealthCheckTimeout clears the timeout that was set last. *)
Pong ==
  /\ pinged /\ webSocket = "open" /\ loop # "dead"
  /\ pinged' = FALSE
  /\ timeout' = Stop(timeout, pingTimeoutId)
  /\ pingTimeoutId' = 0
  /\ UNCHANGED <<list, loop, attempt, socket, called, interval, healthCheckIntervalId,
                 retryCount, restart, offline, budgets>>

(* Mutants of PingTimeout: the interval is not cleared, the socket is not
   terminated. *)
PingTimeoutKeepsInterval(a) ==
  /\ a \in DOMAIN timeout /\ timeout[a] = 0 /\ loop # "dead"
  /\ timeout' = Stop(timeout, a)
  /\ socket' = [socket EXCEPT ![attempt] = "closed"]
  /\ pinged' = FALSE
  /\ Callback(a)
  /\ UNCHANGED <<list, attempt, interval, healthCheckIntervalId, pingTimeoutId, offline, budgets>>
PingTimeoutKeepsSocket(a) ==
  /\ a \in DOMAIN timeout /\ timeout[a] = 0 /\ loop # "dead"
  /\ timeout' = Stop(timeout, a)
  /\ interval' = Stop(interval, healthCheckIntervalId)
  /\ healthCheckIntervalId' = 0
  /\ Callback(a)
  /\ UNCHANGED <<list, attempt, socket, pingTimeoutId, pinged, offline, budgets>>

(* No pong came: terminate this.webSocket, clear the interval the field names,
   and end the round of attempt a. *)
PingTimeout(a) ==
  /\ a \in DOMAIN timeout /\ timeout[a] = 0 /\ loop # "dead"
  /\ timeout' = Stop(timeout, a)
  /\ socket' = [socket EXCEPT ![attempt] = "closed"]
  /\ pinged' = FALSE
  /\ interval' = Stop(interval, healthCheckIntervalId)
  /\ healthCheckIntervalId' = 0
  /\ Callback(a)
  /\ UNCHANGED <<list, attempt, pingTimeoutId, offline, budgets>>

-----------------------------------------------------------------------------
(* The clock. A live connection answers a ping within a unit. *)

Due == \/ \E a \in DOMAIN interval : interval[a] = 0
       \/ \E a \in DOMAIN timeout : timeout[a] = 0
       \/ loop = "retry" /\ restart = 0
       \/ pinged

Offline == \/ loop = "retry"
           \/ loop = "socket" /\ webSocket \in {"mute", "closed"}

Tick ==
  /\ ~Due /\ loop # "dead"
  /\ interval' = [a \in DOMAIN interval |-> interval[a] - 1]
  /\ timeout' = [a \in DOMAIN timeout |-> timeout[a] - 1]
  /\ restart' = IF loop = "retry" THEN restart - 1 ELSE restart
  /\ offline' = IF Offline /\ offline < OfflineCap THEN offline + 1 ELSE offline
  /\ UNCHANGED <<list, loop, attempt, socket, called, healthCheckIntervalId, pingTimeoutId,
                 pinged, retryCount, budgets>>

LoopStep == ReadPending \/ Connect \/ Open \/ Restart \/ Pong
TimerStep == \E a \in Attempts : Ping(a) \/ PingTimeout(a)
FaultStep == QueryFails \/ Refused \/ LateError \/ Hang \/ Drop

Next == LoopStep \/ TimerStep \/ Tick \/ FaultStep

Spec == Init /\ [][Next]_vars

(* The event loop runs what is due, queries and handshakes end, unless they
   hang, and time passes. *)
FairSpec == Spec /\ WF_vars(LoopStep \/ TimerStep) /\ WF_vars(Tick)

-----------------------------------------------------------------------------
(* Properties. *)

(* The process dies of its connection only if a socket reported an error while
   it was open: otherwise no task calls back twice, and no ping is sent while
   the next socket connects, however timers, failures and rounds interleave. *)
CrashOnlyAfterLateError == loop = "dead" => lateErrors > 0

(* An attempt starts only when the sockets of the earlier ones are closed: two
   live sockets would handle every update twice. *)
OneLiveSocket ==
  Cardinality({a \in Attempts : socket[a] \notin {"none", "closed"}}) <= 1

(* A process without a connection knows it after at most 15 s (the rest of an
   interval and a ping timeout) and tries again after at most 30 s more. *)
OutageIsBounded ==
  lateErrors = 0 =>
    offline <= healthCheckInterval + pingTimeout +
                 (IF retryCount < MAX_RESTART_TIMEOUT THEN retryCount
                                                      ELSE MAX_RESTART_TIMEOUT)

(* A socket that answers is never torn down by its health check. *)
HealthySocketIsKept ==
  [][lateErrors' = 0 /\ webSocket = "open" =>
       attempt' = attempt /\ socket'[attempt] \in {"open", "mute"}]_vars

(* Whatever is lost, the process gets connected again; a handshake that hangs,
   or an error of an open socket, is what it does not recover from. *)
AlwaysReconnects ==
  []<>(\/ loop = "socket" /\ webSocket = "open"
       \/ hangs + lateErrors > 0)

-----------------------------------------------------------------------------
(* The loop implements the connection BoltzSwaps assumes. *)

conn == CASE loop = "loaded" /\ list = attempt + 1 -> "loaded"
          [] loop = "socket" /\ webSocket \in {"connecting", "hung"} -> "connecting"
          [] loop = "socket" /\ webSocket = "open" -> "open"
          [] OTHER -> "down"

C == INSTANCE Connection

(* Every connection is made from a list of swaps read after the last one was
   lost, and there is always a next one unless a handshake hangs or an open
   socket errs. *)
ConnectionPromise == C!Spec /\ (<>(hangs + lateErrors > 0) \/ C!Fairness)
=============================================================================

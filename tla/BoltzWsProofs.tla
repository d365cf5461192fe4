---------------------------- MODULE BoltzWsProofs ---------------------------
(* Proofs about BoltzWs, for any number of faults, hung handshakes and late   *)
(* errors.                                                                    *)
EXTENDS BoltzWs, TLAPS, FiniteSetTheorems

-----------------------------------------------------------------------------
(* The inductive invariant. *)

Between == {"query", "loaded", "retry"}

(* Sockets come one after the other: the earlier ones are closed, the later
   ones are not made, and between two rounds the last one is closed too. *)
SocketInv ==
  /\ \A a \in Attempts : /\ a > attempt => socket[a] = "none"
                         /\ a < attempt => socket[a] = "closed"
  /\ loop \in Between => attempt = 0 \/ webSocket = "closed"
  /\ loop = "loaded" => list = attempt + 1
  /\ called \cup DOMAIN interval \cup DOMAIN timeout \subseteq 1..attempt

(* No timer runs. *)
Idle == DOMAIN interval = {} /\ DOMAIN timeout = {} /\ healthCheckIntervalId = 0 /\ ~pinged

(* The health check of the last attempt, and of no other, runs; a ping timeout
   ends before the next ping, and while the socket answers it is only there
   until the answer is. *)
Checked ==
  /\ DOMAIN interval = {attempt} /\ healthCheckIntervalId = attempt
  /\ DOMAIN timeout \subseteq {attempt}
  /\ attempt \in DOMAIN timeout =>
       pingTimeoutId = attempt /\ interval[attempt] = timeout[attempt] + healthCheckInterval - pingTimeout
  /\ webSocket = "open" => /\ offline = 0 /\ (pinged <=> attempt \in DOMAIN timeout)
                           /\ pinged => timeout[attempt] = pingTimeout
  /\ webSocket = "mute" =>
       /\ ~pinged
       /\ offline + (IF attempt \in DOMAIN timeout THEN timeout[attempt] ELSE interval[attempt] + pingTimeout)
            <= healthCheckInterval + pingTimeout

Backoff == IF retryCount < MAX_RESTART_TIMEOUT THEN retryCount ELSE MAX_RESTART_TIMEOUT

(* As long as no open socket errs, the timers are those of the last socket. *)
Calm ==
  /\ loop # "dead"
  /\ loop \in Between => Idle
  /\ loop \in {"query", "loaded"} => offline = 0
  /\ loop = "retry" => offline + restart <= healthCheckInterval + pingTimeout + Backoff
  /\ loop = "socket" =>
       /\ attempt # 0 /\ attempt \notin called /\ webSocket \in {"connecting", "hung", "open", "mute"}
       /\ webSocket \in {"connecting", "hung"} => Idle /\ offline = 0
       /\ webSocket \in {"open", "mute"} => Checked

CalmInv == lateErrors = 0 => Calm

IInv == TypeOK /\ SocketInv /\ CalmInv

-----------------------------------------------------------------------------
(* Timers and numbers. *)

LEMMA AttemptsAreNumbers == Attempts \subseteq Nat \ {0} /\ \A a \in Attempts : 1..a \subseteq Attempts
  BY WsAssumption DEF Attempts

(* A timer is started, or started again. *)
LEMMA StartTimer ==
  ASSUME NEW timer, NEW a, NEW v
  PROVE  /\ DOMAIN Start(timer, a, v) = DOMAIN timer \cup {a}
         /\ Start(timer, a, v)[a] = v
         /\ \A b \in DOMAIN timer \ {a} : Start(timer, a, v)[b] = timer[b]
  BY DEF Start

(* clearInterval and clearTimeout end one timer and leave the others alone. *)
LEMMA StopTimer ==
  ASSUME NEW timer, NEW a
  PROVE  /\ DOMAIN Stop(timer, a) = DOMAIN timer \ {a}
         /\ \A b \in DOMAIN timer \ {a} : Stop(timer, a)[b] = timer[b]
  BY DEF Stop, Restrict

(* The service as its constructor leaves it. *)
LEMMA WsInit == Init => IInv
  <1> SUFFICES ASSUME Init PROVE IInv
    OBVIOUS
  <1>1. DOMAIN interval = {} /\ DOMAIN timeout = {}
    BY DEF Init
  <1>2. TypeOK
    <2>1. 0 \in 0..MaxFaults /\ 0 \in 0..MaxHangs /\ 0 \in 0..MaxLateErrors
      BY WsAssumption
    <2>2. 0 \in 0..MAX_RESTART_TIMEOUT /\ 0 \in 0..OfflineCap
      BY DEF MAX_RESTART_TIMEOUT, OfflineCap, healthCheckInterval, pingTimeout
    <2>3. socket \in [Attempts -> SocketStates] /\ loop \in LoopStates /\ list \in 0..(attempt + 1)
      BY DEF Init, SocketStates, LoopStates
    <2>4. QED
      BY <1>1, <2>1, <2>2, <2>3 DEF Init, TypeOK
  <1>3. SocketInv
    BY <1>1, AttemptsAreNumbers DEF Init, SocketInv
  <1>4. CalmInv
    BY <1>1 DEF Init, CalmInv, Calm, Idle, Between
  <1>5. QED
    BY <1>2, <1>3, <1>4 DEF IInv

(* The sockets when only the last one changes. *)
LEMMA LastSocket ==
  ASSUME IInv, attempt \in Attempts, NEW state \in SocketStates, socket' = [socket EXCEPT ![attempt] = state],
         attempt' = attempt
  PROVE  /\ socket' \in [Attempts -> SocketStates] /\ webSocket' = state
         /\ \A a \in Attempts : /\ a > attempt => socket'[a] = "none"
                                /\ a < attempt => socket'[a] = "closed"
  <1>1. \A a \in Attempts : a > attempt \/ a < attempt => a # attempt
    BY AttemptsAreNumbers
  <1>2. attempt # 0
    BY AttemptsAreNumbers
  <1>3. QED
    BY <1>1, <1>2 DEF IInv, TypeOK, SocketInv, webSocket

-----------------------------------------------------------------------------
(* The loop. *)

LEMMA BackoffFacts ==
  ASSUME IInv
  PROVE  /\ retryCount + 1 \in Nat
         /\ (IF retryCount + 1 < MAX_RESTART_TIMEOUT THEN retryCount + 1 ELSE MAX_RESTART_TIMEOUT)
              \in 0..MAX_RESTART_TIMEOUT
         /\ Backoff \in Nat /\ Backoff <= MAX_RESTART_TIMEOUT
  BY DEF IInv, TypeOK, MAX_RESTART_TIMEOUT, Backoff

(* The queries and the restart of the loop touch no timer and no socket. *)
LEMMA GoingAround ==
  ASSUME IInv, ReadPending \/ Restart \/ QueryFails
  PROVE  IInv'
  <1>1. /\ loop \in Between /\ loop' \in Between /\ UNCHANGED <<attempt, socket, called, timers>>
        /\ webSocket' = webSocket /\ lateErrors' = lateErrors
    BY DEF ReadPending, Restart, QueryFails, Fault, Retry, Between, webSocket, budgets
  <1>2. TypeOK'
    <2>1. CASE ReadPending \/ Restart
      <3>1. list' \in 0..(attempt' + 1)
        BY <2>1, AttemptsAreNumbers DEF ReadPending, Restart, IInv, TypeOK
      <3>2. loop' \in LoopStates /\ offline' \in 0..OfflineCap
        BY <2>1 DEF ReadPending, Restart, IInv, TypeOK, LoopStates, OfflineCap, healthCheckInterval, pingTimeout,
                    MAX_RESTART_TIMEOUT
      <3>3. UNCHANGED <<retryCount, restart, budgets>>
        BY <2>1 DEF ReadPending, Restart
      <3>4. QED
        BY <1>1, <3>1, <3>2, <3>3 DEF IInv, TypeOK, timers, budgets
    <2>2. CASE QueryFails
      <3>1. loop' \in LoopStates /\ retryCount' \in Nat /\ restart' \in 0..MAX_RESTART_TIMEOUT
        BY <2>2, BackoffFacts DEF QueryFails, Retry, LoopStates
      <3>2. faults' \in 0..MaxFaults /\ UNCHANGED <<hangs, lateErrors, list, offline>>
        BY <2>2, WsAssumption DEF QueryFails, Fault, IInv, TypeOK
      <3>3. QED
        BY <1>1, <3>1, <3>2 DEF IInv, TypeOK, timers
    <2>3. QED
      BY <2>1, <2>2
  <1>3. SocketInv'
    <2>1. loop' = "loaded" => list' = attempt' + 1
      BY DEF ReadPending, Restart, QueryFails, Retry
    <2>2. QED
      BY <1>1, <2>1 DEF IInv, SocketInv, timers
  <1>4. CalmInv'
    <2> SUFFICES ASSUME lateErrors' = 0 PROVE Calm'
      BY DEF CalmInv
    <2>1. Calm /\ Idle
      BY <1>1 DEF IInv, CalmInv, Calm
    <2>2. Idle' /\ loop' # "dead" /\ loop' # "socket"
      BY <1>1, <2>1 DEF Idle, timers, Between
    <2>3. loop' \in {"query", "loaded"} => offline' = 0
      BY <2>1 DEF Calm, ReadPending, Restart, QueryFails, Retry
    <2>4. loop' = "retry" => offline' + restart' <= healthCheckInterval + pingTimeout + Backoff'
      <3> SUFFICES ASSUME loop' = "retry" PROVE offline' + restart' <= healthCheckInterval + pingTimeout + Backoff'
        OBVIOUS
      <3>1. offline' = 0 /\ restart' = Backoff' /\ restart' \in Nat
        BY <2>1, BackoffFacts DEF Calm, ReadPending, Restart, QueryFails, Retry, Backoff
      <3>2. PICK n \in Nat : n = restart'
        BY <3>1
      <3>3. 0 + n <= 2 + 1 + n
        OBVIOUS
      <3>4. QED
        BY <3>1, <3>2, <3>3 DEF healthCheckInterval, pingTimeout
    <2>5. QED
      BY <2>2, <2>3, <2>4 DEF Calm
  <1>5. QED
    BY <1>2, <1>3, <1>4 DEF IInv

(* Making a socket: the attempt before it is over, and no timer of it runs. *)
LEMMA Connecting == ASSUME IInv, Connect PROVE IInv'
  <1>1. /\ loop = "loaded" /\ attempt + 1 \in Attempts /\ loop' = "socket" /\ attempt' = attempt + 1
        /\ socket' = [socket EXCEPT ![attempt + 1] = "connecting"]
        /\ UNCHANGED <<list, called, timers, retryCount, restart, offline, budgets>>
    BY DEF Connect
  <1>2. attempt \in Nat
    BY AttemptsAreNumbers DEF IInv, TypeOK
  <1>3. /\ socket' \in [Attempts -> SocketStates] /\ socket'[attempt + 1] = "connecting"
        /\ \A a \in Attempts : a # attempt + 1 => socket'[a] = socket[a]
    BY <1>1 DEF IInv, TypeOK, SocketStates
  <1>4. webSocket' = "connecting"
    BY <1>1, <1>2, <1>3 DEF webSocket
  <1>5. TypeOK'
    BY <1>1, <1>2, <1>3 DEF IInv, TypeOK, timers, budgets, LoopStates
  <1>6. SocketInv'
    <2>1. ASSUME NEW a \in Attempts
          PROVE  (a > attempt' => socket'[a] = "none") /\ (a < attempt' => socket'[a] = "closed")
      <3>1. a \in Nat
        BY AttemptsAreNumbers
      <3>2. attempt # 0 => attempt \in Attempts /\ socket[attempt] = "closed"
        BY <1>1 DEF IInv, TypeOK, SocketInv, Between, webSocket
      <3>3. a < attempt + 1 => a < attempt \/ (a = attempt /\ attempt # 0)
        BY <1>2, <3>1, AttemptsAreNumbers
      <3>4. QED
        BY <1>1, <1>2, <1>3, <3>1, <3>2, <3>3 DEF IInv, SocketInv
    <2>2. (called \cup DOMAIN interval \cup DOMAIN timeout)' \subseteq 1..attempt'
      <3>1. 1..attempt \subseteq 1..(attempt + 1)
        BY <1>2
      <3>2. QED
        BY <1>1, <3>1 DEF IInv, SocketInv, timers
    <2>3. QED
      BY <1>1, <2>1, <2>2 DEF SocketInv, Between
  <1>7. CalmInv'
    <2> SUFFICES ASSUME lateErrors' = 0 PROVE Calm'
      BY DEF CalmInv
    <2>1. Calm
      BY <1>1 DEF IInv, CalmInv, budgets
    <2>2. Idle' /\ offline' = 0
      BY <1>1, <2>1 DEF Calm, Idle, timers, Between
    <2>3. attempt' # 0 /\ attempt' \notin called'
      BY <1>1, <1>2 DEF IInv, SocketInv
    <2>4. QED
      BY <1>1, <1>4, <2>2, <2>3 DEF Calm, Between
  <1>8. QED
    BY <1>5, <1>6, <1>7 DEF IInv

-----------------------------------------------------------------------------
(* The socket. *)

(* A task that calls back a second time ends the process. *)
LEMMA CallbackFacts ==
  ASSUME IInv, NEW a, Callback(a)
  PROVE  /\ loop' \in LoopStates /\ loop' \in {"retry", "dead"}
         /\ called' \subseteq called \cup {a}
         /\ retryCount' \in Nat /\ restart' \in 0..MAX_RESTART_TIMEOUT
         /\ a \notin called => loop' = "retry" /\ restart' = Backoff'
  <1>1. CASE a \in called
    BY <1>1 DEF Callback, IInv, TypeOK, LoopStates
  <1>2. CASE a \notin called
    BY <1>2, BackoffFacts DEF Callback, Retry, Backoff, LoopStates
  <1>3. QED
    BY <1>1, <1>2

(* The 'open' handler starts the health check of the socket it belongs to. *)
LEMMA Opening == ASSUME IInv, Open PROVE IInv'
  <1>1. /\ loop = "socket" /\ webSocket = "connecting" /\ socket' = [socket EXCEPT ![attempt] = "open"]
        /\ interval' = Start(interval, attempt, healthCheckInterval) /\ healthCheckIntervalId' = attempt
        /\ UNCHANGED <<list, loop, attempt, called, timeout, pingTimeoutId, pinged, retryCount, restart, offline, budgets>>
    BY DEF Open
  <1>2. attempt \in Attempts /\ attempt # 0
    BY <1>1, AttemptsAreNumbers DEF webSocket, IInv, TypeOK
  <1>3. /\ socket' \in [Attempts -> SocketStates] /\ webSocket' = "open"
        /\ \A a \in Attempts : /\ a > attempt => socket'[a] = "none"
                               /\ a < attempt => socket'[a] = "closed"
    BY <1>1, <1>2, LastSocket DEF SocketStates
  <1>4. /\ DOMAIN interval' = DOMAIN interval \cup {attempt} /\ interval'[attempt] = healthCheckInterval
        /\ \A b \in DOMAIN interval \ {attempt} : interval'[b] = interval[b]
    BY <1>1 DEF Start
  <1>5. TypeOK'
    <2>1. healthCheckInterval \in 0..healthCheckInterval
      BY DEF healthCheckInterval
    <2>2. DOMAIN interval' \subseteq Attempts /\ \A a \in DOMAIN interval' : interval'[a] \in 0..healthCheckInterval
      BY <1>2, <1>4, <2>1 DEF IInv, TypeOK
    <2>3. QED
      BY <1>1, <1>2, <1>3, <2>2 DEF IInv, TypeOK, budgets
  <1>6. SocketInv'
    <2>1. attempt \in 1..attempt
      BY <1>2, AttemptsAreNumbers
    <2>2. QED
      BY <1>1, <1>3, <1>4, <2>1 DEF IInv, SocketInv, Between
  <1>7. CalmInv'
    <2> SUFFICES ASSUME lateErrors' = 0 PROVE Calm'
      BY DEF CalmInv
    <2>1. Calm /\ Idle /\ offline = 0
      BY <1>1 DEF IInv, CalmInv, Calm, budgets
    <2>2. Checked'
      BY <1>1, <1>3, <1>4, <2>1 DEF Idle, Checked
    <2>3. QED
      BY <1>1, <1>2, <1>3, <2>1, <2>2 DEF Calm, Between
  <1>8. QED
    BY <1>5, <1>6, <1>7 DEF IInv

(* A connection that hangs or dies: nothing tells the server yet. *)
LEMMA Hanging == ASSUME IInv, Hang \/ Drop PROVE IInv'
  <1> DEFINE state == IF webSocket = "connecting" THEN "hung" ELSE "mute"
  <1>1. /\ loop = "socket" /\ webSocket \in {"connecting", "open"} /\ socket' = [socket EXCEPT ![attempt] = state]
        /\ UNCHANGED <<list, loop, attempt, called, interval, timeout, healthCheckIntervalId, pingTimeoutId,
                       retryCount, restart, offline, lateErrors>>
        /\ (pinged' = pinged \/ pinged' = FALSE) /\ (webSocket = "open" => ~pinged')
    BY DEF Hang, Drop, Fault, timers
  <1>2. faults' \in 0..MaxFaults /\ hangs' \in 0..MaxHangs
    BY WsAssumption DEF Hang, Drop, Fault, IInv, TypeOK
  <1>3. attempt \in Attempts /\ attempt # 0
    BY <1>1, AttemptsAreNumbers DEF webSocket, IInv, TypeOK
  <1>4. /\ socket' \in [Attempts -> SocketStates] /\ webSocket' = state
        /\ \A a \in Attempts : /\ a > attempt => socket'[a] = "none"
                               /\ a < attempt => socket'[a] = "closed"
    <2>1. state \in SocketStates
      BY DEF SocketStates
    <2> HIDE DEF state
    <2>2. QED
      BY <1>1, <1>3, <2>1, LastSocket
  <1>5. TypeOK'
    <2>1. pinged' \in BOOLEAN
      BY <1>1, Zenon DEF IInv, TypeOK
    <2>2. QED
      BY <1>1, <1>2, <1>3, <1>4, <2>1 DEF IInv, TypeOK
  <1>6. SocketInv'
    BY <1>1, <1>4 DEF IInv, SocketInv, Between
  <1>7. CalmInv'
    <2> SUFFICES ASSUME lateErrors' = 0 PROVE Calm'
      BY DEF CalmInv
    <2>1. Calm
      BY <1>1 DEF IInv, CalmInv
    <2>2. CASE webSocket = "connecting"
      <3>1. Idle /\ offline = 0 /\ webSocket' = "hung"
        BY <1>1, <1>4, <2>1, <2>2 DEF Calm
      <3>2. Idle'
        <4>1. ~pinged'
          BY <1>1, <3>1, Zenon DEF Idle
        <4>2. QED
          BY <1>1, <3>1, <4>1 DEF Idle
      <3>3. QED
        BY <1>1, <1>3, <2>1, <3>1, <3>2 DEF Calm, Between
    <2>3. CASE webSocket = "open"
      <3>1. Checked /\ webSocket' = "mute" /\ ~pinged'
        BY <1>1, <1>4, <2>1, <2>3 DEF Calm
      <3>2. offline = 0 /\ (pinged <=> attempt \in DOMAIN timeout) /\ (pinged => timeout[attempt] = pingTimeout)
        BY <2>3, <3>1 DEF Checked
      <3>3. 0 + (IF attempt \in DOMAIN timeout THEN timeout[attempt] ELSE interval[attempt] + pingTimeout)
              <= healthCheckInterval + pingTimeout
        <4>1. interval[attempt] \in 0..healthCheckInterval
          BY <3>1 DEF Checked, IInv, TypeOK
        <4>2. QED
          BY <3>2, <4>1 DEF healthCheckInterval, pingTimeout
      <3>4. Checked'
        BY <1>1, <3>1, <3>2, <3>3 DEF Checked
      <3>5. QED
        BY <1>1, <1>3, <2>1, <3>1, <3>4 DEF Calm, Between
    <2>4. QED
      BY <1>1, <2>2, <2>3
  <1>8. QED
    BY <1>5, <1>6, <1>7 DEF IInv

(* The 'error' handler, of a handshake or of a socket that is open. *)
LEMMA Erring == ASSUME IInv, Refused \/ LateError PROVE IInv'
  <1>1. /\ loop = "socket" /\ webSocket \in {"connecting", "open"} /\ socket' = [socket EXCEPT ![attempt] = "closed"]
        /\ pinged' = FALSE /\ Callback(attempt)
        /\ UNCHANGED <<list, attempt, interval, timeout, healthCheckIntervalId, pingTimeoutId, offline>>
        /\ lateErrors' = 0 => lateErrors = 0 /\ webSocket = "connecting"
    BY WsAssumption DEF Refused, LateError, OnError, Fault, IInv, TypeOK
  <1>2. faults' \in 0..MaxFaults /\ hangs' \in 0..MaxHangs /\ lateErrors' \in 0..MaxLateErrors
    BY WsAssumption DEF Refused, LateError, OnError, Fault, IInv, TypeOK
  <1>3. attempt \in Attempts /\ attempt # 0 /\ 1..attempt \subseteq Attempts /\ attempt \in 1..attempt
    BY <1>1, AttemptsAreNumbers DEF webSocket, IInv, TypeOK
  <1>4. /\ socket' \in [Attempts -> SocketStates] /\ webSocket' = "closed"
        /\ \A a \in Attempts : /\ a > attempt => socket'[a] = "none"
                               /\ a < attempt => socket'[a] = "closed"
    BY <1>1, <1>3, LastSocket DEF SocketStates
  <1>5. called' \subseteq 1..attempt
    BY <1>1, <1>3, CallbackFacts DEF IInv, SocketInv
  <1>6. TypeOK'
    BY <1>1, <1>2, <1>3, <1>4, <1>5, CallbackFacts DEF IInv, TypeOK
  <1>7. SocketInv'
    BY <1>1, <1>4, <1>5, CallbackFacts DEF IInv, SocketInv
  <1>8. CalmInv'
    <2> SUFFICES ASSUME lateErrors' = 0 PROVE Calm'
      BY DEF CalmInv
    <2>1. Calm /\ webSocket = "connecting" /\ Idle /\ offline = 0 /\ attempt \notin called
      BY <1>1 DEF IInv, CalmInv, Calm
    <2>2. loop' = "retry" /\ restart' = Backoff' /\ restart' \in Nat /\ offline' = 0
      BY <1>1, <2>1, CallbackFacts
    <2>3. Idle'
      BY <1>1, <2>1 DEF Idle
    <2>4. offline' + restart' <= healthCheckInterval + pingTimeout + Backoff'
      <3>1. PICK n \in Nat : n = restart'
        BY <2>2
      <3>2. 0 + n <= 2 + 1 + n
        OBVIOUS
      <3>3. QED
        BY <2>2, <3>1, <3>2 DEF healthCheckInterval, pingTimeout
    <2>5. QED
      BY <2>2, <2>3, <2>4 DEF Calm, Between
  <1>9. QED
    BY <1>6, <1>7, <1>8 DEF IInv

-----------------------------------------------------------------------------
(* The health check and the clock. *)

(* While no open socket erred, the health check that runs is that of the last
   socket, which is open. *)
LEMMA OwnCheck ==
  ASSUME IInv, Calm, DOMAIN interval # {} \/ DOMAIN timeout # {} \/ pinged
  PROVE  /\ loop = "socket" /\ webSocket \in {"open", "mute"} /\ Checked
         /\ attempt # 0 /\ attempt \notin called
  <1>1. ~Idle
    BY DEF Idle
  <1>2. loop \in LoopStates
    BY DEF IInv, TypeOK
  <1>3. QED
    BY <1>1, <1>2 DEF Calm, LoopStates, Between

(* A ping starts the timeout that its answer has to beat. *)
LEMMA Pinging == ASSUME IInv, NEW a \in Attempts, Ping(a) PROVE IInv'
  <1>1. /\ a \in DOMAIN interval /\ interval[a] = 0 /\ loop # "dead"
        /\ interval' = [interval EXCEPT ![a] = healthCheckInterval]
        /\ UNCHANGED <<list, attempt, socket, called, healthCheckIntervalId, retryCount, restart, offline, budgets>>
    BY DEF Ping
  <1>2. /\ DOMAIN interval' = DOMAIN interval /\ interval'[a] = healthCheckInterval
        /\ \A b \in DOMAIN interval \ {a} : interval'[b] = interval[b]
    BY <1>1
  <1>3. webSocket' = webSocket
    BY <1>1 DEF webSocket
  <1>4. CASE webSocket \in {"connecting", "hung"}
    <2>1. loop' = "dead" /\ UNCHANGED <<timeout, pingTimeoutId, pinged>>
      BY <1>4 DEF Ping
    <2>2. TypeOK'
      <3>1. healthCheckInterval \in 0..healthCheckInterval
        BY DEF healthCheckInterval
      <3>2. QED
        BY <1>1, <1>2, <2>1, <3>1 DEF IInv, TypeOK, LoopStates, budgets
    <2>3. SocketInv'
      BY <1>1, <1>2, <2>1 DEF IInv, SocketInv, Between
    <2>4. lateErrors' # 0
      BY <1>1, <1>4, OwnCheck DEF IInv, CalmInv, budgets
    <2>5. QED
      BY <2>2, <2>3, <2>4 DEF IInv, CalmInv
  <1>5. CASE webSocket \notin {"connecting", "hung"}
    <2>1. /\ timeout' = Start(timeout, a, pingTimeout) /\ pingTimeoutId' = a /\ pinged' = (webSocket = "open")
          /\ loop' = loop
      BY <1>5 DEF Ping
    <2>2. /\ DOMAIN timeout' = DOMAIN timeout \cup {a} /\ timeout'[a] = pingTimeout
          /\ \A b \in DOMAIN timeout \ {a} : timeout'[b] = timeout[b]
      BY <2>1 DEF Start
    <2>3. TypeOK'
      <3>1. healthCheckInterval \in 0..healthCheckInterval /\ pingTimeout \in 0..pingTimeout
        BY DEF healthCheckInterval, pingTimeout
      <3>2. pinged' \in BOOLEAN
        BY <2>1
      <3>3. DOMAIN timeout' \subseteq Attempts /\ \A b \in DOMAIN timeout' : timeout'[b] \in 0..pingTimeout
        BY <2>2, <3>1 DEF IInv, TypeOK
      <3>4. QED
        BY <1>1, <1>2, <2>1, <3>1, <3>2, <3>3 DEF IInv, TypeOK, budgets
    <2>4. SocketInv'
      BY <1>1, <1>2, <1>3, <2>1, <2>2 DEF IInv, SocketInv
    <2>5. CalmInv'
      <3> SUFFICES ASSUME lateErrors' = 0 PROVE Calm'
        BY DEF CalmInv
      <3>1. Calm
        BY <1>1 DEF IInv, CalmInv, budgets
      <3>2. /\ loop = "socket" /\ webSocket \in {"open", "mute"} /\ Checked
            /\ attempt # 0 /\ attempt \notin called
        BY <1>1, <3>1, OwnCheck
      <3>3. a = attempt
        BY <1>1, <3>2 DEF Checked
      <3>4. attempt \notin DOMAIN timeout
        <4> SUFFICES ASSUME attempt \in DOMAIN timeout PROVE FALSE
          OBVIOUS
        <4>1. timeout[attempt] \in 0..pingTimeout /\ interval[attempt] = timeout[attempt] + healthCheckInterval - pingTimeout
          BY <3>2 DEF Checked, IInv, TypeOK
        <4>2. QED
          BY <1>1, <3>3, <4>1 DEF healthCheckInterval, pingTimeout
      <3>5. interval'[attempt] = timeout'[attempt] + healthCheckInterval - pingTimeout
        BY <1>2, <2>2, <3>3 DEF healthCheckInterval, pingTimeout
      <3>6. webSocket = "mute" => offline + pingTimeout <= healthCheckInterval + pingTimeout
        <4>1. webSocket = "mute" => offline + (0 + pingTimeout) <= healthCheckInterval + pingTimeout
          BY <1>1, <3>2, <3>3, <3>4 DEF Checked
        <4>2. QED
          BY <4>1 DEF pingTimeout, healthCheckInterval
      <3>7. Checked'
        <4>1. pinged' <=> webSocket = "open"
          BY <2>1
        <4>2. QED
          BY <1>1, <1>2, <1>3, <2>1, <2>2, <3>2, <3>3, <3>5, <3>6, <4>1 DEF Checked
      <3>8. QED
        BY <1>1, <1>3, <2>1, <3>1, <3>2, <3>7 DEF Calm, Between
    <2>6. QED
      BY <2>3, <2>4, <2>5 DEF IInv
  <1>6. QED
    BY <1>4, <1>5

(* The 'pong' handler clears the timeout that runs. *)
LEMMA Answering == ASSUME IInv, Pong PROVE IInv'
  <1>1. /\ pinged /\ webSocket = "open" /\ pinged' = FALSE /\ timeout' = Stop(timeout, pingTimeoutId) /\ pingTimeoutId' = 0
        /\ UNCHANGED <<list, loop, attempt, socket, called, interval, healthCheckIntervalId, retryCount, restart,
                       offline, budgets>>
    BY DEF Pong
  <1>2. /\ DOMAIN timeout' = DOMAIN timeout \ {pingTimeoutId}
        /\ \A b \in DOMAIN timeout' : timeout'[b] = timeout[b]
    BY <1>1, StopTimer
  <1>3. webSocket' = webSocket
    BY <1>1 DEF webSocket
  <1>4. TypeOK'
    BY <1>1, <1>2 DEF IInv, TypeOK, budgets
  <1>5. SocketInv'
    BY <1>1, <1>2, <1>3 DEF IInv, SocketInv
  <1>6. CalmInv'
    <2> SUFFICES ASSUME lateErrors' = 0 PROVE Calm'
      BY DEF CalmInv
    <2>1. Calm
      BY <1>1 DEF IInv, CalmInv, budgets
    <2>2. /\ loop = "socket" /\ Checked /\ attempt # 0 /\ attempt \notin called
      BY <1>1, <2>1, OwnCheck
    <2>3. pingTimeoutId = attempt
      BY <1>1, <2>2 DEF Checked
    <2>4. DOMAIN timeout' = {}
      BY <1>2, <2>2, <2>3 DEF Checked
    <2>5. Checked'
      BY <1>1, <1>3, <2>2, <2>4 DEF Checked
    <2>6. QED
      BY <1>1, <1>3, <2>1, <2>2, <2>5 DEF Calm, Between
  <1>7. QED
    BY <1>4, <1>5, <1>6 DEF IInv

(* The timeout of a ping ends its own socket and interval, and calls back once. *)
LEMMA TimingOut == ASSUME IInv, NEW a \in Attempts, PingTimeout(a) PROVE IInv'
  <1>1. /\ a \in DOMAIN timeout /\ timeout[a] = 0 /\ timeout' = Stop(timeout, a)
        /\ socket' = [socket EXCEPT ![attempt] = "closed"] /\ pinged' = FALSE
        /\ interval' = Stop(interval, healthCheckIntervalId) /\ healthCheckIntervalId' = 0
        /\ Callback(a) /\ UNCHANGED <<list, attempt, pingTimeoutId, offline, budgets>>
    BY DEF PingTimeout
  <1>2. a \in 1..attempt /\ attempt \in Attempts
    BY <1>1 DEF IInv, SocketInv, TypeOK
  <1>3. /\ socket' \in [Attempts -> SocketStates] /\ webSocket' = "closed"
        /\ \A b \in Attempts : /\ b > attempt => socket'[b] = "none"
                               /\ b < attempt => socket'[b] = "closed"
    BY <1>1, <1>2, LastSocket DEF SocketStates
  <1>4. /\ DOMAIN timeout' = DOMAIN timeout \ {a} /\ \A b \in DOMAIN timeout' : timeout'[b] = timeout[b]
        /\ DOMAIN interval' = DOMAIN interval \ {healthCheckIntervalId}
        /\ \A b \in DOMAIN interval' : interval'[b] = interval[b]
    BY <1>1, StopTimer
  <1>5. called' \subseteq 1..attempt
    BY <1>1, <1>2, CallbackFacts DEF IInv, SocketInv
  <1>6. TypeOK'
    <2>1. called' \subseteq Attempts
      BY <1>2, <1>5, AttemptsAreNumbers
    <2>2. QED
      BY <1>1, <1>3, <1>4, <2>1, CallbackFacts DEF IInv, TypeOK, budgets
  <1>7. SocketInv'
    BY <1>1, <1>3, <1>4, <1>5, CallbackFacts DEF IInv, SocketInv
  <1>8. CalmInv'
    <2> SUFFICES ASSUME lateErrors' = 0 PROVE Calm'
      BY DEF CalmInv
    <2>1. Calm
      BY <1>1 DEF IInv, CalmInv, budgets
    <2>2. /\ loop = "socket" /\ webSocket \in {"open", "mute"} /\ Checked
          /\ attempt # 0 /\ attempt \notin called
      BY <1>1, <2>1, OwnCheck
    <2>3. a = attempt
      BY <1>1, <2>2 DEF Checked
    <2>4. webSocket = "mute"
      <3>1. webSocket = "open" => timeout[attempt] = 1
        BY <1>1, <2>2, <2>3 DEF Checked, pingTimeout
      <3>2. QED
        BY <1>1, <2>2, <2>3, <3>1
    <2>5. offline + 0 <= healthCheckInterval + pingTimeout
      BY <1>1, <2>2, <2>3, <2>4 DEF Checked
    <2>6. loop' = "retry" /\ restart' = Backoff' /\ restart' \in Nat
      BY <1>1, <2>2, <2>3, CallbackFacts
    <2>7. Idle'
      BY <1>1, <1>4, <2>2, <2>3 DEF Checked, Idle
    <2>8. offline' + restart' <= healthCheckInterval + pingTimeout + Backoff'
      <3>1. PICK n \in Nat : n = restart'
        BY <2>6
      <3>2. PICK o \in Nat : o = offline
        BY DEF IInv, TypeOK
      <3>3. o <= 3 /\ o' = o
        BY <2>5, <3>2 DEF healthCheckInterval, pingTimeout
      <3>4. o + n <= 2 + 1 + n
        BY <3>3
      <3>5. QED
        BY <1>1, <2>6, <3>1, <3>2, <3>4 DEF healthCheckInterval, pingTimeout
    <2>9. QED
      BY <2>6, <2>7, <2>8 DEF Calm, Between
  <1>9. QED
    BY <1>6, <1>7, <1>8 DEF IInv

(* Time passes only when no timer is due, so every clock stays in its range. *)
LEMMA Ticking == ASSUME IInv, Tick PROVE IInv'
  <1>1. /\ ~Due /\ loop # "dead"
        /\ interval' = [a \in DOMAIN interval |-> interval[a] - 1]
        /\ timeout' = [a \in DOMAIN timeout |-> timeout[a] - 1]
        /\ restart' = IF loop = "retry" THEN restart - 1 ELSE restart
        /\ offline' = IF Offline /\ offline < OfflineCap THEN offline + 1 ELSE offline
        /\ UNCHANGED <<list, loop, attempt, socket, called, healthCheckIntervalId, pingTimeoutId, pinged,
                       retryCount, budgets>>
    BY DEF Tick
  <1>2. /\ \A a \in DOMAIN interval : interval[a] # 0
        /\ \A a \in DOMAIN timeout : timeout[a] # 0
        /\ loop = "retry" => restart # 0
        /\ ~pinged
    BY <1>1 DEF Due
  <1>3. /\ DOMAIN interval' = DOMAIN interval /\ \A a \in DOMAIN interval : interval'[a] = interval[a] - 1
        /\ DOMAIN timeout' = DOMAIN timeout /\ \A a \in DOMAIN timeout : timeout'[a] = timeout[a] - 1
        /\ webSocket' = webSocket
    BY <1>1 DEF webSocket
  <1>4. TypeOK'
    <2>1. \A a \in DOMAIN interval' : interval'[a] \in 0..healthCheckInterval
      BY <1>2, <1>3 DEF IInv, TypeOK, healthCheckInterval
    <2>2. \A a \in DOMAIN timeout' : timeout'[a] \in 0..pingTimeout
      BY <1>2, <1>3 DEF IInv, TypeOK, pingTimeout
    <2>3. restart' \in 0..MAX_RESTART_TIMEOUT
      BY <1>1, <1>2 DEF IInv, TypeOK, MAX_RESTART_TIMEOUT
    <2>4. offline' \in 0..OfflineCap
      BY <1>1 DEF IInv, TypeOK, OfflineCap, healthCheckInterval, pingTimeout, MAX_RESTART_TIMEOUT
    <2>5. QED
      BY <1>1, <1>3, <2>1, <2>2, <2>3, <2>4 DEF IInv, TypeOK, budgets
  <1>5. SocketInv'
    BY <1>1, <1>3 DEF IInv, SocketInv
  <1>6. CalmInv'
    <2> SUFFICES ASSUME lateErrors' = 0 PROVE Calm'
      BY DEF CalmInv
    <2>1. Calm
      BY <1>1 DEF IInv, CalmInv, budgets
    <2>2. Idle => Idle'
      BY <1>1, <1>3 DEF Idle
    <2>3. offline \in Nat /\ (~Offline => offline' = offline) /\ offline' <= offline + 1 /\ offline' \in Nat
      BY <1>1 DEF IInv, TypeOK
    <2>4. CASE loop \in {"query", "loaded"}
      BY <1>1, <2>1, <2>2, <2>3, <2>4 DEF Calm, Between, Offline
    <2>5. CASE loop = "retry"
      <3>1. Backoff' = Backoff
        BY <1>1 DEF Backoff
      <3>2. offline' + restart' <= offline + restart /\ offline + restart <= healthCheckInterval + pingTimeout + Backoff
        <4>1. restart \in Nat
          BY DEF IInv, TypeOK
        <4>2. QED
          BY <1>1, <1>2, <2>1, <2>3, <2>5, <4>1 DEF Calm
      <3>3. offline' + restart' <= healthCheckInterval + pingTimeout + Backoff'
        <4>1. restart \in Nat /\ restart' \in Nat /\ Backoff \in Nat
          BY <1>4, BackoffFacts DEF IInv, TypeOK
        <4>2. PICK o \in Nat, n \in Nat : o = offline' /\ n = restart'
          BY <2>3, <4>1
        <4>3. PICK p \in Nat, m \in Nat, b \in Nat : p = offline /\ m = restart /\ b = Backoff
          BY <2>3, <4>1
        <4>4. o + n <= p + m /\ p + m <= 2 + 1 + b
          BY <3>2, <4>2, <4>3 DEF healthCheckInterval, pingTimeout
        <4>5. o + n <= 2 + 1 + b
          BY <4>4
        <4>6. QED
          BY <3>1, <4>2, <4>3, <4>5 DEF healthCheckInterval, pingTimeout
      <3>4. QED
        BY <1>1, <2>1, <2>2, <2>5, <3>3 DEF Calm, Between
    <2>6. CASE loop = "socket" /\ webSocket \in {"connecting", "hung", "open"}
      <3>1. offline' = offline
        BY <2>3, <2>6 DEF Offline
      <3>2. webSocket = "open" => Checked'
        BY <1>1, <1>2, <1>3, <2>1, <2>6, <3>1 DEF Calm, Checked
      <3>3. QED
        BY <1>1, <1>3, <2>1, <2>2, <2>6, <3>1, <3>2 DEF Calm, Between
    <2>7. CASE loop = "socket" /\ webSocket = "mute"
      <3>1. Checked
        BY <2>1, <2>7 DEF Calm
      <3>2. interval[attempt] \in 1..healthCheckInterval /\ interval'[attempt] = interval[attempt] - 1
        BY <1>2, <1>3, <3>1 DEF Checked, IInv, TypeOK, healthCheckInterval
      <3>3. CASE attempt \in DOMAIN timeout
        <4>1. timeout[attempt] \in 1..pingTimeout /\ timeout'[attempt] = timeout[attempt] - 1
          BY <1>2, <1>3, <3>3 DEF IInv, TypeOK, pingTimeout
        <4>2. offline + timeout[attempt] <= healthCheckInterval + pingTimeout
          BY <2>7, <3>1, <3>3 DEF Checked
        <4>3. offline' + timeout'[attempt] <= healthCheckInterval + pingTimeout
          BY <2>3, <4>1, <4>2 DEF healthCheckInterval, pingTimeout
        <4>4. interval'[attempt] = timeout'[attempt] + healthCheckInterval - pingTimeout
          BY <3>1, <3>2, <3>3, <4>1 DEF Checked, healthCheckInterval, pingTimeout
        <4>5. Checked'
          BY <1>1, <1>2, <1>3, <2>7, <3>1, <3>3, <4>3, <4>4 DEF Checked
        <4>6. QED
          BY <1>1, <1>3, <2>1, <2>7, <4>5 DEF Calm, Between
      <3>4. CASE attempt \notin DOMAIN timeout
        <4>1. offline + (interval[attempt] + pingTimeout) <= healthCheckInterval + pingTimeout
          BY <2>7, <3>1, <3>4 DEF Checked
        <4>2. offline' + (interval'[attempt] + pingTimeout) <= healthCheckInterval + pingTimeout
          BY <2>3, <3>2, <4>1 DEF healthCheckInterval, pingTimeout
        <4>3. Checked'
          BY <1>1, <1>2, <1>3, <2>7, <3>1, <3>4, <4>2 DEF Checked
        <4>4. QED
          BY <1>1, <1>3, <2>1, <2>7, <4>3 DEF Calm, Between
      <3>5. QED
        BY <3>3, <3>4
    <2>8. loop \in {"query", "loaded", "retry", "socket"}
      BY <1>1 DEF IInv, TypeOK, LoopStates
    <2>9. QED
      BY <2>1, <2>4, <2>5, <2>6, <2>7, <2>8 DEF Calm
  <1>7. QED
    BY <1>4, <1>5, <1>6 DEF IInv

-----------------------------------------------------------------------------
(* The theorems. *)

LEMMA WsStep == IInv /\ [Next]_vars => IInv'
  <1> SUFFICES ASSUME IInv, [Next]_vars PROVE IInv'
    OBVIOUS
  <1>1. CASE LoopStep
    BY <1>1, GoingAround, Connecting, Opening, Answering DEF LoopStep
  <1>2. CASE TimerStep
    BY <1>2, Pinging, TimingOut DEF TimerStep
  <1>3. CASE FaultStep
    BY <1>3, GoingAround, Erring, Hanging DEF FaultStep
  <1>4. CASE UNCHANGED vars
    <2>1. /\ UNCHANGED <<loop, list, attempt, socket, called, interval, timeout, healthCheckIntervalId, pingTimeoutId,
                         pinged, retryCount, restart, offline, faults, hangs, lateErrors>>
          /\ webSocket' = webSocket /\ Backoff' = Backoff
      BY <1>4 DEF vars, webSocket, Backoff
    <2>2. TypeOK' /\ SocketInv'
      BY <2>1 DEF IInv, TypeOK, SocketInv
    <2>3. CalmInv'
      BY <2>1 DEF IInv, CalmInv, Calm, Idle, Checked
    <2>4. QED
      BY <2>2, <2>3 DEF IInv
  <1>5. QED
    BY <1>1, <1>2, <1>3, <1>4, Ticking DEF Next

(* It holds of every state the loop can be in. *)
LEMMA WsInvHolds == Spec => []IInv
  BY WsInit, WsStep, PTL DEF Spec

(* The types of the loop's state are kept. *)
THEOREM TypeCorrect == Spec => []TypeOK
  <1>1. IInv => TypeOK
    BY DEF IInv
  <1>2. QED
    BY <1>1, WsInvHolds, PTL

(* Without an error of an open socket no task calls back twice, and no ping is
   sent on a socket that connects: the process does not die of its connection. *)
THEOREM NoCrashWithoutLateError == Spec => []CrashOnlyAfterLateError
  <1>1. IInv => CrashOnlyAfterLateError
    <2> SUFFICES ASSUME IInv, loop = "dead" PROVE lateErrors > 0
      BY DEF CrashOnlyAfterLateError
    <2>1. lateErrors # 0 /\ lateErrors \in Nat
      BY DEF IInv, TypeOK, CalmInv, Calm
    <2>2. QED
      BY <2>1
  <1>2. QED
    BY <1>1, WsInvHolds, PTL

(* At most one socket is not closed, whatever fails: the earlier ones are closed
   before the next is made. *)
THEOREM NeverTwoLiveSockets == Spec => []OneLiveSocket
  <1>1. IInv => OneLiveSocket
    <2> SUFFICES ASSUME IInv PROVE OneLiveSocket
      OBVIOUS
    <2> DEFINE live == {a \in Attempts : socket[a] \notin {"none", "closed"}}
    <2>1. \A a \in live : a = attempt
      <3>1. attempt \in Nat /\ \A a \in Attempts : a \in Nat
        BY AttemptsAreNumbers DEF IInv, TypeOK
      <3>2. QED
        BY <3>1 DEF IInv, SocketInv
    <2>2. live \subseteq {attempt}
      BY <2>1
    <2>3. IsFiniteSet({attempt}) /\ Cardinality({attempt}) = 1
      BY FS_Singleton
    <2>4. Cardinality(live) <= 1
      BY <2>2, <2>3, FS_Subset
    <2>5. QED
      BY <2>4 DEF OneLiveSocket
  <1>2. QED
    BY <1>1, WsInvHolds, PTL

(* An outage is noticed in the rest of an interval and a ping timeout, and the
   next attempt starts after the delay of the retry. *)
THEOREM OutageIsAlwaysBounded == Spec => []OutageIsBounded
  <1>1. IInv => OutageIsBounded
    <2> SUFFICES ASSUME IInv, lateErrors = 0
                 PROVE  offline <= healthCheckInterval + pingTimeout + Backoff
      BY DEF OutageIsBounded, Backoff
    <2>1. Calm /\ offline \in Nat /\ Backoff \in Nat /\ restart \in Nat /\ loop \in LoopStates
      BY BackoffFacts DEF IInv, CalmInv, TypeOK
    <2>2. CASE loop \in {"query", "loaded"} \/ (loop = "socket" /\ webSocket # "mute")
      <3>1. offline = 0
        BY <2>1, <2>2 DEF Calm, Checked
      <3>2. 0 <= 2 + 1 + Backoff
        BY <2>1
      <3>3. QED
        BY <3>1, <3>2 DEF healthCheckInterval, pingTimeout
    <2>3. CASE loop = "retry"
      <3>1. offline + restart <= 2 + 1 + Backoff
        BY <2>1, <2>3 DEF Calm, healthCheckInterval, pingTimeout
      <3>2. QED
        BY <2>1, <3>1 DEF healthCheckInterval, pingTimeout
    <2>4. CASE loop = "socket" /\ webSocket = "mute"
      <3>1. Checked
        BY <2>1, <2>4 DEF Calm
      <3>2. /\ interval[attempt] \in Nat
            /\ attempt \in DOMAIN timeout => timeout[attempt] \in Nat
        BY <3>1 DEF Checked, IInv, TypeOK
      <3>3. offline + (IF attempt \in DOMAIN timeout THEN timeout[attempt] ELSE interval[attempt] + 1) <= 2 + 1
        BY <2>4, <3>1 DEF Checked, healthCheckInterval, pingTimeout
      <3>4. offline <= 2 + 1
        BY <2>1, <3>2, <3>3
      <3>5. offline <= 2 + 1 + Backoff
        BY <2>1, <3>4
      <3>6. QED
        BY <3>5 DEF healthCheckInterval, pingTimeout
    <2>5. QED
      BY <2>1, <2>2, <2>3, <2>4 DEF Calm, LoopStates
  <1>2. QED
    BY <1>1, WsInvHolds, PTL

(* The health check never tears down a socket that answers its pings. *)
THEOREM HealthySocketIsAlwaysKept == Spec => HealthySocketIsKept
  <1> DEFINE Healthy == lateErrors' = 0 /\ webSocket = "open"
             Kept == attempt' = attempt /\ socket'[attempt] \in {"open", "mute"}
  <1>1. IInv /\ [Next]_vars => (Healthy => Kept)
    <2> SUFFICES ASSUME IInv, [Next]_vars, lateErrors' = 0, webSocket = "open" PROVE Kept
      OBVIOUS
    <2>1. attempt \in Attempts /\ socket[attempt] = "open" /\ socket \in [Attempts -> SocketStates]
      BY DEF webSocket, IInv, TypeOK
    <2>2. CASE LateError
      BY <2>2, WsAssumption DEF LateError, IInv, TypeOK
    <2>3. CASE ~LateError
      <3>1. lateErrors = 0
        BY <2>3 DEF Next, vars, budgets, LoopStep, TimerStep, FaultStep, ReadPending, Connect, Open, Restart, Pong, Ping,
                    PingTimeout, Tick, QueryFails, Refused, Hang, Drop, Fault
      <3>2. Calm /\ loop \notin Between
        BY <3>1, AttemptsAreNumbers, <2>1 DEF IInv, CalmInv, SocketInv
      <3>3. loop = "socket" /\ Checked
        BY <3>2 DEF Calm, IInv, TypeOK, LoopStates, Between
      <3>4. ~(\E a \in Attempts : PingTimeout(a))
        BY <3>3 DEF Checked, PingTimeout, pingTimeout
      <3>5. CASE Drop
        BY <2>1, <3>5 DEF Drop
      <3>6. CASE ~Drop
        <4>1. UNCHANGED <<attempt, socket>>
          BY <2>3, <3>3, <3>4, <3>6 DEF Next, vars, LoopStep, TimerStep, FaultStep, ReadPending, Connect, Open, Restart, Pong,
                                         Ping, Tick, QueryFails, Refused, Hang
        <4>2. QED
          BY <2>1, <4>1
      <3>7. QED
        BY <3>5, <3>6
    <2>4. QED
      BY <2>2, <2>3
  <1>2. QED
    BY <1>1, WsInvHolds, PTL DEF Spec, HealthySocketIsKept

(* The loop keeps the safety part of the promise BoltzSwaps relies on: every
   connection is made from a list of swaps read after the last one was lost. *)
THEOREM LoopIsAConnection == Spec => C!Spec
  <1>1. Init => C!Init
    BY DEF Init, C!Init, conn
  <1>2. IInv /\ [Next]_vars => [C!Advance \/ C!Lose]_conn
    <2> SUFFICES ASSUME IInv, [Next]_vars PROVE C!Advance \/ C!Lose \/ conn' = conn
      OBVIOUS
    <2> USE DEF C!Advance, C!Load, C!Connect, C!Open, C!Lose
    <2>1. /\ loop = "loaded" => list = attempt + 1
          /\ attempt \in Attempts \cup {0} /\ socket \in [Attempts -> SocketStates] /\ loop \in LoopStates
          /\ \A a \in Attempts : a # 0
      BY AttemptsAreNumbers DEF IInv, SocketInv, TypeOK
    <2>2. conn # "down" \/ conn = "down"
      OBVIOUS
    <2>3. CASE conn' = "down"
      BY <2>3
    <2>4. CASE UNCHANGED vars
      BY <2>4 DEF vars, conn, webSocket
    <2>5. CASE ReadPending
      BY <2>5 DEF ReadPending, conn
    <2>6. CASE Connect
      BY <2>1, <2>6 DEF Connect, conn, webSocket
    <2>7. CASE Open \/ Hang
      BY <2>1, <2>7 DEF Open, Hang, conn, webSocket
    <2>8. CASE Pong \/ Tick
      BY <2>8 DEF Pong, Tick, conn, webSocket
    <2>9. CASE \E a \in Attempts : Ping(a)
      BY <2>9 DEF Ping, conn, webSocket
    <2>10. CASE Restart \/ QueryFails
      BY <2>10 DEF Restart, QueryFails, Retry, conn
    <2>11. CASE Drop
      BY <2>1, <2>11 DEF Drop, conn, webSocket
    <2>12. CASE Refused \/ LateError
      <3>1. Callback(attempt)
        BY <2>12 DEF Refused, LateError, OnError
      <3>2. loop' \in {"retry", "dead"}
        BY <3>1, CallbackFacts
      <3>3. QED
        BY <3>2 DEF conn
    <2>13. CASE \E a \in Attempts : PingTimeout(a)
      <3>1. loop' \in {"retry", "dead"}
        BY <2>13, CallbackFacts DEF PingTimeout
      <3>2. QED
        BY <3>1 DEF conn
    <2>14. QED
      BY <2>4, <2>5, <2>6, <2>7, <2>8, <2>9, <2>10, <2>11, <2>12, <2>13 DEF Next, LoopStep, TimerStep, FaultStep
  <1>3. QED
    BY <1>1, <1>2, WsInvHolds, PTL DEF Spec, C!Spec
=============================================================================

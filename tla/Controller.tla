----------------------------- MODULE Controller -----------------------------
(***************************************************************************)
(* Start and shutdown of the relay: Controller, Server and Healthcheck in  *)
(* relay-server/src/actors/, with the outcome producers, which know        *)
(* nothing of a shutdown.                                                  *)
(*                                                                         *)
(* Time passes only when all messages have been handled and no timer is    *)
(* due: handlers are quick compared with the timers.                       *)
(***************************************************************************)
EXTENDS OutcomeProducer

CONSTANTS
  Timeout,      \* config.shutdown_timeout()
  Stopped,      \* the state of an HTTP server that has stopped
  Signals       \* bound: the signals that the process gets, in order

ASSUME TimeoutAssumption == Timeout \in Nat
ASSUME StoppedAssumption == Stopped \notin Nat \cup {None}

Actors == {"Server", "Healthcheck"}
SignalTypes == {"Term", "Int"}   \* SIGQUIT is handled as SIGINT
Delay == 1                       \* the 100 ms before System::stop

VARIABLES
  inbox,          \* the messages of the start that Controller has not handled
  timeout,        \* Controller::timeout
  subscribers,    \* Controller::subscribers
  shutdowns,      \* signal -> the future of shutdown()
  shutting_down,  \* Healthcheck::is_shutting_down
  stopping,       \* the HTTP server: None, the time until it has stopped, or Stopped
  stopped         \* System::stop has been called

cvars == <<inbox, timeout, subscribers, shutdowns, shutting_down, stopping, stopped>>
vars == <<pvars, cvars>>

(* A future of shutdown(): the actors whose mailboxes have the message,    *)
(* the ones that have not answered, and the time until it stops the        *)
(* system. told and seen are history: the subscribers when the signal      *)
(* came, and the outcomes that were tracked when the stop was scheduled.   *)
NoShutdown ==
  [type |-> None, sent |-> {}, waits |-> {}, timeout |-> 0, in |-> None, told |-> {}, seen |-> {}]

TypeOK ==
  /\ mode \in Modes
  /\ tracked \subseteq Outcomes /\ done \subseteq Outcomes
  /\ mailbox \subseteq Outcomes /\ http \subseteq Outcomes /\ unsent \subseteq Outcomes
  /\ timers \in [Timers -> 0 .. BatchInterval \cup {None}] /\ pending \in Timers \cup {None}
  /\ batches \in [Batches -> SUBSET Outcomes]
  /\ inbox \subseteq {"Configure"} \cup Actors
  /\ timeout \in {0, Timeout}
  /\ subscribers \subseteq Actors
  /\ shutdowns \in [Signals ->
       [type : SignalTypes \cup {None}, sent : SUBSET Actors, waits : SUBSET Actors,
        timeout : {0, Timeout}, in : 0 .. Timeout + Delay \cup {None},
        told : SUBSET Actors, seen : SUBSET Outcomes]]
  /\ \A s \in Signals : shutdowns[s].sent \subseteq shutdowns[s].waits
  /\ stopping \in 0 .. Timeout \cup {None, Stopped}
  /\ shutting_down \in BOOLEAN /\ stopped \in BOOLEAN

Init ==
  /\ PInit
  /\ inbox = {"Configure"} \cup Actors
  /\ timeout = 0
  /\ subscribers = {}
  /\ shutdowns = [s \in Signals |-> NoShutdown]
  /\ shutting_down = FALSE
  /\ stopping = None
  /\ stopped = FALSE

-----------------------------------------------------------------------------
(* Handler<Configure> and Handler<Subscribe>                               *)
Configure ==
  /\ ~stopped /\ "Configure" \in inbox
  /\ inbox' = inbox \ {"Configure"}
  /\ timeout' = Timeout
  /\ UNCHANGED <<pvars, subscribers, shutdowns, shutting_down, stopping, stopped>>

Subscribe(a) ==
  /\ ~stopped /\ a \in inbox /\ "Configure" \notin inbox
  /\ inbox' = inbox \ {a}
  /\ subscribers' = subscribers \cup {a}
  /\ UNCHANGED <<pvars, timeout, shutdowns, shutting_down, stopping, stopped>>

(* Handler<Signal> with shutdown(): Shutdown goes to all subscribers.      *)
Signal(s, type) ==
  /\ ~stopped /\ shutdowns[s].type = None
  /\ \A r \in Signals : r < s => shutdowns[r].type # None
  /\ shutdowns' = [shutdowns EXCEPT ![s] =
       [type |-> type, sent |-> subscribers, waits |-> subscribers,
        timeout |-> IF type = "Term" THEN timeout ELSE 0,
        in |-> None, told |-> subscribers, seen |-> {}]]
  /\ UNCHANGED <<pvars, inbox, timeout, subscribers, shutting_down, stopping, stopped>>

Handled_Again(s, a) == shutdowns' = [shutdowns EXCEPT ![s].waits = @ \ {a}]

Handled(s, a) == shutdowns' = [shutdowns EXCEPT ![s].sent = @ \ {a}, ![s].waits = @ \ {a}]

(* Handler<Shutdown> of Healthcheck                                        *)
HealthcheckShutdown(s) ==
  /\ ~stopped /\ "Healthcheck" \in shutdowns[s].sent
  /\ shutting_down' = TRUE
  /\ Handled(s, "Healthcheck")
  /\ UNCHANGED <<pvars, inbox, timeout, subscribers, stopping, stopped>>

(* Handler<Shutdown> of Server: StopServer to the HTTP server, which takes *)
(* no more requests and, if graceful, waits for the ones it has.           *)
ServerShutdown(s) ==
  /\ ~stopped /\ "Server" \in shutdowns[s].sent
  /\ shutdowns' = [shutdowns EXCEPT ![s].sent = @ \ {"Server"}]
  /\ stopping' = IF stopping = None
                 THEN IF shutdowns[s].type = "Term" THEN Timeout ELSE 0
                 ELSE IF shutdowns[s].type = "Int" /\ stopping # Stopped THEN 0 ELSE stopping
  /\ UNCHANGED <<pvars, inbox, timeout, subscribers, shutting_down, stopped>>

(* The HTTP server has no requests left, or does not wait any longer.      *)
ServerStops ==
  /\ ~stopped /\ stopping \notin {None, Stopped}
  /\ stopping' = Stopped
  /\ UNCHANGED <<pvars, inbox, timeout, subscribers, shutdowns, shutting_down, stopped>>

ServerAnswers(s) ==
  /\ ~stopped /\ stopping = Stopped
  /\ "Server" \in shutdowns[s].waits \ shutdowns[s].sent
  /\ Handled(s, "Server")
  /\ UNCHANGED <<pvars, inbox, timeout, subscribers, shutting_down, stopping, stopped>>

Joined_Any(s) == shutdowns[s].waits # subscribers \/ subscribers = {}

Joined_Some(s) == shutdowns[s].told # {} /\ shutdowns[s].waits = {}

(* join_all(futures)                                                       *)
Joined(s) == shutdowns[s].waits = {}

StopIn_Now(s) == Delay

(* timeout.unwrap_or(0) + 100 ms                                           *)
StopIn(s) == shutdowns[s].timeout + Delay

ScheduleStop(s) ==
  /\ ~stopped /\ shutdowns[s].type # None /\ shutdowns[s].in = None
  /\ Joined(s)
  /\ shutdowns' = [shutdowns EXCEPT ![s].in = StopIn(s), ![s].seen = tracked]
  /\ UNCHANGED <<pvars, inbox, timeout, subscribers, shutting_down, stopping, stopped>>

(* run_later calls System::stop.                                           *)
Stop(s) ==
  /\ ~stopped /\ shutdowns[s].in = 0
  /\ stopped' = TRUE
  /\ UNCHANGED <<pvars, inbox, timeout, subscribers, shutdowns, shutting_down, stopping>>

-----------------------------------------------------------------------------
(* Time                                                                    *)

Less(n) == IF n \in {None, Stopped} THEN n ELSE n - 1

(* Nothing has to be done before time passes.                              *)
Quiet ==
  /\ inbox = {} /\ mailbox = {} /\ http = {} /\ Due = {}
  /\ stopping # 0
  /\ \A s \in Signals :
       /\ shutdowns[s].sent = {} /\ shutdowns[s].in # 0
       /\ stopping = Stopped => shutdowns[s].waits = {}
       /\ ~(shutdowns[s].type # None /\ shutdowns[s].in = None /\ Joined(s))

Waiting == Armed # {} \/ stopping \notin {None, Stopped} \/ \E s \in Signals : shutdowns[s].in # None

Tick ==
  /\ ~stopped /\ Quiet /\ Waiting
  /\ timers' = [t \in Timers |-> Less(timers[t])]
  /\ stopping' = Less(stopping)
  /\ shutdowns' = [s \in Signals |-> [shutdowns[s] EXCEPT !.in = Less(@)]]
  /\ UNCHANGED <<mode, tracked, mailbox, http, unsent, pending, batches, done,
                 inbox, timeout, subscribers, shutting_down, stopped>>

(* Requests, and the futures that they leave behind, track outcomes.       *)
TrackOutcome(o) == ~stopped /\ Track(o) /\ UNCHANGED cvars
ForwardOutcome(o) == ~stopped /\ TrackRawOutcome(o) /\ UNCHANGED cvars
CollectOutcome(o) == ~stopped /\ TrackHttpOutcome(o) /\ UNCHANGED cvars
FlushOutcomes(t) == ~stopped /\ Flush(t) /\ UNCHANGED cvars
BatchEnds(b) == ~stopped /\ BatchSent(b) /\ UNCHANGED cvars

Next ==
  \/ \E o \in Outcomes : TrackOutcome(o) \/ ForwardOutcome(o) \/ CollectOutcome(o)
  \/ \E t \in Timers : FlushOutcomes(t)
  \/ \E b \in Batches : BatchEnds(b)
  \/ Configure
  \/ \E a \in Actors : Subscribe(a)
  \/ \E s \in Signals, type \in SignalTypes : Signal(s, type)
  \/ \E s \in Signals : HealthcheckShutdown(s) \/ ServerShutdown(s) \/ ServerAnswers(s)
                          \/ ScheduleStop(s) \/ Stop(s)
  \/ ServerStops
  \/ Tick

Spec == Init /\ [][Next]_vars

(* Messages are handled, timers fire, the HTTP server stops, and requests  *)
(* to the upstream end.                                                    *)
Fairness ==
  /\ WF_vars(Configure)
  /\ \A a \in Actors : WF_vars(Subscribe(a))
  /\ \A s \in Signals : /\ WF_vars(HealthcheckShutdown(s)) /\ WF_vars(ServerShutdown(s))
                        /\ WF_vars(ServerAnswers(s)) /\ WF_vars(ScheduleStop(s)) /\ WF_vars(Stop(s))
  /\ WF_vars(ServerStops) /\ WF_vars(Tick)
  /\ \A o \in Outcomes : WF_vars(ForwardOutcome(o)) /\ WF_vars(CollectOutcome(o))
  /\ \A t \in Timers : WF_vars(FlushOutcomes(t))
  /\ \A b \in Batches : WF_vars(BatchEnds(b))

FairSpec == Spec /\ Fairness

-----------------------------------------------------------------------------
(* The properties.                                                         *)

(* When a shutdown has scheduled the stop of the system, every actor that  *)
(* had subscribed when the signal came is through with it, even if two     *)
(* signals overlap: Healthcheck reports that the relay is not ready, and   *)
(* the HTTP server has let go of its requests.                             *)
StopsInOrder ==
  \A s \in Signals : shutdowns[s].in # None =>
    /\ "Healthcheck" \in shutdowns[s].told => shutting_down
    /\ "Server" \in shutdowns[s].told => stopping = Stopped

(* HttpOutcomeProducer does not subscribe, so its last batch is only sent  *)
(* if its timer fires before the stop: a graceful shutdown that is not     *)
(* shorter than outcome_batch_interval leaves no outcome behind that was   *)
(* tracked when the HTTP server had stopped.                               *)
GracefulFlush ==
  \A s \in Signals : shutdowns[s].in = 0 /\ shutdowns[s].timeout >= BatchInterval =>
    shutdowns[s].seen \cap (mailbox \cup http \cup unsent) = {}

(* The system stops only after everyone who must hear of it.               *)
OrderlyStop == TypeOK /\ StopsInOrder /\ GracefulFlush

(* A signal stops the system in the end.                                   *)
SignalStops == \A s \in Signals : (shutdowns[s].type # None) ~> stopped

(* Every outcome reaches its receiver or is refused, unless the system is  *)
(* stopped before.                                                         *)
OutcomeSent == \A o \in Outcomes : (o \in tracked) ~> (o \in done \/ stopped)

=============================================================================

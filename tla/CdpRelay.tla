------------------------------ MODULE CdpRelay ------------------------------
(***************************************************************************)
(* One relayed connection: the two pumps of proxy/transport/cdp.py between *)
(* a client and a provider session wrapped by DomainBlocking, the          *)
(* CdpEventObserver of events/cdp.py that matches responses to commands    *)
(* and counts them, and what Gateway.connect does around the relay: watch  *)
(* the session's lease, close the provider session, take the summary.      *)
(* Durations, console and navigation events are left out: they never       *)
(* change which command a response is matched with.                        *)
(***************************************************************************)
EXTENDS DomainBlocking, FiniteSetsExt

CONSTANTS
    NoCommand,
    OtherMethod,    \* OTHER_COMMAND_METHOD
    MethodLimit     \* COMMAND_SUMMARY_METHOD_LIMIT

ASSUME LimitAssumption == MethodLimit \in Nat \ {0}

VARIABLES
    relay,      \* relay_cdp: "running" | "ended" | "cancelled"
    down,       \* _downstream_to_upstream: what it does, or how it ended
    upEnd,      \* _upstream_to_downstream: "running", or how it ended
    inHand,     \* the command the downstream pump is handling
    issued,     \* the commands the client has sent
    clientGone,
    seen,       \* client: the last message it got about each target
    observed,   \* the commands command_received has registered
    pending,    \* _pending
    active,     \* active_command_count of the attempt's phase usage
    usage,      \* _command_usage of the attempt
    outcome,    \* what relay_cdp returned or raised
    summary     \* commands in the summary given to attempt.release, or -1

relayVars == <<relay, down, upEnd, inHand, issued, clientGone, seen,
               observed, pending, active, usage, outcome, summary>>
vars == <<blockingVars, relayVars>>

Init ==
    /\ BlockingInit
    /\ relay = "running" /\ down = "receiving" /\ upEnd = "running"
    /\ inHand = NoCommand /\ issued = {} /\ clientGone = FALSE
    /\ seen = [t \in Targets |-> 0]
    /\ observed = {} /\ pending = {}
    /\ active = 0
    /\ usage = [m \in {} |-> 0]
    /\ outcome = "none" /\ summary = -1

DownRunning == down \in {"receiving", "observing", "sending"}

-----------------------------------------------------------------------------
(* The observer.                                                           *)

\* The method a finished command is counted under: the last place of the
\* summary is kept for all further methods.
RetainedMethod(c, u) ==
    IF c.method \notin DOMAIN u /\ Cardinality(DOMAIN u) >= MethodLimit - 1
    THEN OtherMethod ELSE c.method

Total(u) == MapThenSumSet(LAMBDA m : u[m].count, DOMAIN u)

NoUsage == [count |-> 0, failed |-> 0, interrupted |-> 0]

Counted(c, result, u) ==
    LET m == RetainedMethod(c, u)
        old == IF m \in DOMAIN u THEN u[m] ELSE NoUsage
        new == [count |-> old.count + 1,
                failed |-> old.failed + (IF result = "failed" THEN 1 ELSE 0),
                interrupted |-> old.interrupted
                                + (IF result = "interrupted" THEN 1 ELSE 0)]
    IN  [k \in DOMAIN u \cup {m} |-> IF k = m THEN new ELSE u[k]]

\* Fault: any pending command with the id.
FaultMatched(m) ==
    LET exact == {c \in pending : Key(c) = <<m.session, m.id>>}
        byId == {c \in pending : c.id = m.id}
    IN  IF exact # {} THEN exact
        ELSE IF m.session = Browser /\ byId # {} THEN {CHOOSE c \in byId : TRUE} ELSE {}

\* _pop_pending_for_id, _pop_pending_phase_for_id: only if the id tells the commands apart.
PendingForId(id) ==
    LET byId == {c \in pending : c.id = id}
    IN  IF Cardinality(byId) = 1 THEN byId ELSE {}

\* _finish_command: by session and id; a response without a session is
\* matched by its id alone.
Matched(m) ==
    LET exact == {c \in pending : Key(c) = <<m.session, m.id>>}
    IN  IF exact = {} /\ m.session = Browser THEN PendingForId(m.id) ELSE exact

\* The attempt's phase usage counts the commands in flight.
StartPhaseCommand == active' = active + 1

FinishPhaseCommands(n) == active' = IF n > active THEN 0 ELSE active - n

\* Every command in done leaves the pending ones with this result.
Finish(done, result) ==
    /\ pending' = pending \ done
    /\ FinishPhaseCommands(Cardinality(done))
    /\ usage' = FoldSet(LAMBDA c, u : Counted(c, result, u), usage, done)

InterruptPending == Finish(pending, "interrupted")

\* upstream_message, for what changes the observer's state.
ObserveUpstream(m) ==
    IF m.kind = "response"
    THEN Finish(Matched(m), IF m.ok THEN "succeeded" ELSE "failed")
    ELSE UNCHANGED <<pending, active, usage>>

\* command_received, then command_forwarded.
ObserveCommand ==
    /\ down = "observing"
    /\ down' = "sending"
    /\ observed' = observed \cup {inHand}
    /\ pending' = pending \cup {inHand}
    /\ StartPhaseCommand
    /\ UNCHANGED <<blockingVars, relay, upEnd, inHand, issued, clientGone, seen, usage,
                   outcome, summary>>

-----------------------------------------------------------------------------
(* The pumps.                                                              *)

\* A client addresses the browser and the targets it has been told of.
ClientSends(c) ==
    /\ down = "receiving" /\ ~clientGone /\ c \notin issued
    /\ c.session # Browser => seen[c.session] > 0
    /\ issued' = issued \cup {c}
    /\ inHand' = c
    /\ down' = "observing"
    /\ UNCHANGED <<blockingVars, relay, upEnd, clientGone, seen,
                   observed, pending, active, usage, outcome, summary>>

\* A frame that is no CDP command.
ClientSendsInvalid ==
    /\ down = "receiving" /\ ~clientGone
    /\ down' = "invalid_cdp_message"
    /\ UNCHANGED <<blockingVars, relay, upEnd, inHand, issued, clientGone, seen, observed, pending, active, usage, outcome, summary>>

ClientLeaves ==
    /\ ~clientGone /\ relay = "running"
    /\ clientGone' = TRUE
    /\ UNCHANGED <<blockingVars, relay, down, upEnd, inHand, issued, seen, observed, pending, active, usage, outcome, summary>>

ReceiveDisconnect ==
    /\ down = "receiving" /\ clientGone
    /\ down' = "left"
    /\ UNCHANGED <<blockingVars, relay, upEnd, inHand, issued, clientGone, seen, observed, pending, active, usage, outcome, summary>>

\* DomainBlockingProviderSession.send: refused once the connection fails
\* closed, waits while Stolosio uses the same id in the same target.
SendUpstream ==
    /\ down = "sending"
    /\ \/ /\ disconnected
          /\ down' = "domain_blocking_unavailable"
          /\ UNCHANGED <<held, downstreamIds, inHand>>
       \/ /\ ~disconnected
          /\ \A t \in Targets : internal[t] # 0 => Key(inHand) # <<t, internal[t]>>
          /\ \/ /\ up = "open"
                /\ held' = held \cup {inHand}
                /\ downstreamIds' = downstreamIds \cup {Key(inHand)}
                /\ inHand' = NoCommand
                /\ down' = "receiving"
             \/ /\ up = "ended"
                /\ down' = "connection_closed"
                /\ UNCHANGED <<held, downstreamIds, inHand>>
    /\ UNCHANGED <<browserVars, wire, up, pump, task, internal, nextId,
                   unconfigured, buffers, messages, closing, terminal,
                   disconnected, relay, upEnd, issued, clientGone, seen, observed, pending, active, usage, outcome, summary>>

\* The relay reads one message, observes it and passes it on.
Deliver ==
    /\ upEnd = "running" /\ messages # <<>>
    /\ messages' = Tail(messages)
    /\ LET m == Head(messages)
       IN  \/ /\ m.kind = "terminal"
              /\ upEnd' = IF m.reason = "closed" THEN "connection_closed"
                          ELSE m.reason
              /\ UNCHANGED <<seen, pending, active, usage>>
           \/ /\ m.kind # "terminal"
              /\ ObserveUpstream(m)
              /\ \/ /\ clientGone
                    /\ upEnd' = "left"
                    /\ UNCHANGED seen
                 \/ /\ ~clientGone
                    /\ seen' = [t \in Targets |->
                                  IF m.about = t THEN m.n ELSE seen[t]]
                    /\ UNCHANGED upEnd
    /\ UNCHANGED <<browserVars, routing, wire, up, held, pump, task, closing,
                   terminal, disconnected, relay, down, inHand, issued,
                   clientGone, observed, outcome, summary>>

\* _provider_disconnect_error
DisconnectError(end) ==
    IF end # "connection_closed" THEN end
    ELSE IF disconnected THEN "domain_blocking_unavailable"
    ELSE "provider_connection_lost"

\* relay_cdp when a pump is done: the other is cancelled, an error of one
\* that is done is raised, and the pending commands are interrupted.
RelayEnds ==
    /\ relay = "running"
    /\ ~DownRunning \/ upEnd # "running"
    /\ LET errors == {DisconnectError(e) : e \in {down, upEnd}
                        \ {"receiving", "observing", "sending", "running", "left"}}
       IN  outcome' \in IF errors = {} THEN {"left"} ELSE errors
    /\ relay' = "ended"
    /\ down' = IF DownRunning THEN "cancelled" ELSE down
    /\ upEnd' = IF upEnd = "running" THEN "cancelled" ELSE upEnd
    /\ InterruptPending
    /\ UNCHANGED <<blockingVars, inHand, issued, clientGone, seen,
                   observed, summary>>

-----------------------------------------------------------------------------
(* The gateway around the relay.                                           *)

\* The lease is lost while the relay runs: the task of relay_cdp is
\* cancelled in its wait, which leaves both pumps running, and the client's
\* socket is closed.
LeaseLost ==
    /\ relay = "running"
    /\ relay' = "cancelled" /\ outcome' = "session_lease_lost"
    /\ clientGone' = TRUE
    /\ UNCHANGED <<blockingVars, down, upEnd, inHand, issued, seen,
                   observed, pending, active, usage, summary>>

CloseProvider ==
    /\ relay # "running"
    /\ BeginClose
    /\ UNCHANGED relayVars

\* provider_session.close() has returned, at once if it was failing closed
\* already; the summary is taken for attempt.release.
TakeSummary ==
    /\ relay # "running" /\ summary = -1
    /\ closing \in {"failing", "closed"}
    /\ summary' = Total(usage)
    /\ UNCHANGED <<blockingVars, relay, down, upEnd, inHand, issued, clientGone,
                   seen, observed, pending, active, usage, outcome>>

-----------------------------------------------------------------------------
Relaying ==
    \/ ObserveCommand \/ SendUpstream \/ ReceiveDisconnect \/ Deliver
    \/ RelayEnds \/ CloseProvider \/ TakeSummary

Done == summary # -1 /\ ~DownRunning /\ upEnd # "running" /\ UNCHANGED vars

Next ==
    \/ relay = "running" /\ BrowserNext /\ UNCHANGED relayVars
    \/ BlockingNext /\ UNCHANGED relayVars
    \/ \E c \in Commands : ClientSends(c)
    \/ ClientSendsInvalid \/ ClientLeaves \/ LeaseLost
    \/ Relaying
    \/ Done

\* Tasks of the event loop that can run do run, and timeouts fire; the
\* browser, the client and the lease owe nothing.
Fairness ==
    /\ WF_vars(Relaying)
    /\ WF_vars((RouteUpstreamMessage \/ PumpEnds) /\ UNCHANGED relayVars)
    /\ WF_vars((FinishFailClosed \/ FinishClose) /\ UNCHANGED relayVars)
    /\ \A t \in Targets :
         WF_vars((ConfigureTarget(t) \/ SecureTarget(t) \/ ConfigurationFails(t))
                 /\ UNCHANGED relayVars)

Spec == Init /\ [][Next]_vars /\ Fairness

-----------------------------------------------------------------------------
(* Properties.                                                             *)

\* The client learns of a target, through any message that concerns it, only
\* after the browser has confirmed the target's blocklist
\* (domain_blocking.py:162-170, 234-238).
BlockedBeforeExposed == \A t \in Targets : seen[t] > 0 => t \in blocked

\* Stolosio's own commands and the client's never take each other's
\* responses (the id bookkeeping of send, _route_upstream_message and
\* _configure_target).
AnswersReachTheirSender ==
    /\ \A i \in DOMAIN messages :
         messages[i].kind = "response" => messages[i].to \in issued
    /\ \A t \in Targets : task[t] = "confirmed" => t \in blocked

\* Every command that was observed is either pending or counted in the
\* summary exactly once, the count of active commands agrees, and the
\* summary keeps to its limit.
CommandsCountedOnce ==
    /\ Total(usage) + Cardinality(pending) = Cardinality(observed)
    /\ active = Cardinality(pending)
    /\ Cardinality(DOMAIN usage) <= MethodLimit
    /\ relay = "ended" => pending = {}

\* A method is charged only with what happened to its own commands: a
\* response without a session is not given to another target's command.
ResultsOfItsOwn ==
    \A m \in DOMAIN usage \ {OtherMethod} :
        LET answers(ok) == Cardinality({v \in verdicts : v[1].method = m /\ v[2] = ok})
            u == usage[m]
        IN  /\ u.failed <= answers(FALSE)
            /\ u.count - u.failed - u.interrupted <= answers(TRUE)

\* The command summary of an attempt is exact: nothing counted twice or left out, and each
\* result with the command it belongs to.
SummaryExact == CommandsCountedOnce /\ ResultsOfItsOwn

\* Targets do not stay unconfigured while the relay reads on, a connection
\* that failed closed ends, and the pumps of a cancelled relay end too.
ConnectionSettles ==
    /\ (unconfigured # {}) ~> (unconfigured = {} \/ upEnd # "running")
    /\ disconnected ~> (relay # "running" /\ summary # -1)
    /\ (relay = "cancelled") ~> (~DownRunning /\ upEnd # "running")

\* At the end of a connection the attempt's summary accounts for every
\* command that was forwarded.  Does not hold: a relay that is cancelled for
\* a lost lease interrupts nothing that is pending (CdpLeaseLost.cfg).
CommandsAccounted ==
    summary # -1 => summary = Cardinality(observed)
=============================================================================

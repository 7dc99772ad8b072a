--------------------------- MODULE DomainBlocking ---------------------------
(***************************************************************************)
(* DomainBlockingProviderSession (proxy/transport/domain_blocking.py): the *)
(* wrapper around a provider's CDP connection that applies the URL         *)
(* blocklist to every newly attached target before the client may learn of *)
(* it.  One event loop runs the pump that routes the provider's messages   *)
(* and one configuration task per attached target; a step of the model is  *)
(* what one of them does between two awaits.                               *)
(*                                                                         *)
(* The browser behind the connection is external: it attaches targets,     *)
(* speaks for them, answers commands in any order, and may go away.  A     *)
(* target stands for its CDP session; only targets of a blockable type are *)
(* in Targets, the others travel like messages of the browser itself.      *)
(***************************************************************************)
EXTENDS Integers, Sequences, FiniteSets

CONSTANTS
    Targets,    \* sessions of the blockable targets the browser may attach
    Browser,    \* "no sessionId": the message or command is the browser's
    Commands,   \* what the client may send: [session, id, method]
    MaxWire,    \* bound on the messages on the wire
    Speaking    \* the targets that send a message of their own

ASSUME TargetsAssumption == Browser \notin Targets

\* Ids are compared with the session they are used in.  Two commands of a
\* client may share an id in two targets, but not with one of the browser.
\* The method of Stolosio's own commands stands for the blocklist they carry:
\* what a client sends is another command, whatever its method.
ASSUME CommandsAssumption ==
    /\ IsFiniteSet(Commands)
    /\ \A c, d \in Commands :
        /\ c.session \in Targets \cup {Browser}
        /\ c.id \in Int
        /\ c.method # "setBlockedURLs"
        /\ c # d => <<c.session, c.id>> # <<d.session, d.id>>
        /\ (c.session = Browser /\ c # d) => c.id # d.id

VARIABLES
    attached,       \* browser: the targets it has attached
    spoken,         \* browser: the targets that have sent an event
    blocked,        \* browser: the targets whose blocklist it has confirmed
    held,           \* browser: the commands it has not answered
    verdicts,       \* browser: its answers, <<command, accepted>>
    emitted,        \* browser: how many messages it has sent about a target
    wire,           \* messages between the browser and the pump
    up,             \* the upstream socket: "open" | "ended"
    pump,           \* _upstream_pump: "on" | "done"
    task,           \* _configuration_tasks, with the state of each future
    internal,       \* _internal_responses: the id used in a target, or 0
    nextId,         \* _internal_command_id
    downstreamIds,  \* _downstream_command_ids
    unconfigured,   \* _unconfigured_targets
    buffers,        \* _target_buffers
    messages,       \* _messages: what the relay will read
    closing,        \* "open" | "failing" | "closing" | "closed"
    terminal,       \* _terminal_enqueued
    disconnected    \* _disconnect_reason is domain_blocking_unavailable

browserVars == <<attached, spoken, blocked, verdicts, emitted>>
routing == <<internal, nextId, downstreamIds, unconfigured, buffers>>
sessionVars == <<wire, up, held, pump, task, messages, closing,
                 terminal, disconnected>>
blockingVars == <<browserVars, routing, sessionVars>>

Key(c) == <<c.session, c.id>>

\* A command of Stolosio itself: Network.setBlockedURLs in a target.
Configuration(t, id) ==
    [session |-> t, id |-> id, method |-> "setBlockedURLs"]

BlockingInit ==
    /\ attached = {} /\ spoken = {} /\ blocked = {} /\ held = {}
    /\ verdicts = {}
    /\ emitted = [t \in Targets |-> 0]
    /\ wire = <<>> /\ up = "open" /\ pump = "on"
    /\ task = [t \in Targets |-> "none"]
    /\ internal = [t \in Targets |-> 0]
    /\ nextId = -1
    /\ downstreamIds = {} /\ unconfigured = {}
    /\ buffers = [t \in Targets |-> <<>>]
    /\ messages = <<>>
    /\ closing = "open" /\ terminal = FALSE /\ disconnected = FALSE

-----------------------------------------------------------------------------
(* The browser.                                                            *)

\* Once the session is being closed nobody reads what the browser sends.
BrowserActive == up = "open" /\ closing = "open" /\ Len(wire) < MaxWire

\* Put a message on the wire, numbered among those about target t that are
\* meant for the client.
Emit(m, t) ==
    LET next == [u \in Targets |-> emitted[u] + IF u = t THEN 1 ELSE 0]
    IN  /\ wire' = Append(wire, [m EXCEPT !.about = t,
                                         !.n = IF t = Browser THEN 0 ELSE next[t]])
        /\ emitted' = next

BrowserAttaches(t) ==
    /\ BrowserActive /\ t \notin attached
    /\ attached' = attached \cup {t}
    /\ Emit([kind |-> "attached", session |-> Browser, names |-> t,
            about |-> Browser, n |-> 0], t)
    /\ UNCHANGED <<spoken, blocked, verdicts, held, up, pump, task, messages,
                   closing, terminal, disconnected, routing>>

\* A message about an attached target: in its own session, or of the browser
\* and naming the target in its params or its result.  Those of targets that
\* are configured pass straight through and are not of interest.
BrowserSpeaks(t, session) ==
    /\ BrowserActive /\ t \in (attached \cap Speaking) \ (spoken \cup blocked)
    /\ spoken' = spoken \cup {t}
    /\ Emit([kind |-> "event", session |-> session, names |-> t,
            about |-> Browser, n |-> 0], t)
    /\ UNCHANGED <<attached, blocked, verdicts, held, up, pump, task, messages,
                   closing, terminal, disconnected, routing>>

\* Commands are answered in any order, accepted or refused; some responses
\* to the client leave the session out.
BrowserAnswers(c, ok, session) ==
    /\ BrowserActive /\ c \in held
    /\ held' = held \ {c}
    /\ verdicts' = verdicts \cup {<<c, ok>>}
    /\ blocked' = IF c.method = "setBlockedURLs" /\ ok
                  THEN blocked \cup {c.session} ELSE blocked
    /\ Emit([kind |-> "response", session |-> session, names |-> Browser,
             id |-> c.id, ok |-> ok, to |-> c, about |-> Browser, n |-> 0],
            IF c.method = "setBlockedURLs" THEN Browser
            ELSE session)
    /\ UNCHANGED <<attached, spoken, up, pump, task, messages, closing,
                   terminal, disconnected, routing>>

BrowserLeaves ==
    /\ up = "open" /\ closing = "open"
    /\ up' = "ended"
    /\ UNCHANGED <<browserVars, routing, wire, held, pump, task, messages,
                   closing, terminal, disconnected>>

-----------------------------------------------------------------------------
(* The pump.                                                               *)

Terminal(reason) == [kind |-> "terminal", reason |-> reason]

\* Fault: only the session of a message is considered.
FaultTargetOf(m) == m.session

\* _message_target_session_id: by the session of the message, else by the
\* target its params or its result name.
TargetOf(m) == IF m.session # Browser THEN m.session ELSE m.names

\* Fault: the response is recognised by its id alone.
FaultAwaiting(m) ==
    {t \in Targets : m.kind = "response" /\ internal[t] # 0 /\ m.id = internal[t]}

\* The target whose configuration waits for this response.
Awaiting(m) ==
    {t \in Targets : m.kind = "response" /\ internal[t] # 0
                     /\ <<m.session, m.id>> = <<t, internal[t]>>}

\* A message of a target that is not configured yet waits in its buffer.
Hold(m) == TargetOf(m) \in unconfigured

BeginTargetConfiguration(m) ==
    /\ task' = [task EXCEPT ![m.names] = "start"]
    /\ unconfigured' = unconfigured \cup {m.names}
    /\ buffers' = [buffers EXCEPT ![m.names] = <<m>>]
    /\ UNCHANGED <<messages, downstreamIds>>

RouteUpstreamMessage ==
    /\ pump = "on" /\ closing = "open" /\ wire # <<>>
    /\ wire' = Tail(wire)
    /\ LET m == Head(wire)
       IN  \/ /\ Awaiting(m) # {}
              /\ task' = [t \in Targets |->
                            IF t \in Awaiting(m) /\ task[t] = "waiting"
                            THEN IF m.ok THEN "confirmed" ELSE "refused"
                            ELSE task[t]]
              /\ UNCHANGED <<downstreamIds, unconfigured, buffers, messages>>
           \/ /\ m.kind = "attached"
              /\ BeginTargetConfiguration(m)
           \/ /\ m.kind # "attached" /\ Awaiting(m) = {}
              /\ downstreamIds' = IF m.kind = "response"
                                  THEN downstreamIds \ {<<m.session, m.id>>}
                                  ELSE downstreamIds
              /\ IF Hold(m)
                 THEN /\ buffers' = [buffers EXCEPT ![TargetOf(m)] = Append(@, m)]
                      /\ UNCHANGED messages
                 ELSE /\ messages' = Append(messages, m)
                      /\ UNCHANGED buffers
              /\ UNCHANGED <<task, unconfigured>>
    /\ UNCHANGED <<browserVars, internal, nextId, held, up, pump, closing,
                   terminal, disconnected>>

\* _fail_closed up to its first await: nothing but the terminal error will
\* follow what the relay has already been given.
BeginFailClosed ==
    /\ closing' = "failing" /\ disconnected' = TRUE
    /\ pump' = "done"
    /\ task' = [t \in Targets |-> IF task[t] = "none" THEN "none" ELSE "done"]

\* The rest of _fail_closed.
FinishFailClosed ==
    /\ closing = "failing"
    /\ closing' = "closed"
    /\ internal' = [t \in Targets |-> 0]
    /\ buffers' = [t \in Targets |-> <<>>]
    /\ unconfigured' = {}
    /\ messages' = <<Terminal("domain_blocking_unavailable")>>
    /\ terminal' = TRUE
    /\ up' = "ended"
    /\ UNCHANGED <<browserVars, nextId, downstreamIds, wire, held, pump, task,
                   disconnected>>

\* The provider's stream ends: fatal for the policy when a target is not
\* configured yet.
PumpEnds ==
    /\ pump = "on" /\ closing = "open" /\ wire = <<>> /\ up = "ended"
    /\ \/ /\ unconfigured # {}
          /\ BeginFailClosed
          /\ UNCHANGED <<messages, terminal>>
       \/ /\ unconfigured = {}
          /\ messages' = Append(messages, Terminal("closed"))
          /\ pump' = "done" /\ terminal' = TRUE
          /\ UNCHANGED <<task, closing, disconnected>>
    /\ UNCHANGED <<browserVars, routing, wire, up, held>>

-----------------------------------------------------------------------------
(* The configuration task of a target.                                     *)

\* The next id, counting down, that neither side uses in this target.
FreeId(t) ==
    CHOOSE k \in (nextId - Cardinality(Commands) - 1)..nextId :
        /\ <<t, k>> \notin downstreamIds /\ internal[t] # k
        /\ \A j \in (k + 1)..nextId : <<t, j>> \in downstreamIds \/ internal[t] = j

ConfigureTarget(t) ==
    /\ task[t] = "start" /\ closing = "open"
    /\ nextId' = FreeId(t) - 1
    /\ internal' = [internal EXCEPT ![t] = FreeId(t)]
    /\ \/ /\ up = "open"
          /\ held' = held \cup {Configuration(t, FreeId(t))}
          /\ task' = [task EXCEPT ![t] = "waiting"]
          /\ UNCHANGED <<pump, closing, disconnected>>
       \/ /\ up = "ended"
          /\ BeginFailClosed
          /\ UNCHANGED held
    /\ UNCHANGED <<browserVars, downstreamIds, unconfigured, buffers, wire, up,
                   messages, terminal>>

\* _secure_target, then the end of the task.
SecureTarget(t) ==
    /\ task[t] = "confirmed" /\ closing = "open"
    /\ messages' = messages \o buffers[t]
    /\ buffers' = [buffers EXCEPT ![t] = <<>>]
    /\ unconfigured' = unconfigured \ {t}
    /\ internal' = [internal EXCEPT ![t] = 0]
    /\ task' = [task EXCEPT ![t] = "done"]
    /\ UNCHANGED <<browserVars, nextId, downstreamIds, wire, up, held, pump,
                   closing, terminal, disconnected>>

\* Fault: no bootstrap timeout.
FaultConfigurationFails(t) ==
    /\ task[t] = "refused" /\ closing = "open"
    /\ BeginFailClosed
    /\ UNCHANGED <<browserVars, routing, wire, up, held, messages, terminal>>

\* The browser refused the blocklist, or did not answer within the
\* bootstrap timeout.
ConfigurationFails(t) ==
    /\ task[t] \in {"waiting", "refused"} /\ closing = "open"
    /\ BeginFailClosed
    /\ UNCHANGED <<browserVars, routing, wire, up, held, messages, terminal>>

-----------------------------------------------------------------------------
(* close(), called by the gateway when the connection is over.             *)

BeginClose ==
    /\ closing = "open"
    /\ closing' = "closing"
    /\ pump' = "done"
    /\ task' = [t \in Targets |-> IF task[t] = "none" THEN "none" ELSE "done"]
    /\ UNCHANGED <<browserVars, routing, wire, up, held, messages, terminal,
                   disconnected>>

FinishClose ==
    /\ closing = "closing"
    /\ closing' = "closed" /\ up' = "ended"
    /\ internal' = [t \in Targets |-> 0]
    /\ messages' = IF terminal THEN messages
                   ELSE Append(messages, Terminal("closed"))
    /\ terminal' = TRUE
    /\ UNCHANGED <<browserVars, nextId, downstreamIds, unconfigured, buffers,
                   wire, held, pump, task, disconnected>>

BrowserNext ==
    \/ \E t \in Targets :
         BrowserAttaches(t) \/ BrowserSpeaks(t, t) \/ BrowserSpeaks(t, Browser)
    \/ \E c \in held, ok \in BOOLEAN :
         \/ BrowserAnswers(c, ok, c.session)
         \/ /\ c.method # "setBlockedURLs" /\ c.session # Browser
            /\ BrowserAnswers(c, ok, Browser)
    \/ BrowserLeaves

BlockingNext ==
    \/ \E t \in Targets : \/ ConfigureTarget(t)
                          \/ SecureTarget(t)
                          \/ ConfigurationFails(t)
    \/ RouteUpstreamMessage \/ PumpEnds
    \/ FinishFailClosed \/ FinishClose
=============================================================================

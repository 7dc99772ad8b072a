-------------------------- MODULE CdpRelayProofs --------------------------
(***************************************************************************)
(* Proofs about a relayed connection, for any set of targets and any       *)
(* finite set of client commands: the client learns of a target only once  *)
(* its blocklist is in force, no command of the client or of Stolosio gets *)
(* an answer meant for another, and the command summary is exact.          *)
(***************************************************************************)
EXTENDS CdpRelay, FiniteSetTheorems, WellFoundedInduction, TLAPS

--------------------------------------------------------------------------
(* Sequences whose elements are of no fixed kind *)

IsASeq(s) == \E S : s \in Seq(S)

\* What a sequence is with one more element.
LEMMA AppendIs ==
    ASSUME NEW s, NEW e, IsASeq(s)
    PROVE  /\ IsASeq(Append(s, e))
           /\ Len(s) \in Nat
           /\ Len(Append(s, e)) = Len(s) + 1
           /\ \A i \in 1..Len(s) : Append(s, e)[i] = s[i]
           /\ Append(s, e)[Len(s) + 1] = e
  <1>1. PICK S : s \in Seq(S)
    BY DEF IsASeq
  <1> DEFINE T == S \cup {e}
  <1>2. s \in Seq(T) /\ e \in T
    BY <1>1
  <1> HIDE DEF T
  <1>3. Append(s, e) \in Seq(T)
    BY <1>2
  <1> QED
    BY <1>2, <1>3 DEF IsASeq

\* What is left of a sequence without its first element.
LEMMA TailIs ==
    ASSUME NEW s, IsASeq(s), s # <<>>
    PROVE  /\ IsASeq(Tail(s))
           /\ Len(s) \in Nat \ {0}
           /\ Len(Tail(s)) = Len(s) - 1
           /\ \A i \in 1..Len(Tail(s)) : i + 1 \in 2..Len(s) /\ Tail(s)[i] = s[i + 1]
           /\ Head(s) = s[1]
  <1>1. PICK S : s \in Seq(S)
    BY DEF IsASeq
  <1>2. Tail(s) \in Seq(S)
    BY <1>1
  <1> QED
    BY <1>1, <1>2 DEF IsASeq

\* The elements of one sequence after another are those of either.
LEMMA ConcatIs ==
    ASSUME NEW s, NEW r, IsASeq(s), IsASeq(r)
    PROVE  /\ IsASeq(s \o r)
           /\ \A i \in 1..Len(s \o r) :
                \/ i \in 1..Len(s) /\ (s \o r)[i] = s[i]
                \/ \E j \in 1..Len(r) : (s \o r)[i] = r[j]
  <1>1. PICK S : s \in Seq(S)
    BY DEF IsASeq
  <1>2. PICK T : r \in Seq(T)
    BY DEF IsASeq
  <1> DEFINE U == S \cup T
  <1>3. s \in Seq(U) /\ r \in Seq(U)
    BY <1>1, <1>2
  <1> HIDE DEF U
  <1>4. s \o r \in Seq(U) /\ Len(s \o r) = Len(s) + Len(r) /\ Len(s) \in Nat /\ Len(r) \in Nat
    BY <1>3
  <1>5. ASSUME NEW i \in 1..Len(s \o r)
        PROVE  \/ i \in 1..Len(s) /\ (s \o r)[i] = s[i]
               \/ \E j \in 1..Len(r) : (s \o r)[i] = r[j]
    <2>1. CASE i <= Len(s)
      BY <1>3, <1>4, <2>1
    <2>2. CASE i > Len(s)
      <3>1. i - Len(s) \in 1..Len(r) /\ (s \o r)[i] = r[i - Len(s)]
        BY <1>3, <1>4, <2>2
      <3> QED
        BY <3>1
    <2> QED
      BY <1>4, <2>1, <2>2
  <1> QED
    BY <1>4, <1>5 DEF IsASeq

\* The empty sequence has no elements.
LEMMA EmptyIs == IsASeq(<<>>) /\ Len(<<>>) = 0
  <1>1. <<>> \in Seq({})
    OBVIOUS
  <1> QED
    BY <1>1 DEF IsASeq
--------------------------------------------------------------------------
(* The inductive invariant *)

\* The commands of Stolosio itself: their ids count down from -1.
Own == {Configuration(t, k) : t \in Targets, k \in {j \in Int : j < 0}}

\* The client's command is received and not sent on yet.
InHand == down \in {"observing", "sending"}

\* c is with the browser, or its answer is on the wire.
InFlight(c) ==
    \/ c \in held
    \/ \E i \in 1..Len(wire) : wire[i].kind = "response" /\ wire[i].to = c

\* The message that says t is attached is on the wire, before place i.
AttachedBefore(t, i) ==
    \E j \in 1..Len(wire) : j < i /\ wire[j].kind = "attached" /\ wire[j].names = t

\* What the client may be told of, if it is told of anything.
Exposable(m) ==
    /\ m.kind # "terminal" /\ m.about \in Targets => m.about \in blocked
    /\ m.kind = "response" => m.to \in issued

ShapeInv ==
    /\ IsASeq(wire) /\ IsASeq(messages)
    /\ buffers = [t \in Targets |-> buffers[t]]
    /\ \A t \in Targets : IsASeq(buffers[t])
    /\ task \in [Targets -> {"none", "start", "waiting", "confirmed", "refused", "done"}]
    /\ internal \in [Targets -> Int]
    /\ nextId \in Int /\ nextId < 0
    /\ attached \subseteq Targets /\ unconfigured \subseteq Targets
    /\ issued \subseteq Commands
    /\ downstreamIds \subseteq {Key(c) : c \in issued}
    /\ held \subseteq issued \cup Own
    /\ InHand => inHand \in issued

\* A message on the wire says what the browser has done.
Announces(m) ==
    m.kind = "attached" => /\ m.session = Browser /\ m.about = m.names
                           /\ m.names \in attached /\ task[m.names] = "none"
Speaks(m) ==
    m.kind = "event" => /\ m.session \in {m.names, Browser} /\ m.about = m.names
                        /\ m.names \in attached
Answers(m) ==
    m.kind = "response" =>
        /\ m.names = Browser /\ m.id = m.to.id
        /\ m.to \in issued \cup Own /\ m.to \notin held
        /\ m.to \in Own => /\ m.session = m.to.session /\ m.about = Browser
                           /\ m.ok => m.session \in blocked
        /\ m.to \in issued => m.session \in {m.to.session, Browser} /\ m.about = m.session

WireInv ==
    \A i \in 1..Len(wire) :
        /\ wire[i].kind \in {"attached", "event", "response"}
        /\ Announces(wire[i]) /\ Speaks(wire[i]) /\ Answers(wire[i])

\* Nothing is announced or answered twice.
OnceInv ==
    /\ \A i, j \in 1..Len(wire) : i # j /\ wire[i].kind = wire[j].kind =>
        /\ wire[i].kind = "attached" => wire[i].names # wire[j].names
        /\ wire[i].kind = "response" => wire[i].to # wire[j].to
    /\ InHand => ~InFlight(inHand)

\* The task of a target: it uses an id only once it has sent its command, and is confirmed
\* only by the browser.
TaskInv ==
    \A t \in Targets :
        /\ task[t] # "none" => t \in attached
        /\ task[t] \in {"none", "start"} => internal[t] = 0
        /\ task[t] = "confirmed" => t \in blocked

\* While the wrapper routes messages, both sides' commands in flight can be told apart, and
\* a target the browser has attached is either known to be unconfigured, or blocked, or
\* about to be announced.
OwnAwaited(c) ==
    c \in Own => task[c.session] = "waiting" /\ internal[c.session] = c.id
ClientApart(c) ==
    c \in issued => /\ Key(c) \in downstreamIds
                    /\ \A t \in Targets : internal[t] # 0 => Key(c) # <<t, internal[t]>>
Secured(t, i) == t \in unconfigured \cup blocked \/ AttachedBefore(t, i)

RoutingInv ==
    closing = "open" =>
        /\ \A c \in issued \cup Own : InFlight(c) => OwnAwaited(c) /\ ClientApart(c)
        /\ \A t \in attached : Secured(t, Len(wire) + 1)
        /\ \A i \in 1..Len(wire) : wire[i].kind = "event" => Secured(wire[i].names, i)

\* What the client has been told, or will be.
ClientInv ==
    /\ \A c \in issued : c.session # Browser => c.session \in blocked
    /\ \A t \in Targets : seen[t] = 0 \/ t \in blocked
    /\ \A i \in 1..Len(messages) : Exposable(messages[i])
    /\ \A t \in Targets : \A i \in 1..Len(buffers[t]) :
        LET m == buffers[t][i]
        IN  /\ m.about \in Targets => m.about = t
            /\ m.kind = "response" => m.to \in issued

Inv == ShapeInv /\ WireInv /\ OnceInv /\ TaskInv /\ RoutingInv /\ ClientInv

--------------------------------------------------------------------------
(* The browser *)

\* The wire with one more message.
LEMMA WireGrows ==
    ASSUME NEW m, IsASeq(wire), wire' = Append(wire, m)
    PROVE  /\ IsASeq(wire')
           /\ Len(wire) \in Nat /\ Len(wire') = Len(wire) + 1
           /\ \A i \in 1..Len(wire) : i \in 1..Len(wire') /\ wire'[i] = wire[i]
           /\ Len(wire) + 1 \in 1..Len(wire') /\ wire'[Len(wire) + 1] = m
           /\ \A i \in 1..Len(wire') : i \in 1..Len(wire) \/ i = Len(wire) + 1
  <1>1. /\ IsASeq(Append(wire, m))
        /\ Len(wire) \in Nat
        /\ Len(Append(wire, m)) = Len(wire) + 1
        /\ \A i \in 1..Len(wire) : Append(wire, m)[i] = wire[i]
        /\ Append(wire, m)[Len(wire) + 1] = m
    BY AppendIs
  <1> QED
    BY <1>1

\* The parts of the invariant that a step of the browser leaves alone.
BrowserKeeps ==
    UNCHANGED <<task, internal, nextId, downstreamIds, unconfigured, buffers, messages,
                closing, issued, inHand, down, seen>>

\* RoutingInv of the next state, place by place.
LEMMA RoutingNext ==
    ASSUME closing' = "open" => \A c \in issued' \cup Own :
                InFlight(c)' => OwnAwaited(c)' /\ ClientApart(c)',
           closing' = "open" => \A t \in attached' : \A k :
                k = Len(wire') + 1 => Secured(t, k)',
           closing' = "open" => \A i \in 1..Len(wire') : \A t :
                wire'[i].kind = "event" /\ t = wire'[i].names => Secured(t, i)'
    PROVE  RoutingInv'
  BY DEF RoutingInv, Secured, AttachedBefore, Own

\* WireInv of the next state, place by place.
LEMMA WireNext ==
    ASSUME \A i \in 1..Len(wire') : \A m : m = wire'[i] =>
                /\ m.kind \in {"attached", "event", "response"}
                /\ Announces(m)' /\ Speaks(m)' /\ Answers(m)'
    PROVE  WireInv'
  BY DEF WireInv, Announces, Speaks, Answers

\* A message of the browser changes nothing of what is before it on the wire.
LEMMA AttachedBeforeGrows ==
    ASSUME NEW m, IsASeq(wire), wire' = Append(wire, m), NEW t, NEW i, AttachedBefore(t, i)
    PROVE  AttachedBefore(t, i)'
  BY WireGrows DEF AttachedBefore

\* The browser attaches a target.
LEMMA AttachesInv ==
    ASSUME Inv, NEW t \in Targets, BrowserAttaches(t), BrowserKeeps
    PROVE  Inv'
  <1> USE DEF Inv, BrowserKeeps
  <1>n. PICK n : n = Len(wire) + 1
    OBVIOUS
  <1>1. PICK m : /\ wire' = Append(wire, m)
                 /\ m.kind = "attached" /\ m.session = Browser /\ m.names = t /\ m.about = t
    <2> DEFINE number == IF t = Browser THEN 0
                         ELSE [u \in Targets |-> emitted[u] + IF u = t THEN 1 ELSE 0][t]
               a == [[kind |-> "attached", session |-> Browser, names |-> t,
                      about |-> Browser, n |-> 0] EXCEPT !.about = t, !.n = number]
    <2>1. wire' = Append(wire, a)
      BY DEF BrowserAttaches, Emit
    <2>2. a.kind = "attached" /\ a.session = Browser /\ a.names = t /\ a.about = t
      OBVIOUS
    <2> QED
      BY <2>1, <2>2
  <1>2. t \notin attached /\ attached' = attached \cup {t} /\ UNCHANGED <<blocked, held>>
    BY DEF BrowserAttaches
  <1>3. /\ IsASeq(wire')
        /\ Len(wire) \in Nat /\ Len(wire') = n
        /\ \A i \in 1..Len(wire) : i \in 1..Len(wire') /\ wire'[i] = wire[i]
        /\ n \in 1..Len(wire') /\ wire'[n] = m
        /\ \A i \in 1..Len(wire') : i \in 1..Len(wire) \/ i = n
    BY <1>n, <1>1, WireGrows DEF ShapeInv
  <1>4. \A c : InFlight(c)' <=> InFlight(c)
    BY <1>1, <1>2, <1>3 DEF InFlight
  <1>5. ShapeInv'
    BY <1>2, <1>3 DEF ShapeInv, InHand
  <1>6. WireInv'
    <2>1. \A i \in 1..Len(wire) : \A r : r = wire[i] =>
            /\ r.kind \in {"attached", "event", "response"}
            /\ Announces(r)' /\ Speaks(r)' /\ Answers(r)'
      BY <1>2 DEF WireInv, Announces, Speaks, Answers
    <2>2. Announces(m)' /\ Speaks(m)' /\ Answers(m)'
      BY <1>1, <1>2 DEF Announces, Speaks, Answers, TaskInv
    <2>3. \A i \in 1..Len(wire') : \A r : r = wire'[i] =>
            /\ r.kind \in {"attached", "event", "response"}
            /\ Announces(r)' /\ Speaks(r)' /\ Answers(r)'
      BY <1>1, <1>3, <2>1, <2>2
    <2> QED
      BY <2>3, WireNext
  <1>7. OnceInv'
    <2>1. \A i \in 1..Len(wire) : wire[i].kind = "attached" => wire[i].names # t
      BY <1>2 DEF WireInv, Announces
    <2> QED
      BY <1>1, <1>3, <1>4, <2>1 DEF OnceInv, InHand
  <1>8. TaskInv'
    BY <1>2 DEF TaskInv
  <1>9. RoutingInv'
    <2>1. \A r, i : Secured(r, i) => Secured(r, i)'
      BY <1>1, <1>2, AttachedBeforeGrows DEF Secured, ShapeInv
    <2>2. Secured(t, n + 1)'
      BY <1>1, <1>3 DEF Secured, AttachedBefore
    <2>3. \A r : Secured(r, n) => Secured(r, n + 1)'
      BY <1>3, <2>1 DEF Secured, AttachedBefore
    <2>4. closing = "open" => \A r \in attached : Secured(r, n)
      BY <1>n DEF RoutingInv
    <2>5. closing = "open" => \A r \in attached' : \A k :
                k = Len(wire') + 1 => Secured(r, k)'
      BY <1>2, <1>3, <2>2, <2>3, <2>4
    <2>6. closing = "open" => \A i \in 1..Len(wire') : \A r :
                wire'[i].kind = "event" /\ r = wire'[i].names => Secured(r, i)'
      BY <1>1, <1>3, <2>1 DEF RoutingInv
    <2>7. closing = "open" => \A c \in issued' \cup Own :
                InFlight(c)' => OwnAwaited(c)' /\ ClientApart(c)'
      BY <1>4 DEF RoutingInv, OwnAwaited, ClientApart
    <2> QED
      BY <2>5, <2>6, <2>7, RoutingNext
  <1>10. ClientInv'
    BY <1>2 DEF ClientInv, Exposable
  <1> QED
    BY <1>5, <1>6, <1>7, <1>8, <1>9, <1>10

\* A target speaks, in its own session or through the browser.
LEMMA SpeaksInv ==
    ASSUME Inv, NEW t \in Targets, NEW session \in {t, Browser}, BrowserSpeaks(t, session),
           BrowserKeeps
    PROVE  Inv'
  <1> USE DEF Inv, BrowserKeeps
  <1>n. PICK n : n = Len(wire) + 1
    OBVIOUS
  <1>1. PICK m : /\ wire' = Append(wire, m)
                 /\ m.kind = "event" /\ m.session = session /\ m.names = t /\ m.about = t
    <2> DEFINE number == IF t = Browser THEN 0
                         ELSE [u \in Targets |-> emitted[u] + IF u = t THEN 1 ELSE 0][t]
               a == [[kind |-> "event", session |-> session, names |-> t,
                      about |-> Browser, n |-> 0] EXCEPT !.about = t, !.n = number]
    <2>1. wire' = Append(wire, a)
      BY DEF BrowserSpeaks, Emit
    <2>2. a.kind = "event" /\ a.session = session /\ a.names = t /\ a.about = t
      OBVIOUS
    <2> QED
      BY <2>1, <2>2
  <1>2. t \in attached /\ UNCHANGED <<attached, blocked, held>>
    BY DEF BrowserSpeaks
  <1>3. /\ IsASeq(wire')
        /\ Len(wire) \in Nat /\ Len(wire') = n
        /\ \A i \in 1..Len(wire) : i \in 1..Len(wire') /\ wire'[i] = wire[i]
        /\ n \in 1..Len(wire') /\ wire'[n] = m
        /\ \A i \in 1..Len(wire') : i \in 1..Len(wire) \/ i = n
    BY <1>n, <1>1, WireGrows DEF ShapeInv
  <1>4. \A c : InFlight(c)' <=> InFlight(c)
    BY <1>1, <1>2, <1>3 DEF InFlight
  <1>5. ShapeInv'
    BY <1>2, <1>3 DEF ShapeInv, InHand
  <1>6. WireInv'
    <2>1. \A i \in 1..Len(wire) : \A r : r = wire[i] =>
            /\ r.kind \in {"attached", "event", "response"}
            /\ Announces(r)' /\ Speaks(r)' /\ Answers(r)'
      BY <1>2 DEF WireInv, Announces, Speaks, Answers
    <2>2. Announces(m)' /\ Speaks(m)' /\ Answers(m)'
      BY <1>1, <1>2 DEF Announces, Speaks, Answers
    <2>3. \A i \in 1..Len(wire') : \A r : r = wire'[i] =>
            /\ r.kind \in {"attached", "event", "response"}
            /\ Announces(r)' /\ Speaks(r)' /\ Answers(r)'
      BY <1>1, <1>3, <2>1, <2>2
    <2> QED
      BY <2>3, WireNext
  <1>7. OnceInv'
    BY <1>1, <1>3, <1>4 DEF OnceInv, InHand
  <1>8. TaskInv'
    BY <1>2 DEF TaskInv
  <1>9. RoutingInv'
    <2>1. \A r, i : Secured(r, i) => Secured(r, i)'
      BY <1>1, <1>2, AttachedBeforeGrows DEF Secured, ShapeInv
    <2>2. \A r : Secured(r, n) => Secured(r, n + 1)'
      BY <1>3, <2>1 DEF Secured, AttachedBefore
    <2>3. closing = "open" => \A r \in attached : Secured(r, n)
      BY <1>n DEF RoutingInv
    <2>4. closing = "open" => \A r \in attached' : \A k :
                k = Len(wire') + 1 => Secured(r, k)'
      BY <1>2, <1>3, <2>2, <2>3
    <2>5. closing = "open" => \A i \in 1..Len(wire') : \A r :
                wire'[i].kind = "event" /\ r = wire'[i].names => Secured(r, i)'
      <3>1. closing = "open" => \A i \in 1..Len(wire) : \A r :
                wire[i].kind = "event" /\ r = wire[i].names => Secured(r, i)'
        BY <2>1 DEF RoutingInv
      <3>2. closing = "open" => Secured(t, n)'
        BY <1>2, <2>1, <2>3
      <3> QED
        BY <1>1, <1>3, <3>1, <3>2
    <2>6. closing = "open" => \A c \in issued' \cup Own :
                InFlight(c)' => OwnAwaited(c)' /\ ClientApart(c)'
      BY <1>4 DEF RoutingInv, OwnAwaited, ClientApart
    <2> QED
      BY <2>4, <2>5, <2>6, RoutingNext
  <1>10. ClientInv'
    BY <1>2 DEF ClientInv, Exposable
  <1> QED
    BY <1>5, <1>6, <1>7, <1>8, <1>9, <1>10

\* Stolosio's own commands are none of the client's, and are told apart by target and id.
LEMMA OwnCommands ==
    /\ \A c \in Own : /\ c.method = "setBlockedURLs" /\ c.session \in Targets
                      /\ c.id \in Int /\ c.id < 0
                      /\ c = Configuration(c.session, c.id)
    /\ \A c \in Commands : c \notin Own
  <1>1. ASSUME NEW c \in Own
        PROVE  /\ c.method = "setBlockedURLs" /\ c.session \in Targets
               /\ c.id \in Int /\ c.id < 0
               /\ c = Configuration(c.session, c.id)
    <2>1. PICK t \in Targets, k \in {j \in Int : j < 0} : c = Configuration(t, k)
      BY DEF Own
    <2>2. c.method = "setBlockedURLs" /\ c.session = t /\ c.id = k
      BY <2>1 DEF Configuration
    <2> QED
      BY <2>1, <2>2
  <1> QED
    BY <1>1, CommandsAssumption

\* The browser answers a command.
LEMMA AnswersInv ==
    ASSUME Inv, NEW c \in held, NEW ok \in BOOLEAN, NEW session,
           session = c.session \/ (c.method # "setBlockedURLs" /\ session = Browser),
           BrowserAnswers(c, ok, session), BrowserKeeps
    PROVE  Inv'
  <1> USE DEF Inv, BrowserKeeps
  <1>n. PICK n : n = Len(wire) + 1
    OBVIOUS
  <1>1. PICK m : /\ wire' = Append(wire, m)
                 /\ m.kind = "response" /\ m.session = session /\ m.names = Browser
                 /\ m.id = c.id /\ m.to = c /\ m.ok = ok
                 /\ m.about = IF c.method = "setBlockedURLs" THEN Browser ELSE session
    <2> DEFINE about == IF c.method = "setBlockedURLs" THEN Browser ELSE session
               number == IF about = Browser THEN 0
                         ELSE [u \in Targets |-> emitted[u] + IF u = about THEN 1 ELSE 0][about]
               a == [[kind |-> "response", session |-> session, names |-> Browser,
                      id |-> c.id, ok |-> ok, to |-> c, about |-> Browser, n |-> 0]
                        EXCEPT !.about = about, !.n = number]
    <2>1. wire' = Append(wire, a)
      BY DEF BrowserAnswers, Emit
    <2>2. /\ a.kind = "response" /\ a.session = session /\ a.names = Browser
          /\ a.id = c.id /\ a.to = c /\ a.ok = ok /\ a.about = about
      OBVIOUS
    <2> QED
      BY <2>1, <2>2
  <1>2. /\ held' = held \ {c} /\ UNCHANGED attached
        /\ blocked' = IF c.method = "setBlockedURLs" /\ ok
                      THEN blocked \cup {c.session} ELSE blocked
    BY DEF BrowserAnswers
  <1>3. /\ IsASeq(wire')
        /\ Len(wire) \in Nat /\ Len(wire') = n
        /\ \A i \in 1..Len(wire) : i \in 1..Len(wire') /\ wire'[i] = wire[i]
        /\ n \in 1..Len(wire') /\ wire'[n] = m
        /\ \A i \in 1..Len(wire') : i \in 1..Len(wire) \/ i = n
    BY <1>n, <1>1, WireGrows DEF ShapeInv
  <1>4. \A d : InFlight(d)' <=> InFlight(d)
    BY <1>1, <1>2, <1>3 DEF InFlight
  <1>5. ShapeInv'
    BY <1>2, <1>3 DEF ShapeInv, InHand
  <1>b. blocked \subseteq blocked'
    BY <1>2
  <1>6. WireInv'
    <2>1. \A i \in 1..Len(wire) : \A r : r = wire[i] =>
            /\ r.kind \in {"attached", "event", "response"}
            /\ Announces(r)' /\ Speaks(r)' /\ Answers(r)'
      BY <1>2, <1>b DEF WireInv, Announces, Speaks, Answers
    <2>2. /\ c \in issued \cup Own
          /\ c \in Own => c.method = "setBlockedURLs" /\ c.session = session
          /\ c \in issued => c.method # "setBlockedURLs"
      BY OwnCommands, CommandsAssumption DEF ShapeInv
    <2>3. c \in Own => (m.ok => m.session \in blocked')
      BY <1>1, <1>2, <2>2
    <2>4. Announces(m)' /\ Speaks(m)' /\ Answers(m)'
      BY <1>1, <1>2, <2>2, <2>3 DEF Announces, Speaks, Answers
    <2>5. \A i \in 1..Len(wire') : \A r : r = wire'[i] =>
            /\ r.kind \in {"attached", "event", "response"}
            /\ Announces(r)' /\ Speaks(r)' /\ Answers(r)'
      BY <1>1, <1>3, <2>1, <2>4
    <2> QED
      BY <2>5, WireNext
  <1>7. OnceInv'
    <2>1. \A i \in 1..Len(wire) : wire[i].kind = "response" => wire[i].to # c
      BY DEF WireInv, Answers
    <2> QED
      BY <1>1, <1>3, <1>4, <2>1 DEF OnceInv, InHand
  <1>8. TaskInv'
    BY <1>2, <1>b DEF TaskInv
  <1>9. RoutingInv'
    <2>1. \A r, i : Secured(r, i) => Secured(r, i)'
      BY <1>1, <1>b, AttachedBeforeGrows DEF Secured, ShapeInv
    <2>2. \A r : Secured(r, n) => Secured(r, n + 1)'
      BY <1>3, <2>1 DEF Secured, AttachedBefore
    <2>3. closing = "open" => \A r \in attached : Secured(r, n)
      BY <1>n DEF RoutingInv
    <2>4. closing = "open" => \A r \in attached' : \A k :
                k = Len(wire') + 1 => Secured(r, k)'
      BY <1>2, <1>3, <2>2, <2>3
    <2>5. closing = "open" => \A i \in 1..Len(wire') : \A r :
                wire'[i].kind = "event" /\ r = wire'[i].names => Secured(r, i)'
      <3>1. closing = "open" => \A i \in 1..Len(wire) : \A r :
                wire[i].kind = "event" /\ r = wire[i].names => Secured(r, i)'
        BY <2>1 DEF RoutingInv
      <3> QED
        BY <1>1, <1>3, <3>1
    <2>6. closing = "open" => \A d \in issued' \cup Own :
                InFlight(d)' => OwnAwaited(d)' /\ ClientApart(d)'
      BY <1>4 DEF RoutingInv, OwnAwaited, ClientApart
    <2> QED
      BY <2>4, <2>5, <2>6, RoutingNext
  <1>10. ClientInv'
    BY <1>2, <1>b DEF ClientInv, Exposable
  <1> QED
    BY <1>5, <1>6, <1>7, <1>8, <1>9, <1>10

--------------------------------------------------------------------------
(* The pump *)

\* What is left on the wire when the pump has taken its first message: nothing in flight but
\* what was, without the answer that was taken.
LEMMA WireShrinks ==
    ASSUME Inv, wire # <<>>, wire' = Tail(wire), held' = held
    PROVE  /\ IsASeq(wire')
           /\ Len(wire) \in Nat \ {0} /\ Len(wire') = Len(wire) - 1
           /\ 1 \in 1..Len(wire) /\ Head(wire) = wire[1]
           /\ \A i \in 1..Len(wire') : i + 1 \in 1..Len(wire) /\ i + 1 # 1
                                       /\ wire'[i] = wire[i + 1]
           /\ \A c : InFlight(c)' => /\ InFlight(c)
                                     /\ wire[1].kind = "response" => c # wire[1].to
           /\ \A t : \A i \in Nat : AttachedBefore(t, i + 1) =>
                \/ AttachedBefore(t, i)'
                \/ wire[1].kind = "attached" /\ wire[1].names = t
  <1> USE DEF Inv
  <1>1. /\ IsASeq(wire')
        /\ Len(wire) \in Nat \ {0} /\ Len(wire') = Len(wire) - 1
        /\ \A i \in 1..Len(wire') : i + 1 \in 2..Len(wire) /\ wire'[i] = wire[i + 1]
        /\ Head(wire) = wire[1]
    BY TailIs DEF ShapeInv
  <1>2. /\ 1 \in 1..Len(wire)
        /\ \A i \in 1..Len(wire') : i + 1 \in 1..Len(wire) /\ i + 1 # 1
                                    /\ wire'[i] = wire[i + 1]
    BY <1>1
  <1>3. ASSUME NEW c, InFlight(c)'
        PROVE  InFlight(c) /\ (wire[1].kind = "response" => c # wire[1].to)
    <2>1. CASE c \in held
      BY <1>2, <2>1 DEF InFlight, WireInv, Answers
    <2>2. CASE c \notin held
      <3>1. PICK i \in 1..Len(wire') : wire'[i].kind = "response" /\ wire'[i].to = c
        BY <1>3, <2>2 DEF InFlight
      <3>2. i + 1 \in 1..Len(wire) /\ i + 1 # 1 /\ wire'[i] = wire[i + 1]
        BY <1>2
      <3> QED
        BY <1>2, <3>1, <3>2 DEF InFlight, OnceInv
    <2> QED
      BY <2>1, <2>2
  <1>4. ASSUME NEW t, NEW i \in Nat, AttachedBefore(t, i + 1)
        PROVE  AttachedBefore(t, i)' \/ (wire[1].kind = "attached" /\ wire[1].names = t)
    <2>1. PICK j \in 1..Len(wire) : j < i + 1 /\ wire[j].kind = "attached" /\ wire[j].names = t
      BY <1>4 DEF AttachedBefore
    <2>2. CASE j # 1
      <3>1. PICK k : k \in 1..Len(wire') /\ k < i /\ k + 1 = j
        <4>1. j - 1 \in 1..Len(wire') /\ j - 1 < i /\ (j - 1) + 1 = j
          BY <1>1, <2>1, <2>2
        <4> QED
          BY <4>1
      <3>2. wire'[k].kind = "attached" /\ wire'[k].names = t
        BY <1>1, <2>1, <3>1
      <3>3. \E l \in 1..Len(wire') : l < i /\ wire'[l].kind = "attached" /\ wire'[l].names = t
        BY <3>1, <3>2
      <3> QED
        BY <3>3 DEF AttachedBefore
    <2> QED
      BY <2>1, <2>2
  <1> QED
    BY <1>1, <1>2, <1>3, <1>4

\* The answer that is first on the wire is awaited by a task exactly if it answers the
\* task's own command.
LEMMA AwaitedIsOwn ==
    ASSUME Inv, closing = "open", NEW m, 1 \in 1..Len(wire), m = wire[1], m.kind = "response"
    PROVE  /\ m.to \in issued \cup Own
           /\ m.to \in Own => Awaiting(m) = {m.to.session} /\ m.to \notin issued
           /\ m.to \in issued => Awaiting(m) = {} /\ m.to \notin Own
  <1> USE DEF Inv
  <1>1. Answers(m)
    BY DEF WireInv
  <1>2. m.to \in issued \cup Own /\ InFlight(m.to)
    BY <1>1 DEF Answers, InFlight
  <1>3. OwnAwaited(m.to) /\ ClientApart(m.to)
    BY <1>2 DEF RoutingInv
  <1>4. \A c \in issued : c \notin Own
    BY OwnCommands DEF ShapeInv
  <1>5. ASSUME m.to \in Own
        PROVE  Awaiting(m) = {m.to.session}
    <2>1. /\ m.session = m.to.session /\ m.id = m.to.id /\ m.to.session \in Targets
          /\ internal[m.to.session] = m.to.id /\ m.to.id # 0
      BY <1>1, <1>3, <1>5, OwnCommands DEF Answers, OwnAwaited
    <2> QED
      BY <2>1 DEF Awaiting
  <1>6. ASSUME m.to \in issued
        PROVE  Awaiting(m) = {}
    <2>1. SUFFICES ASSUME NEW t \in Targets, internal[t] # 0,
                          <<m.session, m.id>> = <<t, internal[t]>>
                   PROVE  FALSE
      BY DEF Awaiting
    <2>2. m.session = m.to.session /\ m.id = m.to.id
      BY <1>1, <1>6, <2>1, TargetsAssumption DEF Answers
    <2> QED
      BY <1>3, <1>6, <2>1, <2>2 DEF ClientApart, Key
  <1> QED
    BY <1>2, <1>4, <1>5, <1>6

\* What the pump leaves to others.
PumpKeeps ==
    UNCHANGED <<attached, blocked, internal, nextId, held, closing, issued, inHand, down, seen>>

\* The parts that hold of the shorter wire whatever the message was.
LEMMA RouteCommon ==
    ASSUME Inv, wire # <<>>, wire' = Tail(wire), PumpKeeps,
           \A t \in Targets : task'[t] = "none" => task[t] = "none",
           \A i \in 1..Len(wire) : i # 1 /\ wire[i].kind = "attached" =>
                task'[wire[i].names] = "none"
    PROVE  WireInv' /\ OnceInv'
  <1> USE DEF Inv, PumpKeeps
  <1>1. /\ Len(wire) \in Nat \ {0} /\ Len(wire') = Len(wire) - 1
        /\ \A i \in 1..Len(wire') : i + 1 \in 1..Len(wire) /\ i + 1 # 1
                                    /\ wire'[i] = wire[i + 1]
        /\ \A c : InFlight(c)' => InFlight(c)
    BY WireShrinks
  <1>2. ASSUME NEW i \in 1..Len(wire), i # 1, NEW r, r = wire[i]
        PROVE  /\ r.kind \in {"attached", "event", "response"}
               /\ Announces(r)' /\ Speaks(r)' /\ Answers(r)'
    <2>1. /\ r.kind \in {"attached", "event", "response"}
          /\ Announces(r) /\ Speaks(r) /\ Answers(r)
      BY <1>2 DEF WireInv
    <2>2. r.kind = "attached" => task'[r.names] = "none"
      BY <1>2
    <2> QED
      BY <2>1, <2>2 DEF Announces, Speaks, Answers
  <1>3. WireInv'
    <2>1. \A i \in 1..Len(wire') : \A r : r = wire'[i] =>
            /\ r.kind \in {"attached", "event", "response"}
            /\ Announces(r)' /\ Speaks(r)' /\ Answers(r)'
      BY <1>1, <1>2
    <2> QED
      BY <2>1, WireNext
  <1>4. OnceInv'
    <2>1. ASSUME NEW i \in 1..Len(wire'), NEW j \in 1..Len(wire'), i # j,
                 wire'[i].kind = wire'[j].kind
          PROVE  /\ wire'[i].kind = "attached" => wire'[i].names # wire'[j].names
                 /\ wire'[i].kind = "response" => wire'[i].to # wire'[j].to
      <3>1. /\ i + 1 \in 1..Len(wire) /\ j + 1 \in 1..Len(wire) /\ i + 1 # j + 1
            /\ wire'[i] = wire[i + 1] /\ wire'[j] = wire[j + 1]
        BY <1>1, <2>1
      <3> QED
        BY <2>1, <3>1 DEF OnceInv
    <2>2. InHand' => ~InFlight(inHand)'
      <3>1. InHand' <=> InHand
        BY DEF InHand
      <3>2. \A c : c = inHand => (InFlight(c)' <=> InFlight(inHand)')
        BY DEF InFlight
      <3> QED
        BY <1>1, <3>1, <3>2 DEF OnceInv
    <2> QED
      BY <2>1, <2>2 DEF OnceInv
  <1> QED
    BY <1>3, <1>4

\* The pump hands a task the answer to its own command.
LEMMA RouteAwaited ==
    ASSUME Inv, closing = "open", wire # <<>>, wire' = Tail(wire), PumpKeeps,
           UNCHANGED <<downstreamIds, unconfigured, buffers, messages>>,
           NEW m, m = Head(wire), Awaiting(m) # {},
           task' = [t \in Targets |-> IF t \in Awaiting(m) /\ task[t] = "waiting"
                                      THEN IF m.ok THEN "confirmed" ELSE "refused"
                                      ELSE task[t]]
    PROVE  Inv'
  <1> USE DEF Inv, PumpKeeps
  <1>1. /\ IsASeq(wire')
        /\ Len(wire) \in Nat \ {0} /\ Len(wire') = Len(wire) - 1
        /\ 1 \in 1..Len(wire) /\ m = wire[1]
        /\ \A i \in 1..Len(wire') : i + 1 \in 1..Len(wire) /\ wire'[i] = wire[i + 1]
        /\ \A c : InFlight(c)' => InFlight(c) /\ (m.kind = "response" => c # m.to)
        /\ \A t : \A i \in Nat : AttachedBefore(t, i + 1) =>
                AttachedBefore(t, i)' \/ (m.kind = "attached" /\ m.names = t)
    <2>1. m = wire[1]
      BY WireShrinks
    <2> QED
      BY <2>1, WireShrinks
  <1>2. m.kind = "response"
    BY DEF Awaiting
  <1>3. m.to \in Own /\ Awaiting(m) = {m.to.session}
    BY <1>1, <1>2, AwaitedIsOwn
  <1>4. m.to.session \in Targets /\ m.session = m.to.session
    BY <1>1, <1>2, <1>3, OwnCommands DEF WireInv, Answers
  <1>5. task[m.to.session] = "waiting" /\ internal[m.to.session] = m.to.id
    BY <1>1, <1>2, <1>3 DEF RoutingInv, OwnAwaited, InFlight
  <1>6. \A t \in Targets :
            IF t = m.to.session THEN task'[t] \in {"confirmed", "refused"} ELSE task'[t] = task[t]
    BY <1>3, <1>5
  <1>7. WireInv' /\ OnceInv'
    <2>1. \A t \in Targets : task'[t] = "none" => task[t] = "none"
      BY <1>6
    <2>2. \A i \in 1..Len(wire) : i # 1 /\ wire[i].kind = "attached" =>
                task'[wire[i].names] = "none"
      BY <1>5, <1>6 DEF WireInv, Announces, ShapeInv
    <2> QED
      BY <2>1, <2>2, RouteCommon
  <1>8. ShapeInv'
    <2>1. task' \in [Targets -> {"none", "start", "waiting", "confirmed", "refused", "done"}]
      BY DEF ShapeInv
    <2> QED
      BY <1>1, <2>1 DEF ShapeInv, InHand
  <1>9. TaskInv'
    <2>1. task'[m.to.session] = "confirmed" => m.to.session \in blocked
      <3>1. m.ok => m.to.session \in blocked
        BY <1>1, <1>2, <1>3, <1>4 DEF WireInv, Answers
      <3>2. ~m.ok => task'[m.to.session] = "refused"
        BY <1>3, <1>4, <1>5
      <3> QED
        BY <3>1, <3>2
    <2>2. \A t \in Targets : t = m.to.session =>
            t \in attached /\ (task'[t] = "confirmed" => t \in blocked)
      BY <1>5, <2>1, <1>4 DEF TaskInv
    <2> QED
      BY <1>6, <2>2 DEF TaskInv
  <1>10. RoutingInv'
    <2>1. \A c \in issued' \cup Own : InFlight(c)' => OwnAwaited(c)' /\ ClientApart(c)'
      <3>1. SUFFICES ASSUME NEW c \in issued \cup Own, InFlight(c), c # m.to
                     PROVE  OwnAwaited(c)' /\ ClientApart(c)'
        BY <1>1, <1>2
      <3>2. OwnAwaited(c) /\ ClientApart(c)
        BY <3>1 DEF RoutingInv
      <3>3. c \in Own => c.session # m.to.session
        <4>1. ASSUME c \in Own, c.session = m.to.session
              PROVE  c.id = m.to.id
          BY <1>5, <3>2, <4>1 DEF OwnAwaited
        <4> QED
          BY <1>3, <3>1, <4>1, OwnCommands
      <3>4. c \in Own => task'[c.session] = task[c.session]
        BY <1>6, <3>3, OwnCommands
      <3> QED
        BY <3>2, <3>4 DEF OwnAwaited, ClientApart
    <2>2. \A t \in attached' : \A k : k = Len(wire') + 1 => Secured(t, k)'
      <3>1. Len(wire') + 1 = Len(wire) /\ Len(wire) \in Nat
        BY <1>1
      <3>2. \A t \in attached : Secured(t, Len(wire) + 1)
        BY DEF RoutingInv
      <3> QED
        BY <1>1, <1>2, <3>1, <3>2 DEF Secured
    <2>3. \A i \in 1..Len(wire') : \A t :
                wire'[i].kind = "event" /\ t = wire'[i].names => Secured(t, i)'
      <3>1. ASSUME NEW i \in 1..Len(wire'), NEW t, wire'[i].kind = "event", t = wire'[i].names
            PROVE  Secured(t, i)'
        <4>1. Secured(t, i + 1) /\ i \in Nat
          BY <1>1, <3>1 DEF RoutingInv
        <4> QED
          BY <1>1, <1>2, <4>1 DEF Secured
      <3> QED
        BY <3>1
    <2> QED
      BY <2>1, <2>2, <2>3, RoutingNext
  <1>11. ClientInv'
    BY DEF ClientInv, Exposable
  <1> QED
    BY <1>7, <1>8, <1>9, <1>10, <1>11

\* A sequence of one element.
LEMMA SingletonIs ==
    ASSUME NEW m
    PROVE  IsASeq(<<m>>) /\ Len(<<m>>) = 1 /\ <<m>>[1] = m
  <1>1. <<m>> \in Seq({m})
    OBVIOUS
  <1> QED
    BY <1>1 DEF IsASeq

\* The pump learns of a target: it is unconfigured from here on.
LEMMA RouteAttached ==
    ASSUME Inv, closing = "open", wire # <<>>, wire' = Tail(wire), PumpKeeps,
           NEW m, m = Head(wire), m.kind = "attached", BeginTargetConfiguration(m)
    PROVE  Inv'
  <1> USE DEF Inv, PumpKeeps
  <1> DEFINE a == m.names
  <1>1. /\ IsASeq(wire')
        /\ Len(wire) \in Nat \ {0} /\ Len(wire') = Len(wire) - 1
        /\ 1 \in 1..Len(wire) /\ m = wire[1]
        /\ \A i \in 1..Len(wire') : i + 1 \in 1..Len(wire) /\ wire'[i] = wire[i + 1]
        /\ \A c : InFlight(c)' => InFlight(c)
        /\ \A t : \A i \in Nat : AttachedBefore(t, i + 1) => AttachedBefore(t, i)' \/ t = a
    <2>1. m = wire[1]
      BY WireShrinks
    <2> QED
      BY <2>1, WireShrinks
  <1>2. a \in attached /\ a \in Targets /\ task[a] = "none" /\ m.about = a
    BY <1>1 DEF WireInv, Announces, ShapeInv
  <1>s. PICK one : one = <<m>> /\ IsASeq(one) /\ Len(one) = 1 /\ one[1] = m
    <2>1. IsASeq(<<m>>) /\ Len(<<m>>) = 1 /\ <<m>>[1] = m
      BY SingletonIs
    <2> QED
      BY <2>1
  <1>3. /\ task' = [task EXCEPT ![a] = "start"]
        /\ unconfigured' = unconfigured \cup {a}
        /\ buffers' = [buffers EXCEPT ![a] = one]
        /\ UNCHANGED <<messages, downstreamIds>>
    BY <1>s DEF BeginTargetConfiguration
  <1>4. \A t \in Targets :
            /\ t = a => task'[t] = "start" /\ buffers'[t] = one
            /\ t # a => task'[t] = task[t] /\ buffers'[t] = buffers[t]
    BY <1>2, <1>3 DEF ShapeInv
  <1>5. WireInv' /\ OnceInv'
    <2>1. \A t \in Targets : task'[t] = "none" => task[t] = "none"
      BY <1>4
    <2>2. \A i \in 1..Len(wire) : i # 1 /\ wire[i].kind = "attached" =>
                task'[wire[i].names] = "none"
      <3>1. ASSUME NEW i \in 1..Len(wire), i # 1, wire[i].kind = "attached"
            PROVE  task'[wire[i].names] = "none"
        <4>1. wire[i].names \in Targets /\ task[wire[i].names] = "none"
          BY <3>1 DEF WireInv, Announces, ShapeInv
        <4>2. wire[i].names # a
          BY <1>1, <3>1 DEF OnceInv
        <4> QED
          BY <1>4, <4>1, <4>2
      <3> QED
        BY <3>1
    <2> QED
      BY <2>1, <2>2, RouteCommon
  <1>6. ShapeInv'
    <2>1. /\ task' \in [Targets -> {"none", "start", "waiting", "confirmed", "refused", "done"}]
          /\ unconfigured' \subseteq Targets
          /\ buffers' = [t \in Targets |-> buffers'[t]]
      BY <1>2, <1>3 DEF ShapeInv
    <2>2. \A t \in Targets : IsASeq(buffers'[t])
      BY <1>s, <1>4 DEF ShapeInv
    <2> QED
      BY <1>1, <1>3, <2>1, <2>2 DEF ShapeInv, InHand
  <1>7. TaskInv'
    BY <1>2, <1>4 DEF TaskInv
  <1>8. RoutingInv'
    <2>1. \A c \in issued' \cup Own : InFlight(c)' => OwnAwaited(c)' /\ ClientApart(c)'
      <3>1. SUFFICES ASSUME NEW c \in issued \cup Own, InFlight(c)
                     PROVE  OwnAwaited(c)' /\ ClientApart(c)'
        BY <1>1
      <3>2. OwnAwaited(c) /\ ClientApart(c)
        BY <3>1 DEF RoutingInv
      <3>3. c \in Own => task'[c.session] = task[c.session]
        BY <1>2, <1>4, <3>2, OwnCommands DEF OwnAwaited
      <3> QED
        BY <1>3, <3>2, <3>3 DEF OwnAwaited, ClientApart
    <2>a. \A t : \A i \in Nat : Secured(t, i + 1) => Secured(t, i)'
      BY <1>1, <1>3 DEF Secured
    <2>2. \A t \in attached' : \A k : k = Len(wire') + 1 => Secured(t, k)'
      <3>1. Len(wire') + 1 = Len(wire) /\ Len(wire) \in Nat
        BY <1>1
      <3>2. \A t \in attached : Secured(t, Len(wire) + 1)
        BY DEF RoutingInv
      <3> QED
        BY <2>a, <3>1, <3>2
    <2>3. \A i \in 1..Len(wire') : \A t :
                wire'[i].kind = "event" /\ t = wire'[i].names => Secured(t, i)'
      <3>1. ASSUME NEW i \in 1..Len(wire'), NEW t, wire'[i].kind = "event", t = wire'[i].names
            PROVE  Secured(t, i)'
        <4>1. Secured(t, i + 1) /\ i \in Nat
          BY <1>1, <3>1 DEF RoutingInv
        <4> QED
          BY <2>a, <4>1
      <3> QED
        BY <3>1
    <2> QED
      BY <2>1, <2>2, <2>3, RoutingNext
  <1>9. ClientInv'
    <2>1. \A t \in Targets : \A i \in 1..Len(buffers'[t]) :
            /\ buffers'[t][i].about \in Targets => buffers'[t][i].about = t
            /\ buffers'[t][i].kind = "response" => buffers'[t][i].to \in issued
      <3>1. ASSUME NEW t \in Targets, NEW i \in 1..Len(buffers'[t])
            PROVE  /\ buffers'[t][i].about \in Targets => buffers'[t][i].about = t
                   /\ buffers'[t][i].kind = "response" => buffers'[t][i].to \in issued
        <4>1. CASE t = a
          <5>0. buffers'[t] = one
            BY <1>4, <4>1
          <5>1. i = 1 /\ buffers'[t][i] = m
            <6>1. i \in 1..1
              BY <1>s, <5>0
            <6>2. i = 1
              BY <6>1
            <6> QED
              BY <1>s, <5>0, <6>2
          <5> QED
            BY <1>2, <4>1, <5>1
        <4>2. CASE t # a
          BY <1>4, <4>2 DEF ClientInv
        <4> QED
          BY <4>1, <4>2
      <3> QED
        BY <3>1
    <2> QED
      BY <1>3, <2>1 DEF ClientInv, Exposable
  <1> QED
    BY <1>5, <1>6, <1>7, <1>8, <1>9

\* One more message for the relay.
LEMMA MessagesGrow ==
    ASSUME NEW m, IsASeq(messages), messages' = Append(messages, m)
    PROVE  /\ IsASeq(messages')
           /\ \A i \in 1..Len(messages') :
                (i \in 1..Len(messages) /\ messages'[i] = messages[i]) \/ messages'[i] = m
  <1>1. /\ IsASeq(Append(messages, m))
        /\ Len(messages) \in Nat
        /\ Len(Append(messages, m)) = Len(messages) + 1
        /\ \A i \in 1..Len(messages) : Append(messages, m)[i] = messages[i]
        /\ Append(messages, m)[Len(messages) + 1] = m
    BY AppendIs
  <1>2. \A i \in 1..Len(messages') : i \in 1..Len(messages) \/ i = Len(messages) + 1
    BY <1>1
  <1> QED
    BY <1>1, <1>2

\* The client's commands in flight keep their ids when the answer to another is routed.
LEMMA KeyStays ==
    ASSUME Inv, closing = "open", NEW m, 1 \in 1..Len(wire), m = wire[1],
           m.kind = "response", m.to \in issued, NEW c \in issued, c # m.to
    PROVE  Key(c) # <<m.session, m.id>>
  <1>1. /\ m.session \in {m.to.session, Browser} /\ m.id = m.to.id
        /\ c \in Commands /\ m.to \in Commands
    BY DEF Inv, WireInv, Answers, ShapeInv
  <1>2. CASE m.session = m.to.session
    BY <1>1, <1>2, CommandsAssumption DEF Key
  <1>3. CASE m.session = Browser
    <2>1. c.session = Browser => c.id # m.to.id
      BY <1>1, CommandsAssumption
    <2> QED
      BY <1>1, <1>3, <2>1 DEF Key
  <1> QED
    BY <1>1, <1>2, <1>3

\* The pump holds a message back in its target's buffer, or passes it on.
LEMMA RoutePassed ==
    ASSUME Inv, closing = "open", wire # <<>>, wire' = Tail(wire), PumpKeeps,
           UNCHANGED <<task, unconfigured>>,
           NEW m, m = Head(wire), m.kind # "attached", Awaiting(m) = {},
           downstreamIds' = IF m.kind = "response"
                            THEN downstreamIds \ {<<m.session, m.id>>} ELSE downstreamIds,
           IF Hold(m)
           THEN /\ buffers' = [buffers EXCEPT ![TargetOf(m)] = Append(@, m)]
                /\ UNCHANGED messages
           ELSE /\ messages' = Append(messages, m)
                /\ UNCHANGED buffers
    PROVE  Inv'
  <1> USE DEF Inv, PumpKeeps
  <1>1. /\ IsASeq(wire')
        /\ Len(wire) \in Nat \ {0} /\ Len(wire') = Len(wire) - 1
        /\ 1 \in 1..Len(wire) /\ m = wire[1]
        /\ \A i \in 1..Len(wire') : i + 1 \in 1..Len(wire) /\ wire'[i] = wire[i + 1]
        /\ \A c : InFlight(c)' => InFlight(c) /\ (m.kind = "response" => c # m.to)
        /\ \A t : \A i \in Nat : AttachedBefore(t, i + 1) => AttachedBefore(t, i)'
    <2>1. m = wire[1]
      BY WireShrinks
    <2> QED
      BY <2>1, WireShrinks
  <1>2. m.kind \in {"event", "response"} /\ Speaks(m) /\ Answers(m)
    BY <1>1 DEF WireInv
  <1>3. m.kind = "response" => m.to \in issued
    BY <1>1, AwaitedIsOwn
  <1>4. WireInv' /\ OnceInv'
    <2>1. \A i \in 1..Len(wire) : i # 1 /\ wire[i].kind = "attached" =>
                task'[wire[i].names] = "none"
      BY DEF WireInv, Announces
    <2> QED
      BY <2>1, RouteCommon
  <1>5. TaskInv'
    BY DEF TaskInv
  <1>6. RoutingInv'
    <2>1. \A c \in issued' \cup Own : InFlight(c)' => OwnAwaited(c)' /\ ClientApart(c)'
      <3>1. SUFFICES ASSUME NEW c \in issued \cup Own, InFlight(c),
                            m.kind = "response" => c # m.to
                     PROVE  OwnAwaited(c)' /\ ClientApart(c)'
        BY <1>1
      <3>2. OwnAwaited(c) /\ ClientApart(c)
        BY <3>1 DEF RoutingInv
      <3>3. c \in issued => Key(c) \in downstreamIds'
        BY <1>1, <1>3, <3>1, <3>2, KeyStays DEF ClientApart
      <3> QED
        BY <3>2, <3>3 DEF OwnAwaited, ClientApart
    <2>a. \A t : \A i \in Nat : Secured(t, i + 1) => Secured(t, i)'
      BY <1>1 DEF Secured
    <2>2. \A t \in attached' : \A k : k = Len(wire') + 1 => Secured(t, k)'
      <3>1. Len(wire') + 1 = Len(wire) /\ Len(wire) \in Nat
        BY <1>1
      <3>2. \A t \in attached : Secured(t, Len(wire) + 1)
        BY DEF RoutingInv
      <3> QED
        BY <2>a, <3>1, <3>2
    <2>3. \A i \in 1..Len(wire') : \A t :
                wire'[i].kind = "event" /\ t = wire'[i].names => Secured(t, i)'
      <3>1. ASSUME NEW i \in 1..Len(wire'), NEW t, wire'[i].kind = "event", t = wire'[i].names
            PROVE  Secured(t, i)'
        <4>1. Secured(t, i + 1) /\ i \in Nat
          BY <1>1, <3>1 DEF RoutingInv
        <4> QED
          BY <2>a, <4>1
      <3> QED
        BY <3>1
    <2> QED
      BY <2>1, <2>2, <2>3, RoutingNext
  <1>7. downstreamIds' \subseteq {Key(c) : c \in issued}
    BY DEF ShapeInv
  <1>8. CASE Hold(m)
    <2>1. PICK h : h = TargetOf(m) /\ h \in Targets
      BY <1>8 DEF Hold, ShapeInv
    <2>2. PICK new : /\ new = Append(buffers[h], m) /\ IsASeq(new)
                     /\ \A i \in 1..Len(new) :
                         (i \in 1..Len(buffers[h]) /\ new[i] = buffers[h][i]) \/ new[i] = m
      <3>1. IsASeq(buffers[h])
        BY <2>1 DEF ShapeInv
      <3>2. PICK r : r = Append(buffers[h], m)
        OBVIOUS
      <3>a. /\ IsASeq(Append(buffers[h], m))
            /\ Len(buffers[h]) \in Nat
            /\ Len(Append(buffers[h], m)) = Len(buffers[h]) + 1
            /\ \A i \in 1..Len(buffers[h]) : Append(buffers[h], m)[i] = buffers[h][i]
            /\ Append(buffers[h], m)[Len(buffers[h]) + 1] = m
        BY <3>1, AppendIs
      <3>b. /\ IsASeq(r) /\ Len(buffers[h]) \in Nat /\ Len(r) = Len(buffers[h]) + 1
            /\ \A i \in 1..Len(buffers[h]) : r[i] = buffers[h][i]
            /\ r[Len(buffers[h]) + 1] = m
        BY <3>2, <3>a
      <3>3. \A i \in 1..Len(r) : (i \in 1..Len(buffers[h]) /\ r[i] = buffers[h][i]) \/ r[i] = m
        <4>1. \A i \in 1..Len(r) : i \in 1..Len(buffers[h]) \/ i = Len(buffers[h]) + 1
          BY <3>b
        <4> QED
          BY <3>b, <4>1
      <3> QED
        BY <3>2, <3>b, <3>3
    <2>3. buffers' = [buffers EXCEPT ![h] = new] /\ messages' = messages
      BY <1>8, <2>1, <2>2
    <2>4. /\ buffers' = [t \in Targets |-> buffers'[t]]
          /\ \A t \in Targets : buffers'[t] = IF t = h THEN new ELSE buffers[t]
      BY <2>1, <2>3 DEF ShapeInv
    <2>5. ShapeInv'
      BY <1>1, <1>7, <2>2, <2>3, <2>4 DEF ShapeInv, InHand
    <2>6. m.about \in Targets => m.about = h
      BY <1>2, <1>3, <2>1, TargetsAssumption DEF TargetOf, Speaks, Answers
    <2>7. \A t \in Targets : \A i \in 1..Len(buffers'[t]) :
            /\ buffers'[t][i].about \in Targets => buffers'[t][i].about = t
            /\ buffers'[t][i].kind = "response" => buffers'[t][i].to \in issued
      <3>1. ASSUME NEW t \in Targets, NEW i \in 1..Len(buffers'[t])
            PROVE  /\ buffers'[t][i].about \in Targets => buffers'[t][i].about = t
                   /\ buffers'[t][i].kind = "response" => buffers'[t][i].to \in issued
        <4>1. \/ i \in 1..Len(buffers[t]) /\ buffers'[t][i] = buffers[t][i]
              \/ t = h /\ buffers'[t][i] = m
          BY <2>2, <2>4
        <4> QED
          BY <1>3, <2>6, <4>1 DEF ClientInv
      <3> QED
        BY <3>1
    <2>8. ClientInv'
      BY <2>3, <2>7 DEF ClientInv, Exposable
    <2> QED
      BY <1>4, <1>5, <1>6, <2>5, <2>8
  <1>9. CASE ~Hold(m)
    <2>1. /\ IsASeq(messages')
          /\ \A i \in 1..Len(messages') :
                (i \in 1..Len(messages) /\ messages'[i] = messages[i]) \/ messages'[i] = m
      BY <1>9, MessagesGrow DEF ShapeInv
    <2>2. m.about \in Targets => m.about \in blocked
      <3>1. CASE m.kind = "event"
        <4>1. m.about = m.names /\ TargetOf(m) = m.names
          BY <1>2, <3>1 DEF Speaks, TargetOf
        <4>2. Secured(m.names, 1)
          BY <1>1, <3>1 DEF RoutingInv
        <4>3. ~AttachedBefore(m.names, 1)
          BY DEF AttachedBefore
        <4> QED
          BY <1>9, <4>1, <4>2, <4>3 DEF Secured, Hold
      <3>2. CASE m.kind = "response"
        BY <1>2, <1>3, <3>2, TargetsAssumption DEF Answers, ClientInv
      <3> QED
        BY <1>2, <3>1, <3>2
    <2>3. Exposable(m)
      BY <1>3, <2>2 DEF Exposable
    <2>4. \A i \in 1..Len(messages') : Exposable(messages'[i])
      BY <2>1, <2>3 DEF ClientInv
    <2>5. ClientInv'
      BY <1>9, <2>4 DEF ClientInv, Exposable
    <2>6. ShapeInv'
      BY <1>1, <1>7, <1>9, <2>1 DEF ShapeInv, InHand
    <2> QED
      BY <1>4, <1>5, <1>6, <2>5, <2>6
  <1> QED
    BY <1>8, <1>9

\* The pump routes the next message.
LEMMA RouteInv ==
    ASSUME Inv, RouteUpstreamMessage, UNCHANGED relayVars
    PROVE  Inv'
  <1>1. PICK m : m = Head(wire)
    OBVIOUS
  <1>2. wire # <<>> /\ wire' = Tail(wire) /\ closing = "open" /\ PumpKeeps
    BY DEF RouteUpstreamMessage, PumpKeeps, browserVars, relayVars
  <1>3. CASE /\ Awaiting(m) # {}
             /\ task' = [t \in Targets |->
                            IF t \in Awaiting(m) /\ task[t] = "waiting"
                            THEN IF m.ok THEN "confirmed" ELSE "refused"
                            ELSE task[t]]
             /\ UNCHANGED <<downstreamIds, unconfigured, buffers, messages>>
    BY <1>1, <1>2, <1>3, RouteAwaited
  <1>4. CASE m.kind = "attached" /\ BeginTargetConfiguration(m)
    BY <1>1, <1>2, <1>4, RouteAttached
  <1>5. CASE /\ m.kind # "attached" /\ Awaiting(m) = {}
             /\ downstreamIds' = IF m.kind = "response"
                                 THEN downstreamIds \ {<<m.session, m.id>>}
                                 ELSE downstreamIds
             /\ IF Hold(m)
                THEN /\ buffers' = [buffers EXCEPT ![TargetOf(m)] = Append(@, m)]
                     /\ UNCHANGED messages
                ELSE /\ messages' = Append(messages, m)
                     /\ UNCHANGED buffers
             /\ UNCHANGED <<task, unconfigured>>
    BY <1>1, <1>2, <1>5, RoutePassed
  <1> QED
    BY <1>1, <1>3, <1>4, <1>5 DEF RouteUpstreamMessage

--------------------------------------------------------------------------
(* The configuration tasks *)

\* A nonempty set of integers with an upper bound has a greatest element.
LEMMA GreatestElement ==
    ASSUME NEW b \in Int, NEW S \in SUBSET Int, S # {}, \A k \in S : k <= b
    PROVE  \E k \in S : \A j \in S : j <= k
  <1> DEFINE R == OpToRel(<, Nat)
             T == {b - k : k \in S}
  <1>1. T \subseteq Nat /\ T # {}
    <2>1. ASSUME NEW k \in S
          PROVE  b - k \in Nat
      <3>1. k \in Int /\ k <= b
        OBVIOUS
      <3> QED
        BY <3>1
    <2>2. PICK k \in S : TRUE
      OBVIOUS
    <2>3. b - k \in T
      OBVIOUS
    <2> QED
      BY <2>1, <2>3
  <1>2. IsWellFoundedOn(R, Nat)
    BY NatLessThanWellFounded
  <1>3. PICK n \in T : \A m \in T : ~ (<<m, n>> \in R)
    BY <1>1, <1>2, WFMin
  <1>4. \A m \in T : n <= m
    <2> SUFFICES ASSUME NEW m \in T
                 PROVE  n <= m
      OBVIOUS
    <2>1. n \in Nat /\ m \in Nat /\ ~ (<<m, n>> \in R)
      BY <1>1, <1>3
    <2>2. ~ (m < n)
      BY <2>1, Zenon DEF OpToRel
    <2> HIDE DEF R, T
    <2> QED
      BY <2>1, <2>2
  <1>5. PICK k \in S : n = b - k
    OBVIOUS
  <1>6. ASSUME NEW j \in S
        PROVE  j <= k
    <2>1. b - j \in T
      OBVIOUS
    <2>2. b - k <= b - j
      BY <1>4, <1>5, <2>1
    <2> HIDE DEF T, R
    <2> QED
      BY <2>2
  <1> QED
    BY <1>6

\* A task that starts finds an id that nobody uses in its target: the ids it tries are
\* more than the client has commands.
LEMMA FreeIdIs ==
    ASSUME Inv, NEW t \in Targets, task[t] = "start"
    PROVE  FreeId(t) \in Int /\ FreeId(t) < 0 /\ <<t, FreeId(t)>> \notin downstreamIds
  <1> USE DEF Inv
  <1>1. PICK n \in Nat : n = Cardinality(Commands)
    BY CommandsAssumption, FS_CardinalityType
  <1>2. nextId \in Int /\ nextId < 0 /\ internal[t] = 0
    BY DEF ShapeInv, TaskInv
  <1>3. PICK R : R = (nextId - n - 1)..nextId
    OBVIOUS
  <1>4. \A k \in R : k \in Int /\ k < 0 /\ k <= nextId
    BY <1>1, <1>2, <1>3
  <1> DEFINE free(k) == <<t, k>> \notin downstreamIds /\ internal[t] # k
             F == {k \in R : free(k)}
  <1>5. F # {}
    <2>1. SUFFICES ASSUME \A k \in R : <<t, k>> \in downstreamIds
                   PROVE  FALSE
      BY <1>2, <1>4
    <2>2. \A k \in R : \E c \in Commands : Key(c) = <<t, k>>
      BY <2>1 DEF ShapeInv
    <2> DEFINE f == [k \in R |-> CHOOSE c \in Commands : Key(c) = <<t, k>>]
    <2>3. f \in [R -> Commands] /\ \A k \in R : Key(f[k]) = <<t, k>>
      BY <2>2
    <2> HIDE DEF f
    <2>4. IsFiniteSet(R) /\ Cardinality(R) = n + 2
      <3>1. PICK a, b : a = nextId - n - 1 /\ b = nextId
        OBVIOUS
      <3>2. a \in Int /\ b \in Int /\ ~(a > b) /\ b - a + 1 = n + 2 /\ R = a..b
        BY <1>1, <1>2, <1>3, <3>1
      <3>3. IsFiniteSet(a..b) /\ Cardinality(a..b) = IF a > b THEN 0 ELSE b - a + 1
        BY <3>2, FS_Interval
      <3> QED
        BY <3>2, <3>3
    <2>5. Cardinality(Commands) < Cardinality(R)
      BY <1>1, <2>4
    <2>6. \E j, k \in R : j # k /\ f[j] = f[k]
      BY <2>3, <2>4, <2>5, FS_PigeonHole, CommandsAssumption
    <2> QED
      BY <2>3, <2>6
  <1>6. PICK k \in F : \A j \in F : j <= k
    BY <1>2, <1>4, <1>5, GreatestElement
  <1>7. k \in R /\ free(k) /\ \A j \in (k + 1)..nextId : <<t, j>> \in downstreamIds \/ internal[t] = j
    <2>1. ASSUME NEW j \in (k + 1)..nextId
          PROVE  j \in R /\ ~(j <= k)
      BY <1>1, <1>2, <1>3, <1>4
    <2> QED
      BY <1>6, <2>1
  <1>8. /\ FreeId(t) \in R
        /\ free(FreeId(t))
    BY <1>1, <1>3, <1>7 DEF FreeId
  <1> QED
    BY <1>4, <1>8

\* What a task leaves to others.
TaskKeeps ==
    UNCHANGED <<wire, attached, blocked, downstreamIds, issued, inHand, down, seen>>

\* A task sends its command.
LEMMA ConfigureInv ==
    ASSUME Inv, NEW t \in Targets, task[t] = "start", closing = "open", TaskKeeps,
           NEW k, k = FreeId(t),
           nextId' = k - 1, internal' = [internal EXCEPT ![t] = k],
           held' = held \cup {Configuration(t, k)},
           task' = [task EXCEPT ![t] = "waiting"],
           UNCHANGED <<closing, unconfigured, buffers, messages>>
    PROVE  Inv'
  <1> USE DEF Inv, TaskKeeps
  <1>1. k \in Int /\ k < 0 /\ <<t, k>> \notin downstreamIds
    BY FreeIdIs
  <1>2. PICK c0 : c0 = Configuration(t, k)
    OBVIOUS
  <1>a. c0 \in Own
    BY <1>1, <1>2 DEF Own
  <1>b. c0.session = t /\ c0.id = k
    BY <1>2 DEF Configuration
  <1>3. \A u \in Targets :
            /\ u = t => task'[u] = "waiting" /\ internal'[u] = k
            /\ u # t => task'[u] = task[u] /\ internal'[u] = internal[u]
    BY DEF ShapeInv
  <1>4. held' = held \cup {c0}
    BY <1>2
  <1>5. ~InFlight(c0)
    BY <1>a, <1>b DEF RoutingInv, OwnAwaited
  <1>6. \A c : InFlight(c)' <=> InFlight(c) \/ c = c0
    BY <1>4 DEF InFlight
  <1>7. c0 \notin issued
    BY <1>a, OwnCommands DEF ShapeInv
  <1>8. ShapeInv'
    <2>1. nextId' \in Int /\ nextId' < 0
      BY <1>1
    <2>2. /\ task' \in [Targets -> {"none", "start", "waiting", "confirmed", "refused", "done"}]
          /\ internal' \in [Targets -> Int]
      BY <1>1 DEF ShapeInv
    <2>3. held' \subseteq issued \cup Own
      BY <1>4, <1>a DEF ShapeInv
    <2> QED
      BY <2>1, <2>2, <2>3 DEF ShapeInv, InHand
  <1>9. WireInv'
    <2>1. ASSUME NEW i \in 1..Len(wire), NEW r, r = wire[i]
          PROVE  /\ r.kind \in {"attached", "event", "response"}
                 /\ Announces(r)' /\ Speaks(r)' /\ Answers(r)'
      <3>1. /\ r.kind \in {"attached", "event", "response"}
            /\ Announces(r) /\ Speaks(r) /\ Answers(r)
        BY <2>1 DEF WireInv
      <3>2. r.kind = "response" => r.to # c0
        BY <1>5, <2>1 DEF InFlight
      <3>3. r.kind = "attached" => r.names \in Targets /\ r.names # t
        BY <3>1 DEF Announces, ShapeInv
      <3>4. Announces(r)' /\ Speaks(r)'
        BY <1>3, <3>1, <3>3 DEF Announces, Speaks
      <3> QED
        BY <1>4, <3>1, <3>2, <3>4 DEF Answers
    <2>2. \A i \in 1..Len(wire') : \A r : r = wire'[i] =>
            /\ r.kind \in {"attached", "event", "response"}
            /\ Announces(r)' /\ Speaks(r)' /\ Answers(r)'
      BY <2>1
    <2> QED
      BY <2>2, WireNext
  <1>10. OnceInv'
    <2>1. InHand' => ~InFlight(inHand)'
      <3>1. InHand' <=> InHand
        BY DEF InHand
      <3>2. \A c : c = inHand => (InFlight(c)' <=> InFlight(inHand)')
        BY DEF InFlight
      <3>3. InHand => inHand # c0
        BY <1>7 DEF ShapeInv
      <3> QED
        BY <1>6, <3>1, <3>2, <3>3 DEF OnceInv
    <2> QED
      BY <2>1 DEF OnceInv
  <1>11. TaskInv'
    BY <1>3 DEF TaskInv
  <1>12. RoutingInv'
    <2>1. \A c \in issued' \cup Own : InFlight(c)' => OwnAwaited(c)' /\ ClientApart(c)'
      <3>1. ASSUME NEW c \in issued \cup Own, InFlight(c)
            PROVE  OwnAwaited(c)' /\ ClientApart(c)'
        <4>1. OwnAwaited(c) /\ ClientApart(c)
          BY <3>1 DEF RoutingInv
        <4>2. c \in Own => c.session \in Targets /\ c.session # t
          BY <4>1, OwnCommands DEF OwnAwaited
        <4>3. OwnAwaited(c)'
          BY <1>3, <4>1, <4>2 DEF OwnAwaited, Own
        <4>4. ClientApart(c)'
          BY <1>1, <1>3, <4>1 DEF ClientApart
        <4> QED
          BY <4>3, <4>4
      <3>2. OwnAwaited(c0)' /\ ClientApart(c0)'
        BY <1>3, <1>b, <1>7 DEF OwnAwaited, ClientApart
      <3> QED
        BY <1>6, <3>1, <3>2
    <2>2. \A r, i : Secured(r, i)' <=> Secured(r, i)
      BY DEF Secured, AttachedBefore
    <2> QED
      BY <2>1, <2>2, RoutingNext DEF RoutingInv
  <1>13. ClientInv'
    BY DEF ClientInv, Exposable
  <1> QED
    BY <1>8, <1>9, <1>10, <1>11, <1>12, <1>13

\* A target is confirmed: what was held back for it goes to the relay.
LEMMA SecureInv ==
    ASSUME Inv, NEW t \in Targets, SecureTarget(t), UNCHANGED relayVars
    PROVE  Inv'
  <1> USE DEF Inv
  <1>1. /\ task[t] = "confirmed" /\ closing = "open"
        /\ messages' = messages \o buffers[t]
        /\ buffers' = [buffers EXCEPT ![t] = <<>>]
        /\ unconfigured' = unconfigured \ {t}
        /\ internal' = [internal EXCEPT ![t] = 0]
        /\ task' = [task EXCEPT ![t] = "done"]
        /\ UNCHANGED <<attached, blocked, nextId, downstreamIds, wire, held, closing,
                       issued, inHand, down, seen>>
    BY DEF SecureTarget, browserVars, relayVars
  <1>2. t \in blocked
    BY <1>1 DEF TaskInv
  <1>3. PICK none : none = <<>> /\ IsASeq(none) /\ Len(none) = 0
    BY EmptyIs
  <1>4. \A u \in Targets :
            /\ u = t => task'[u] = "done" /\ internal'[u] = 0 /\ buffers'[u] = none
            /\ u # t => task'[u] = task[u] /\ internal'[u] = internal[u] /\ buffers'[u] = buffers[u]
    BY <1>1, <1>3 DEF ShapeInv
  <1>5. /\ IsASeq(messages')
        /\ \A i \in 1..Len(messages') :
                \/ i \in 1..Len(messages) /\ messages'[i] = messages[i]
                \/ \E j \in 1..Len(buffers[t]) : messages'[i] = buffers[t][j]
    <2>1. IsASeq(messages) /\ IsASeq(buffers[t])
      BY DEF ShapeInv
    <2>2. /\ IsASeq(messages \o buffers[t])
          /\ \A i \in 1..Len(messages \o buffers[t]) :
                \/ i \in 1..Len(messages) /\ (messages \o buffers[t])[i] = messages[i]
                \/ \E j \in 1..Len(buffers[t]) : (messages \o buffers[t])[i] = buffers[t][j]
      BY <2>1, ConcatIs
    <2> QED
      BY <1>1, <2>2
  <1>6. \A c : InFlight(c)' <=> InFlight(c)
    BY <1>1 DEF InFlight
  <1>7. ShapeInv'
    <2>1. /\ task' \in [Targets -> {"none", "start", "waiting", "confirmed", "refused", "done"}]
          /\ internal' \in [Targets -> Int]
          /\ unconfigured' \subseteq Targets
          /\ buffers' = [u \in Targets |-> buffers'[u]]
      BY <1>1 DEF ShapeInv
    <2>2. \A u \in Targets : IsASeq(buffers'[u])
      BY <1>3, <1>4 DEF ShapeInv
    <2> QED
      BY <1>1, <1>5, <2>1, <2>2 DEF ShapeInv, InHand
  <1>8. WireInv'
    <2>1. ASSUME NEW i \in 1..Len(wire), NEW r, r = wire[i]
          PROVE  /\ r.kind \in {"attached", "event", "response"}
                 /\ Announces(r)' /\ Speaks(r)' /\ Answers(r)'
      <3>1. /\ r.kind \in {"attached", "event", "response"}
            /\ Announces(r) /\ Speaks(r) /\ Answers(r)
        BY <2>1 DEF WireInv
      <3>2. r.kind = "attached" => r.names \in Targets /\ r.names # t
        BY <1>1, <3>1 DEF Announces, ShapeInv
      <3>3. Announces(r)'
        BY <1>1, <1>4, <3>1, <3>2 DEF Announces
      <3> QED
        BY <1>1, <3>1, <3>3 DEF Speaks, Answers
    <2>2. \A i \in 1..Len(wire') : \A r : r = wire'[i] =>
            /\ r.kind \in {"attached", "event", "response"}
            /\ Announces(r)' /\ Speaks(r)' /\ Answers(r)'
      BY <1>1, <2>1
    <2> QED
      BY <2>2, WireNext
  <1>9. OnceInv'
    BY <1>1, <1>6 DEF OnceInv, InHand, InFlight
  <1>10. TaskInv'
    BY <1>1, <1>4 DEF TaskInv
  <1>11. RoutingInv'
    <2>1. \A c \in issued' \cup Own : InFlight(c)' => OwnAwaited(c)' /\ ClientApart(c)'
      <3>1. SUFFICES ASSUME NEW c \in issued \cup Own, InFlight(c)
                     PROVE  OwnAwaited(c)' /\ ClientApart(c)'
        BY <1>1, <1>6
      <3>2. OwnAwaited(c) /\ ClientApart(c)
        BY <1>1, <3>1 DEF RoutingInv
      <3>3. c \in Own => c.session \in Targets /\ c.session # t
        BY <1>1, <3>2, OwnCommands DEF OwnAwaited
      <3>4. OwnAwaited(c)'
        BY <1>4, <3>2, <3>3 DEF OwnAwaited, Own
      <3>5. ClientApart(c)'
        BY <1>1, <1>4, <3>2 DEF ClientApart
      <3> QED
        BY <3>4, <3>5
    <2>2. \A r, i : Secured(r, i) => Secured(r, i)'
      BY <1>1, <1>2 DEF Secured, AttachedBefore
    <2> QED
      BY <1>1, <2>1, <2>2, RoutingNext DEF RoutingInv
  <1>12. ClientInv'
    <2>1. \A i \in 1..Len(messages') : Exposable(messages'[i])
      <3>1. \A j \in 1..Len(buffers[t]) : Exposable(buffers[t][j])
        BY <1>2 DEF ClientInv, Exposable
      <3> QED
        BY <1>5, <3>1 DEF ClientInv
    <2>2. \A u \in Targets : \A i \in 1..Len(buffers'[u]) :
            /\ buffers'[u][i].about \in Targets => buffers'[u][i].about = u
            /\ buffers'[u][i].kind = "response" => buffers'[u][i].to \in issued
      <3>1. ASSUME NEW u \in Targets, NEW i \in 1..Len(buffers'[u])
            PROVE  u # t
        BY <1>3, <1>4
      <3> QED
        BY <1>4, <3>1 DEF ClientInv
    <2> QED
      BY <1>1, <2>1, <2>2 DEF ClientInv, Exposable
  <1> QED
    BY <1>7, <1>8, <1>9, <1>10, <1>11, <1>12

--------------------------------------------------------------------------
(* The end of the connection *)

\* Failing closed and closing: tasks are cancelled, and the relay gets nothing more but the
\* reason.
LEMMA EndsInv ==
    ASSUME Inv,
           UNCHANGED <<wire, attached, blocked, held, downstreamIds, issued, inHand, down, seen>>,
           closing' # "open",
           task' \in [Targets -> {"none", "start", "waiting", "confirmed", "refused", "done"}],
           \A t \in Targets : task'[t] = task[t] \/ (task[t] # "none" /\ task'[t] = "done"),
           internal' \in [Targets -> Int],
           \A t \in Targets : task'[t] \in {"none", "start"} => internal'[t] = 0,
           nextId' \in Int, nextId' < 0,
           unconfigured' \subseteq unconfigured,
           buffers' = [t \in Targets |-> buffers'[t]],
           \A t \in Targets : buffers'[t] = buffers[t] \/ buffers'[t] = <<>>,
           IsASeq(messages'),
           \A i \in 1..Len(messages') :
                \/ i \in 1..Len(messages) /\ messages'[i] = messages[i]
                \/ messages'[i].kind = "terminal"
    PROVE  Inv'
  <1> USE DEF Inv
  <1>1. PICK none : none = <<>> /\ IsASeq(none) /\ Len(none) = 0
    BY EmptyIs
  <1>2. \A t \in Targets : buffers'[t] = buffers[t] \/ buffers'[t] = none
    BY <1>1
  <1>3. \A c : InFlight(c)' <=> InFlight(c)
    BY DEF InFlight
  <1>4. ShapeInv'
    <2>1. \A t \in Targets : IsASeq(buffers'[t])
      BY <1>1, <1>2 DEF ShapeInv
    <2> QED
      BY <2>1 DEF ShapeInv, InHand
  <1>5. WireInv'
    <2>1. ASSUME NEW i \in 1..Len(wire), NEW r, r = wire[i]
          PROVE  /\ r.kind \in {"attached", "event", "response"}
                 /\ Announces(r)' /\ Speaks(r)' /\ Answers(r)'
      <3>1. /\ r.kind \in {"attached", "event", "response"}
            /\ Announces(r) /\ Speaks(r) /\ Answers(r)
        BY <2>1 DEF WireInv
      <3>2. r.kind = "attached" => r.names \in Targets
        BY <3>1 DEF Announces, ShapeInv
      <3>3. Announces(r)'
        BY <3>1, <3>2 DEF Announces
      <3> QED
        BY <3>1, <3>3 DEF Speaks, Answers
    <2>2. \A i \in 1..Len(wire') : \A r : r = wire'[i] =>
            /\ r.kind \in {"attached", "event", "response"}
            /\ Announces(r)' /\ Speaks(r)' /\ Answers(r)'
      BY <2>1
    <2> QED
      BY <2>2, WireNext
  <1>6. OnceInv'
    BY <1>3 DEF OnceInv, InHand, InFlight
  <1>7. TaskInv'
    BY DEF TaskInv
  <1>8. RoutingInv'
    BY DEF RoutingInv
  <1>9. ClientInv'
    <2>1. \A i \in 1..Len(messages') : Exposable(messages'[i])
      BY DEF ClientInv, Exposable
    <2>2. \A t \in Targets : \A i \in 1..Len(buffers'[t]) :
            /\ buffers'[t][i].about \in Targets => buffers'[t][i].about = t
            /\ buffers'[t][i].kind = "response" => buffers'[t][i].to \in issued
      <3>1. ASSUME NEW t \in Targets, NEW i \in 1..Len(buffers'[t])
            PROVE  buffers'[t] = buffers[t]
        BY <1>1, <1>2
      <3> QED
        BY <3>1 DEF ClientInv
    <2> QED
      BY <2>1, <2>2 DEF ClientInv, Exposable
  <1> QED
    BY <1>4, <1>5, <1>6, <1>7, <1>8, <1>9

\* _fail_closed up to its first await, and the same of close(): the tasks are cancelled.
LEMMA BeginsToEnd ==
    ASSUME Inv, closing' # "open",
           task' = [t \in Targets |-> IF task[t] = "none" THEN "none" ELSE "done"],
           internal' \in [Targets -> Int],
           \A t \in Targets : task[t] = "none" => internal'[t] = internal[t],
           nextId' \in Int, nextId' < 0,
           UNCHANGED <<wire, attached, blocked, held, downstreamIds, issued, inHand, down, seen,
                       unconfigured, buffers, messages>>
    PROVE  Inv'
  <1>1. /\ task' \in [Targets -> {"none", "start", "waiting", "confirmed", "refused", "done"}]
        /\ \A t \in Targets : task'[t] = task[t] \/ (task[t] # "none" /\ task'[t] = "done")
        /\ \A t \in Targets : task'[t] \in {"none", "start"} => internal'[t] = 0
    BY DEF Inv, ShapeInv, TaskInv
  <1>2. /\ IsASeq(messages') /\ unconfigured' \subseteq unconfigured
        /\ buffers' = [t \in Targets |-> buffers'[t]]
        /\ \A t \in Targets : buffers'[t] = buffers[t] \/ buffers'[t] = <<>>
        /\ \A i \in 1..Len(messages') :
                \/ i \in 1..Len(messages) /\ messages'[i] = messages[i]
                \/ messages'[i].kind = "terminal"
    BY DEF Inv, ShapeInv
  <1> QED
    BY <1>1, <1>2, EndsInv

\* The rest of _fail_closed: what the relay has not read is replaced by the reason.
LEMMA FailClosedInv ==
    ASSUME Inv, FinishFailClosed, UNCHANGED relayVars
    PROVE  Inv'
  <1> USE DEF Inv
  <1>1. PICK m : m = Terminal("domain_blocking_unavailable") /\ m.kind = "terminal"
    <2>1. Terminal("domain_blocking_unavailable").kind = "terminal"
      BY DEF Terminal
    <2> QED
      BY <2>1
  <1>2. /\ messages' = <<m>> /\ closing' = "closed" /\ unconfigured' = {}
        /\ internal' = [t \in Targets |-> 0]
        /\ buffers' = [t \in Targets |-> <<>>]
        /\ UNCHANGED <<wire, attached, blocked, held, downstreamIds, nextId, task,
                       issued, inHand, down, seen>>
    BY <1>1 DEF FinishFailClosed, browserVars, relayVars
  <1>3. IsASeq(<<m>>) /\ Len(<<m>>) = 1 /\ <<m>>[1] = m
    BY SingletonIs
  <1>4. IsASeq(messages') /\ \A i \in 1..Len(messages') : messages'[i].kind = "terminal"
    BY <1>1, <1>2, <1>3
  <1>5. /\ task' \in [Targets -> {"none", "start", "waiting", "confirmed", "refused", "done"}]
        /\ nextId' \in Int /\ nextId' < 0
        /\ internal' \in [Targets -> Int]
        /\ \A t \in Targets : internal'[t] = 0 /\ buffers'[t] = <<>> /\ task'[t] = task[t]
        /\ buffers' = [t \in Targets |-> buffers'[t]]
        /\ unconfigured' \subseteq unconfigured
    BY <1>2 DEF ShapeInv
  <1> QED
    BY <1>2, <1>4, <1>5, EndsInv

\* The rest of close(): the reason follows what the relay has not read.
LEMMA CloseInv ==
    ASSUME Inv, FinishClose, UNCHANGED relayVars
    PROVE  Inv'
  <1> USE DEF Inv
  <1>1. PICK m : m = Terminal("closed") /\ m.kind = "terminal"
    <2>1. Terminal("closed").kind = "terminal"
      BY DEF Terminal
    <2> QED
      BY <2>1
  <1>2. /\ messages' = (IF terminal THEN messages ELSE Append(messages, m))
        /\ closing' = "closed"
        /\ internal' = [t \in Targets |-> 0]
        /\ UNCHANGED <<wire, attached, blocked, held, downstreamIds, nextId, task, unconfigured,
                       buffers, issued, inHand, down, seen>>
    BY <1>1 DEF FinishClose, browserVars, relayVars
  <1>3. /\ IsASeq(messages')
        /\ \A i \in 1..Len(messages') :
                \/ i \in 1..Len(messages) /\ messages'[i] = messages[i]
                \/ messages'[i].kind = "terminal"
    <2>1. CASE terminal
      BY <1>2, <2>1 DEF ShapeInv
    <2>2. CASE ~terminal
      <3>1. messages' = Append(messages, m)
        BY <1>2, <2>2
      <3> QED
        BY <1>1, <3>1, MessagesGrow DEF ShapeInv
    <2> QED
      BY <2>1, <2>2
  <1>4. /\ task' \in [Targets -> {"none", "start", "waiting", "confirmed", "refused", "done"}]
        /\ nextId' \in Int /\ nextId' < 0
        /\ internal' \in [Targets -> Int]
        /\ \A t \in Targets : internal'[t] = 0 /\ buffers'[t] = buffers[t] /\ task'[t] = task[t]
        /\ buffers' = [t \in Targets |-> buffers'[t]]
        /\ unconfigured' \subseteq unconfigured
    BY <1>2 DEF ShapeInv
  <1> QED
    BY <1>2, <1>3, <1>4, EndsInv

--------------------------------------------------------------------------
(* The relay *)

\* What the relay and the gateway leave alone unless they send.
RelayKeeps ==
    UNCHANGED <<wire, attached, blocked, held, downstreamIds, task, internal, nextId,
                unconfigured, buffers, closing, issued, inHand>>

\* The relay reads what it may pass on, and goes on with the command in its hand or drops it.
LEMMA RelayInv ==
    ASSUME Inv, RelayKeeps, InHand' => InHand,
           IsASeq(messages'), \A i \in 1..Len(messages') : Exposable(messages'[i]),
           \A t \in Targets : seen'[t] = 0 \/ t \in blocked
    PROVE  Inv'
  <1> USE DEF Inv, RelayKeeps
  <1>1. ShapeInv'
    BY DEF ShapeInv
  <1>2. WireInv'
    BY DEF WireInv, Announces, Speaks, Answers
  <1>3. OnceInv'
    BY DEF OnceInv, InFlight
  <1>4. TaskInv'
    BY DEF TaskInv
  <1>5. RoutingInv'
    BY DEF RoutingInv, OwnAwaited, ClientApart, Secured, AttachedBefore, InFlight
  <1>6. ClientInv'
    BY DEF ClientInv, Exposable
  <1> QED
    BY <1>1, <1>2, <1>3, <1>4, <1>5, <1>6

\* Steps that neither read nor tell the client anything.
LEMMA QuietInv ==
    ASSUME Inv, RelayKeeps, InHand' => InHand, UNCHANGED <<messages, seen>>
    PROVE  Inv'
  <1>1. /\ IsASeq(messages') /\ \A i \in 1..Len(messages') : Exposable(messages'[i])
        /\ \A t \in Targets : seen'[t] = 0 \/ t \in blocked
    BY DEF Inv, ShapeInv, ClientInv
  <1> QED
    BY <1>1, RelayInv

\* The provider's stream has ended with every target configured.
LEMMA PumpEndsInv ==
    ASSUME Inv, RelayKeeps, UNCHANGED <<down, seen>>,
           messages' = Append(messages, Terminal("closed"))
    PROVE  Inv'
  <1>1. PICK m : m = Terminal("closed") /\ m.kind = "terminal"
    <2>1. Terminal("closed").kind = "terminal"
      BY DEF Terminal
    <2> QED
      BY <2>1
  <1>2. messages' = Append(messages, m)
    BY <1>1
  <1>3. /\ IsASeq(messages')
        /\ \A i \in 1..Len(messages') :
                \/ i \in 1..Len(messages) /\ messages'[i] = messages[i]
                \/ messages'[i].kind = "terminal"
    BY <1>1, <1>2, MessagesGrow DEF Inv, ShapeInv
  <1>4. \A i \in 1..Len(messages') : Exposable(messages'[i])
    BY <1>3 DEF Inv, ClientInv, Exposable
  <1>5. (\A t \in Targets : seen'[t] = 0 \/ t \in blocked) /\ (InHand' => InHand)
    BY DEF Inv, ClientInv, InHand
  <1> QED
    BY <1>3, <1>4, <1>5, RelayInv

\* The relay reads a message, and passes it on if the client is there.
LEMMA DeliverInv ==
    ASSUME Inv, Deliver
    PROVE  Inv'
  <1> USE DEF Inv
  <1>1. PICK m : m = Head(messages)
    OBVIOUS
  <1>2. /\ RelayKeeps /\ messages # <<>> /\ messages' = Tail(messages) /\ down' = down
        /\ \/ UNCHANGED seen
           \/ /\ m.kind # "terminal"
              /\ seen' = [t \in Targets |-> IF m.about = t THEN m.n ELSE seen[t]]
    BY <1>1 DEF Deliver, RelayKeeps, browserVars, routing
  <1>3. /\ IsASeq(messages') /\ Len(messages) \in Nat \ {0} /\ Head(messages) = messages[1]
        /\ \A i \in 1..Len(messages') : i + 1 \in 2..Len(messages) /\ messages'[i] = messages[i + 1]
    BY <1>2, TailIs DEF ShapeInv
  <1>4. Exposable(m)
    BY <1>1, <1>3 DEF ClientInv
  <1>5. \A i \in 1..Len(messages') : Exposable(messages'[i])
    <2>1. \A i \in 1..Len(messages') : i + 1 \in 1..Len(messages) /\ messages'[i] = messages[i + 1]
      BY <1>3
    <2> QED
      BY <2>1 DEF ClientInv
  <1>6. \A t \in Targets : seen'[t] = 0 \/ t \in blocked
    BY <1>2, <1>4 DEF ClientInv, Exposable
  <1>7. InHand' => InHand
    BY <1>2 DEF InHand
  <1> QED
    BY <1>2, <1>3, <1>5, <1>6, <1>7, RelayInv

\* The client sends a command, to the browser or to a target it was told of.
LEMMA ClientSendsInv ==
    ASSUME Inv, NEW c \in Commands, ClientSends(c)
    PROVE  Inv'
  <1> USE DEF Inv
  <1>1. /\ c \notin issued /\ issued' = issued \cup {c} /\ inHand' = c
        /\ c.session # Browser => seen[c.session] > 0
        /\ UNCHANGED <<wire, attached, blocked, held, downstreamIds, task, internal, nextId,
                       unconfigured, buffers, messages, closing, seen>>
    BY DEF ClientSends, blockingVars, browserVars, routing, sessionVars
  <1>2. c \notin Own /\ c.session \in Targets \cup {Browser}
    BY OwnCommands, CommandsAssumption
  <1>3. c.session # Browser => c.session \in blocked
    BY <1>1, <1>2 DEF ClientInv
  <1>4. ~InFlight(c)
    BY <1>1, <1>2 DEF InFlight, ShapeInv, WireInv, Answers
  <1>5. \A d : InFlight(d)' <=> InFlight(d)
    BY <1>1 DEF InFlight
  <1>6. ShapeInv'
    BY <1>1 DEF ShapeInv
  <1>7. WireInv'
    <2>1. ASSUME NEW i \in 1..Len(wire), NEW r, r = wire[i]
          PROVE  /\ r.kind \in {"attached", "event", "response"}
                 /\ Announces(r)' /\ Speaks(r)' /\ Answers(r)'
      <3>1. /\ r.kind \in {"attached", "event", "response"}
            /\ Announces(r) /\ Speaks(r) /\ Answers(r)
        BY <2>1 DEF WireInv
      <3>2. r.kind = "response" => r.to # c
        BY <1>4, <2>1 DEF InFlight
      <3> QED
        BY <1>1, <3>1, <3>2 DEF Announces, Speaks, Answers
    <2>2. \A i \in 1..Len(wire') : \A r : r = wire'[i] =>
            /\ r.kind \in {"attached", "event", "response"}
            /\ Announces(r)' /\ Speaks(r)' /\ Answers(r)'
      BY <1>1, <2>1
    <2> QED
      BY <2>2, WireNext
  <1>8. OnceInv'
    <2>1. \A d : d = inHand' => (InFlight(d)' <=> InFlight(inHand)')
      BY DEF InFlight
    <2> QED
      BY <1>1, <1>4, <1>5, <2>1 DEF OnceInv
  <1>9. TaskInv'
    BY <1>1 DEF TaskInv
  <1>10. RoutingInv'
    <2>1. closing = "open" => \A d \in issued' \cup Own :
                InFlight(d)' => OwnAwaited(d)' /\ ClientApart(d)'
      BY <1>1, <1>4, <1>5 DEF RoutingInv, OwnAwaited, ClientApart
    <2>2. \A r, i : Secured(r, i)' <=> Secured(r, i)
      BY <1>1 DEF Secured, AttachedBefore
    <2> QED
      BY <1>1, <2>1, <2>2, RoutingNext DEF RoutingInv
  <1>11. ClientInv'
    BY <1>1, <1>3 DEF ClientInv, Exposable
  <1> QED
    BY <1>6, <1>7, <1>8, <1>9, <1>10, <1>11

\* The client's command goes to the browser.
LEMMA SendsUpInv ==
    ASSUME Inv, InHand, \A t \in Targets : internal[t] # 0 => Key(inHand) # <<t, internal[t]>>,
           held' = held \cup {inHand}, downstreamIds' = downstreamIds \cup {Key(inHand)},
           down' = "receiving",
           UNCHANGED <<wire, attached, blocked, task, internal, nextId, unconfigured, buffers,
                       messages, closing, issued, seen>>
    PROVE  Inv'
  <1> USE DEF Inv
  <1>1. PICK c : c = inHand /\ c \in issued /\ ~InFlight(c)
    <2>1. inHand \in issued /\ ~InFlight(inHand)
      BY DEF ShapeInv, OnceInv
    <2> QED
      BY <2>1
  <1>2. c \notin Own /\ held' = held \cup {c} /\ downstreamIds' = downstreamIds \cup {Key(c)}
    BY <1>1, OwnCommands DEF ShapeInv
  <1>3. \A d : InFlight(d)' <=> InFlight(d) \/ d = c
    BY <1>2 DEF InFlight
  <1>4. ~InHand'
    BY DEF InHand
  <1>5. ShapeInv'
    <2>1. held' \subseteq issued \cup Own /\ downstreamIds' \subseteq {Key(d) : d \in issued}
      BY <1>1, <1>2 DEF ShapeInv
    <2> QED
      BY <1>4, <2>1 DEF ShapeInv
  <1>6. WireInv'
    <2>1. ASSUME NEW i \in 1..Len(wire), NEW r, r = wire[i]
          PROVE  /\ r.kind \in {"attached", "event", "response"}
                 /\ Announces(r)' /\ Speaks(r)' /\ Answers(r)'
      <3>1. /\ r.kind \in {"attached", "event", "response"}
            /\ Announces(r) /\ Speaks(r) /\ Answers(r)
        BY <2>1 DEF WireInv
      <3>2. r.kind = "response" => r.to # c
        BY <1>1, <2>1 DEF InFlight
      <3> QED
        BY <1>2, <3>1, <3>2 DEF Announces, Speaks, Answers
    <2>2. \A i \in 1..Len(wire') : \A r : r = wire'[i] =>
            /\ r.kind \in {"attached", "event", "response"}
            /\ Announces(r)' /\ Speaks(r)' /\ Answers(r)'
      BY <2>1
    <2> QED
      BY <2>2, WireNext
  <1>7. OnceInv'
    BY <1>4 DEF OnceInv
  <1>8. TaskInv'
    BY DEF TaskInv
  <1>9. RoutingInv'
    <2>1. closing = "open" => \A d \in issued' \cup Own :
                InFlight(d)' => OwnAwaited(d)' /\ ClientApart(d)'
      <3>1. OwnAwaited(c)' /\ ClientApart(c)'
        BY <1>1, <1>2 DEF OwnAwaited, ClientApart, Own
      <3>2. closing = "open" => \A d \in issued \cup Own :
                InFlight(d) => OwnAwaited(d)' /\ ClientApart(d)'
        BY <1>2 DEF RoutingInv, OwnAwaited, ClientApart
      <3> QED
        BY <1>3, <3>1, <3>2
    <2>2. \A r, i : Secured(r, i)' <=> Secured(r, i)
      BY DEF Secured, AttachedBefore
    <2> QED
      BY <2>1, <2>2, RoutingNext DEF RoutingInv
  <1>10. ClientInv'
    BY DEF ClientInv, Exposable
  <1> QED
    BY <1>5, <1>6, <1>7, <1>8, <1>9, <1>10

--------------------------------------------------------------------------
(* The theorems *)

\* The invariant holds when the connection starts.
LEMMA Initially == Init => Inv
  <1> SUFFICES ASSUME Init
               PROVE  Inv
    OBVIOUS
  <1> USE DEF Init, BlockingInit
  <1>1. PICK none : none = <<>> /\ IsASeq(none) /\ Len(none) = 0
    BY EmptyIs
  <1>2. wire = none /\ messages = none /\ \A t \in Targets : buffers[t] = none
    BY <1>1
  <1>3. ShapeInv
    <2>1. /\ IsASeq(wire) /\ IsASeq(messages) /\ \A t \in Targets : IsASeq(buffers[t])
      BY <1>1, <1>2
    <2>2. buffers = [t \in Targets |-> buffers[t]]
      OBVIOUS
    <2> QED
      BY <2>1, <2>2 DEF ShapeInv, InHand
  <1>4. WireInv /\ OnceInv /\ TaskInv
    BY <1>1, <1>2 DEF WireInv, OnceInv, TaskInv, InHand
  <1>5. RoutingInv
    BY <1>1, <1>2 DEF RoutingInv, InFlight
  <1>6. ClientInv
    BY <1>1, <1>2 DEF ClientInv
  <1> QED
    BY <1>3, <1>4, <1>5, <1>6 DEF Inv

\* The wrapper's own steps.
LEMMA BlockingPreserves ==
    ASSUME Inv, BlockingNext, UNCHANGED relayVars
    PROVE  Inv'
  <1>r. UNCHANGED <<issued, inHand, down, seen>>
    BY DEF relayVars
  <1>i. internal \in [Targets -> Int] /\ nextId \in Int /\ nextId < 0
    BY DEF Inv, ShapeInv
  <1>1. ASSUME NEW t \in Targets, ConfigureTarget(t)
        PROVE  Inv'
    <2>1. PICK k : k = FreeId(t)
      OBVIOUS
    <2>2. /\ task[t] = "start" /\ closing = "open"
          /\ nextId' = k - 1 /\ internal' = [internal EXCEPT ![t] = k]
          /\ UNCHANGED <<wire, attached, blocked, downstreamIds, unconfigured, buffers, messages>>
      BY <1>1, <2>1 DEF ConfigureTarget, browserVars
    <2>3. k \in Int /\ k < 0
      BY <2>1, <2>2, FreeIdIs
    <2>4. CASE held' = held \cup {Configuration(t, k)} /\ task' = [task EXCEPT ![t] = "waiting"]
               /\ closing' = closing
      BY <1>r, <2>1, <2>2, <2>4, ConfigureInv DEF TaskKeeps
    <2>5. CASE BeginFailClosed /\ held' = held
      <3>1. /\ internal' \in [Targets -> Int] /\ nextId' \in Int /\ nextId' < 0
            /\ \A u \in Targets : task[u] = "none" => internal'[u] = internal[u]
        BY <1>i, <2>2, <2>3
      <3> QED
        BY <1>r, <2>2, <2>5, <3>1, BeginsToEnd DEF BeginFailClosed
    <2> QED
      BY <1>1, <2>1, <2>4, <2>5 DEF ConfigureTarget
  <1>2. ASSUME NEW t \in Targets, SecureTarget(t)
        PROVE  Inv'
    BY <1>2, SecureInv
  <1>3. ASSUME NEW t \in Targets, ConfigurationFails(t)
        PROVE  Inv'
    BY <1>r, <1>i, <1>3, BeginsToEnd DEF ConfigurationFails, BeginFailClosed, browserVars, routing
  <1>4. CASE RouteUpstreamMessage
    BY <1>4, RouteInv
  <1>5. CASE PumpEnds
    <2>1. UNCHANGED <<wire, attached, blocked, held, downstreamIds, internal, nextId,
                      unconfigured, buffers>>
      BY <1>5 DEF PumpEnds, browserVars, routing
    <2>2. CASE BeginFailClosed /\ messages' = messages
      BY <1>r, <1>i, <2>1, <2>2, BeginsToEnd DEF BeginFailClosed
    <2>3. CASE messages' = Append(messages, Terminal("closed")) /\ UNCHANGED <<task, closing>>
      BY <1>r, <2>1, <2>3, PumpEndsInv DEF RelayKeeps
    <2> QED
      BY <1>5, <2>2, <2>3 DEF PumpEnds
  <1>6. CASE FinishFailClosed
    BY <1>6, FailClosedInv
  <1>7. CASE FinishClose
    BY <1>7, CloseInv
  <1> QED
    BY <1>1, <1>2, <1>3, <1>4, <1>5, <1>6, <1>7 DEF BlockingNext

\* The browser's steps.
LEMMA BrowserPreserves ==
    ASSUME Inv, BrowserNext, UNCHANGED relayVars
    PROVE  Inv'
  <1>r. UNCHANGED <<issued, inHand, down, seen>>
    BY DEF relayVars
  <1>1. ASSUME NEW t \in Targets, BrowserAttaches(t)
        PROVE  Inv'
    <2>1. BrowserKeeps
      BY <1>r, <1>1 DEF BrowserAttaches, BrowserKeeps, routing
    <2> QED
      BY <1>1, <2>1, AttachesInv
  <1>2. ASSUME NEW t \in Targets, NEW s \in {t, Browser}, BrowserSpeaks(t, s)
        PROVE  Inv'
    <2>1. BrowserKeeps
      BY <1>r, <1>2 DEF BrowserSpeaks, BrowserKeeps, routing
    <2> QED
      BY <1>2, <2>1, SpeaksInv
  <1>3. ASSUME NEW c \in held, NEW ok \in BOOLEAN, NEW s, BrowserAnswers(c, ok, s),
               s = c.session \/ (c.method # "setBlockedURLs" /\ s = Browser)
        PROVE  Inv'
    <2>1. BrowserKeeps
      BY <1>r, <1>3 DEF BrowserAnswers, BrowserKeeps, routing
    <2> QED
      BY <1>3, <2>1, AnswersInv
  <1>4. CASE BrowserLeaves
    <2>1. RelayKeeps /\ UNCHANGED <<messages, seen>> /\ (InHand' => InHand)
      BY <1>r, <1>4 DEF BrowserLeaves, RelayKeeps, browserVars, routing, InHand
    <2> QED
      BY <2>1, QuietInv
  <1> QED
    BY <1>1, <1>2, <1>3, <1>4 DEF BrowserNext

\* The steps of the relay and of the gateway around it.
LEMMA RelayPreserves ==
    ASSUME Inv,
           \/ \E c \in Commands : ClientSends(c)
           \/ ClientSendsInvalid \/ ClientLeaves \/ LeaseLost
           \/ Relaying \/ UNCHANGED vars
    PROVE  Inv'
  <1> DEFINE Quiet == RelayKeeps /\ UNCHANGED <<messages, seen>> /\ (InHand' => InHand)
  <1>q. ASSUME Quiet
        PROVE  Inv'
    BY <1>q, QuietInv
  <1>v. ASSUME UNCHANGED blockingVars
        PROVE  /\ UNCHANGED <<wire, attached, blocked, held, downstreamIds, task, internal, nextId,
                              unconfigured, buffers, closing, messages>>
    BY <1>v DEF blockingVars, browserVars, routing, sessionVars
  <1>1. ASSUME NEW c \in Commands, ClientSends(c)
        PROVE  Inv'
    BY <1>1, ClientSendsInv
  <1>2. CASE ClientSendsInvalid
    <2>1. Quiet
      BY <1>2, <1>v DEF ClientSendsInvalid, RelayKeeps, InHand
    <2> QED
      BY <1>q, <2>1
  <1>3. CASE ClientLeaves
    <2>1. Quiet
      BY <1>3, <1>v DEF ClientLeaves, RelayKeeps, InHand
    <2> QED
      BY <1>q, <2>1
  <1>4. CASE LeaseLost
    <2>1. Quiet
      BY <1>4, <1>v DEF LeaseLost, RelayKeeps, InHand
    <2> QED
      BY <1>q, <2>1
  <1>5. CASE ObserveCommand
    <2>1. Quiet
      BY <1>5, <1>v DEF ObserveCommand, RelayKeeps, InHand
    <2> QED
      BY <1>q, <2>1
  <1>6. CASE SendUpstream
    <2>1. /\ down = "sending"
          /\ UNCHANGED <<wire, attached, blocked, task, internal, nextId, unconfigured, buffers,
                         messages, closing, issued, seen>>
      BY <1>6 DEF SendUpstream, browserVars
    <2>2. CASE /\ down' \in {"domain_blocking_unavailable", "connection_closed"}
               /\ UNCHANGED <<held, downstreamIds, inHand>>
      <3>1. Quiet
        BY <2>1, <2>2 DEF RelayKeeps, InHand
      <3> QED
        BY <1>q, <3>1
    <2>3. CASE /\ \A t \in Targets : internal[t] # 0 => Key(inHand) # <<t, internal[t]>>
               /\ held' = held \cup {inHand}
               /\ downstreamIds' = downstreamIds \cup {Key(inHand)}
               /\ down' = "receiving"
      <3>1. InHand
        BY <2>1 DEF InHand
      <3> QED
        BY <2>1, <2>3, <3>1, SendsUpInv
    <2> QED
      BY <1>6, <2>2, <2>3 DEF SendUpstream
  <1>7. CASE ReceiveDisconnect
    <2>1. Quiet
      BY <1>7, <1>v DEF ReceiveDisconnect, RelayKeeps, InHand
    <2> QED
      BY <1>q, <2>1
  <1>8. CASE Deliver
    BY <1>8, DeliverInv
  <1>9. CASE RelayEnds
    <2>1. Quiet
      BY <1>9, <1>v DEF RelayEnds, RelayKeeps, InHand, DownRunning
    <2> QED
      BY <1>q, <2>1
  <1>10. CASE CloseProvider
    <2>1. internal \in [Targets -> Int] /\ nextId \in Int /\ nextId < 0
      BY DEF Inv, ShapeInv
    <2> QED
      BY <1>10, <2>1, BeginsToEnd DEF CloseProvider, BeginClose, relayVars, browserVars, routing
  <1>11. CASE TakeSummary
    <2>1. Quiet
      BY <1>11, <1>v DEF TakeSummary, RelayKeeps, InHand
    <2> QED
      BY <1>q, <2>1
  <1>12. CASE UNCHANGED vars
    <2>1. Quiet
      BY <1>12, <1>v DEF vars, relayVars, RelayKeeps, InHand
    <2> QED
      BY <1>q, <2>1
  <1> QED
    BY <1>1, <1>2, <1>3, <1>4, <1>5, <1>6, <1>7, <1>8, <1>9, <1>10, <1>11, <1>12 DEF Relaying

\* The invariant holds throughout a connection.
LEMMA Invariant == Spec => []Inv
  <1>1. Inv /\ [Next]_vars => Inv'
    <2> SUFFICES ASSUME Inv, [Next]_vars
                 PROVE  Inv'
      OBVIOUS
    <2>1. CASE BrowserNext /\ UNCHANGED relayVars
      BY <2>1, BrowserPreserves
    <2>2. CASE BlockingNext /\ UNCHANGED relayVars
      BY <2>2, BlockingPreserves
    <2>3. CASE \/ \E c \in Commands : ClientSends(c)
               \/ ClientSendsInvalid \/ ClientLeaves \/ LeaseLost
               \/ Relaying \/ UNCHANGED vars
      BY <2>3, RelayPreserves
    <2> QED
      BY <2>1, <2>2, <2>3 DEF Next, Done
  <1> QED
    BY <1>1, Initially, PTL DEF Spec

\* Whatever the browser, the client and the timeouts do, in whatever order messages come:
\* the client is told of a target only after the browser has confirmed its blocklist
\* (_route_upstream_message, _configure_target and _secure_target of domain_blocking.py).
THEOREM TargetsBlockedFirst == Spec => []BlockedBeforeExposed
  <1>1. Inv => BlockedBeforeExposed
    BY DEF Inv, ClientInv, BlockedBeforeExposed
  <1> QED
    BY <1>1, Invariant, PTL

\* No answer goes astray between Stolosio's own commands and the client's, whatever ids the
\* client uses: what the relay passes on answers the client, and a target counts as
\* confirmed only by the answer to its own configuration (send and
\* _route_upstream_message of domain_blocking.py).
THEOREM AnswersNeverCross == Spec => []AnswersReachTheirSender
  <1>1. Inv => AnswersReachTheirSender
    <2> SUFFICES ASSUME Inv
                 PROVE  AnswersReachTheirSender
      OBVIOUS
    <2>1. PICK S : messages \in Seq(S)
      BY DEF Inv, ShapeInv, IsASeq
    <2>2. DOMAIN messages = 1..Len(messages)
      BY <2>1
    <2> QED
      BY <2>2 DEF Inv, ClientInv, Exposable, TaskInv, AnswersReachTheirSender
  <1> QED
    BY <1>1, Invariant, PTL

--------------------------------------------------------------------------
(* Counting the commands of a set, one by one *)

\* In a nonempty family of subsets of a finite set, some member has none of its
\* subsets with one element fewer in the family: the step of an induction over the set.
LEMMA SmallestSet ==
    ASSUME NEW D, IsFiniteSet(D), NEW B \in SUBSET (SUBSET D), B # {}
    PROVE  \E s \in B : \A x \in s : s \ {x} \notin B
  <1> DEFINE R == StrictSubsetOrdering(D)
  <1>1. IsWellFoundedOn(R, SUBSET D)
    BY FS_StrictSubsetOrderingWellFounded, FS_FiniteSubsetsOfFinite
  <1>2. PICK s \in B : \A w \in B : ~ (<<w, s>> \in R)
    BY <1>1, WFMin
  <1>3. ASSUME NEW x \in s, s \ {x} \in B
        PROVE  FALSE
    <2>1. <<s \ {x}, s>> \in R
      BY <1>2, <1>3 DEF StrictSubsetOrdering
    <2> QED
      BY <1>2, <1>3, <2>1
  <1> QED
    BY <1>2, <1>3

\* The element a fold over the set s takes.
Taken(s) == CHOOSE x \in s : TRUE

\* f gives, for each subset of S, the usage once its commands are counted.
CountsAll(f, S, u, r) ==
    f = [s \in SUBSET S |-> IF s = {} THEN u
                            ELSE Counted(Taken(s), r, f[s \ {Taken(s)}])]

\* What a fold takes is of its set.
LEMMA TakenIn == ASSUME NEW s, s # {} PROVE Taken(s) \in s
  BY DEF Taken

\* There is one way to count the commands of a set.
LEMMA CountsAgree ==
    ASSUME NEW u, NEW r, NEW S, NEW T, NEW f, NEW g, IsFiniteSet(S),
           CountsAll(f, S, u, r), CountsAll(g, T, u, r)
    PROVE  \A s \in SUBSET S : s \in SUBSET T => f[s] = g[s]
  <1> DEFINE B == {s \in SUBSET S : s \in SUBSET T /\ f[s] # g[s]}
  <1>1. SUFFICES ASSUME B # {}
                 PROVE  FALSE
    OBVIOUS
  <1>2. B \in SUBSET (SUBSET S)
    OBVIOUS
  <1>3. PICK s \in B : \A x \in s : s \ {x} \notin B
    BY <1>1, <1>2, SmallestSet, Zenon
  <1>4. s \in SUBSET S /\ s \in SUBSET T /\ f[s] # g[s]
    BY <1>3
  <1>5. CASE s = {}
    BY <1>4, <1>5 DEF CountsAll
  <1>6. CASE s # {}
    <2>1. PICK x : x = Taken(s) /\ x \in s
      BY <1>6, TakenIn
    <2>2. f[s \ {x}] = g[s \ {x}]
      BY <1>3, <1>4, <2>1
    <2>3. f[s] = Counted(x, r, f[s \ {x}])
      BY <1>4, <1>6, <2>1, Zenon DEF CountsAll
    <2>4. g[s] = Counted(x, r, g[s \ {x}])
      BY <1>4, <1>6, <2>1, Zenon DEF CountsAll
    <2> QED
      BY <1>4, <2>2, <2>3, <2>4
  <1> QED
    BY <1>5, <1>6

\* The commands of a finite set can be counted.
LEMMA CountsExist ==
    ASSUME NEW u, NEW r, NEW S, IsFiniteSet(S)
    PROVE  \E f : CountsAll(f, S, u, r)
  <1> DEFINE B == {s \in SUBSET S : ~ \E f : CountsAll(f, s, u, r)}
  <1>1. SUFFICES ASSUME B # {}
                 PROVE  FALSE
    OBVIOUS
  <1>2. B \in SUBSET (SUBSET S)
    OBVIOUS
  <1>3. PICK s \in B : \A x \in s : s \ {x} \notin B
    BY <1>1, <1>2, SmallestSet, Zenon
  <1>4. s \in SUBSET S /\ ~ \E f : CountsAll(f, s, u, r)
    BY <1>3
  <1>5. \A x \in s : \E f : CountsAll(f, s \ {x}, u, r)
    BY <1>3, <1>4
  <1> DEFINE less(x) == CHOOSE f : CountsAll(f, s \ {x}, u, r)
             value(w) == IF w = {} THEN u
                         ELSE Counted(Taken(w), r, less(Taken(w))[w \ {Taken(w)}])
             g == [w \in SUBSET s |-> value(w)]
  <1>6. \A x \in s : CountsAll(less(x), s \ {x}, u, r)
    BY <1>5
  <1> HIDE DEF less
  <1>7. ASSUME NEW x \in s, NEW w \in SUBSET (s \ {x})
        PROVE  less(x)[w] = g[w]
    <2>1. CASE w = {}
      BY <1>6, <2>1, Zenon DEF CountsAll
    <2>2. CASE w # {}
      <3>1. PICK y : y = Taken(w) /\ y \in w
        BY <2>2, TakenIn
      <3>2. PICK v : v = w \ {y}
        OBVIOUS
      <3>3. less(x)[w] = Counted(y, r, less(x)[v])
        BY <1>6, <2>2, <3>1, <3>2, Zenon DEF CountsAll
      <3>4. g[w] = Counted(y, r, less(y)[v])
        BY <2>2, <3>1, <3>2
      <3>5. v \in SUBSET (s \ {x}) /\ v \in SUBSET (s \ {y}) /\ y \in s
        BY <3>1, <3>2
      <3>6. IsFiniteSet(s \ {x})
        BY <1>4, FS_Subset
      <3>7. CountsAll(less(x), s \ {x}, u, r) /\ CountsAll(less(y), s \ {y}, u, r)
        BY <1>6, <3>5
      <3>8. less(x)[v] = less(y)[v]
        BY <3>5, <3>6, <3>7, CountsAgree
      <3> QED
        BY <3>3, <3>4, <3>8
    <2> QED
      BY <2>1, <2>2
  <1>8. ASSUME NEW w \in SUBSET s
        PROVE  g[w] = IF w = {} THEN u ELSE Counted(Taken(w), r, g[w \ {Taken(w)}])
    <2>1. CASE w = {}
      BY <2>1
    <2>2. CASE w # {}
      <3>1. Taken(w) \in w /\ Taken(w) \in s
        BY <2>2, TakenIn
      <3>2. w \ {Taken(w)} \in SUBSET (s \ {Taken(w)})
        OBVIOUS
      <3>3. less(Taken(w))[w \ {Taken(w)}] = g[w \ {Taken(w)}]
        BY <1>7, <3>1, <3>2
      <3> QED
        BY <2>2, <3>3
    <2> QED
      BY <2>1, <2>2
  <1>9. g = [w \in SUBSET s |-> g[w]]
    OBVIOUS
  <1> HIDE DEF g
  <1>10. CountsAll(g, s, u, r)
    BY <1>8, <1>9, Zenon DEF CountsAll
  <1> QED
    BY <1>4, <1>10

\* What Finish makes of the usage: that of its commands counted one by one.
LEMMA FinishCounts ==
    ASSUME NEW S, NEW r, IsFiniteSet(S), Finish(S, r)
    PROVE  \E f : CountsAll(f, S, usage, r) /\ usage' = f[S]
  <1> DEFINE f == CHOOSE g : CountsAll(g, S, usage, r)
  <1>1. CountsAll(f, S, usage, r)
    BY CountsExist
  <1>2. usage' = f[S]
    BY Zenon DEF Finish, FoldSet, MapThenFoldSet, CountsAll, Taken
  <1> HIDE DEF f
  <1> QED
    BY <1>1, <1>2
--------------------------------------------------------------------------
(* What a summary adds up to *)

Row == [count : Nat, failed : Nat, interrupted : Nat]

\* The commands that the rows of s stand for, one by one.
Units(u, s) == {p \in s \X Nat : 1 <= p[2] /\ p[2] <= u[p[1]].count}

\* A row more stands for as many commands more as it counts.
LEMMA UnitsGrow ==
    ASSUME NEW u, NEW s, NEW x, x \notin s, u[x].count \in Nat, IsFiniteSet(Units(u, s))
    PROVE  /\ IsFiniteSet(Units(u, s \cup {x}))
           /\ Cardinality(Units(u, s)) \in Nat
           /\ Cardinality(Units(u, s \cup {x})) = u[x].count + Cardinality(Units(u, s))
  <1>0. PICK n \in Nat : n = u[x].count
    OBVIOUS
  <1> DEFINE P == {x} \X (1..n)
  <1>1. IsFiniteSet({x}) /\ Cardinality({x}) = 1
    BY FS_Singleton
  <1>2. IsFiniteSet(1..n) /\ Cardinality(1..n) = n
    <2>1. IsFiniteSet(1..n) /\ Cardinality(1..n) = IF 1 > n THEN 0 ELSE n - 1 + 1
      BY FS_Interval
    <2> QED
      BY <2>1
  <1>3. IsFiniteSet(P) /\ Cardinality(P) = n
    <2>1. PICK S, T : S = {x} /\ T = 1..n
      OBVIOUS
    <2>2. IsFiniteSet(S) /\ IsFiniteSet(T) /\ Cardinality(S) = 1 /\ Cardinality(T) = n
      BY <1>1, <1>2, <2>1
    <2>3. IsFiniteSet(S \X T) /\ Cardinality(S \X T) = Cardinality(S) * Cardinality(T)
      BY <2>2, FS_Product
    <2> QED
      BY <2>1, <2>2, <2>3
  <1>4. Units(u, s \cup {x}) = Units(u, s) \cup P
    BY <1>0 DEF Units
  <1>5. Units(u, s) \cap P = {}
    BY DEF Units
  <1>6. Cardinality(Units(u, s)) \in Nat /\ Cardinality({}) = 0
    BY FS_CardinalityType, FS_EmptySet
  <1> HIDE DEF P
  <1>7. PICK A : A = Units(u, s)
    OBVIOUS
  <1>8. /\ IsFiniteSet(A \cup P)
        /\ Cardinality(A \cup P) = Cardinality(A) + Cardinality(P) - Cardinality(A \cap P)
    BY <1>3, <1>7, FS_Union
  <1>9. Cardinality(A) \in Nat /\ Cardinality(A \cap P) = 0 /\ Cardinality(P) = n
    BY <1>3, <1>5, <1>6, <1>7
  <1>10. Cardinality(A \cup P) = n + Cardinality(A)
    BY <1>8, <1>9
  <1>11. Units(u, s \cup {x}) = A \cup P
    BY <1>4, <1>7
  <1> QED
    BY <1>0, <1>7, <1>8, <1>9, <1>10, <1>11

\* The rows of a finite set stand for finitely many commands.
LEMMA UnitsFinite ==
    ASSUME NEW u, IsFiniteSet(DOMAIN u), \A m \in DOMAIN u : u[m].count \in Nat
    PROVE  \A s \in SUBSET DOMAIN u : IsFiniteSet(Units(u, s))
  <1> DEFINE B == {s \in SUBSET DOMAIN u : ~ IsFiniteSet(Units(u, s))}
  <1>1. SUFFICES ASSUME B # {}
                 PROVE  FALSE
    OBVIOUS
  <1>2. B \in SUBSET (SUBSET DOMAIN u)
    OBVIOUS
  <1>3. PICK s \in B : \A x \in s : s \ {x} \notin B
    BY <1>1, <1>2, SmallestSet, Zenon
  <1>4. s \in SUBSET DOMAIN u /\ ~ IsFiniteSet(Units(u, s))
    BY <1>3
  <1>5. CASE s = {}
    <2>1. Units(u, s) = {}
      BY <1>5 DEF Units
    <2> QED
      BY <1>4, <2>1, FS_EmptySet
  <1>6. CASE s # {}
    <2>1. PICK x \in s : TRUE
      BY <1>6
    <2>2. IsFiniteSet(Units(u, s \ {x})) /\ u[x].count \in Nat
      BY <1>3, <1>4, <2>1
    <2>3. IsFiniteSet(Units(u, (s \ {x}) \cup {x}))
      BY <2>2, UnitsGrow
    <2>4. (s \ {x}) \cup {x} = s
      BY <2>1
    <2> QED
      BY <1>4, <2>3, <2>4
  <1> QED
    BY <1>5, <1>6

\* The sum of the counts of a summary's rows, as the rows of each subset are added up.
SumsAll(f, u) ==
    f = [s \in SUBSET DOMAIN u |-> IF s = {} THEN 0
                                   ELSE u[Taken(s)].count + f[s \ {Taken(s)}]]

\* The total of a summary is the number of commands it stands for.
LEMMA TotalIs ==
    ASSUME NEW u, IsFiniteSet(DOMAIN u), \A m \in DOMAIN u : u[m].count \in Nat
    PROVE  /\ IsFiniteSet(Units(u, DOMAIN u))
           /\ Total(u) = Cardinality(Units(u, DOMAIN u))
           /\ Total(u) \in Nat
  <1> DEFINE D == DOMAIN u
             g == [s \in SUBSET D |-> Cardinality(Units(u, s))]
             f == CHOOSE h : SumsAll(h, u)
  <1>1. \A s \in SUBSET D : IsFiniteSet(Units(u, s)) /\ g[s] \in Nat
    BY UnitsFinite, FS_CardinalityType
  <1>2. ASSUME NEW s \in SUBSET D
        PROVE  g[s] = IF s = {} THEN 0 ELSE u[Taken(s)].count + g[s \ {Taken(s)}]
    <2>1. CASE s = {}
      <3>1. Units(u, s) = {}
        BY <2>1 DEF Units
      <3> QED
        BY <2>1, <3>1, FS_EmptySet
    <2>2. CASE s # {}
      <3>1. PICK x \in s : x = Taken(s)
        BY <2>2, TakenIn
      <3>2. PICK w : w = s \ {x}
        OBVIOUS
      <3>3. w \in SUBSET D /\ IsFiniteSet(Units(u, w)) /\ u[x].count \in Nat /\ x \notin w
        BY <1>1, <3>2
      <3>4. Cardinality(Units(u, w \cup {x})) = u[x].count + Cardinality(Units(u, w))
        BY <3>3, UnitsGrow
      <3>5. w \cup {x} = s
        BY <3>1, <3>2
      <3>6. g[s] = u[x].count + g[w]
        BY <3>3, <3>4, <3>5
      <3> HIDE DEF g
      <3> QED
        BY <2>2, <3>1, <3>2, <3>6
    <2> QED
      BY <2>1, <2>2
  <1>3. g = [s \in SUBSET D |-> g[s]]
    OBVIOUS
  <1>4. SumsAll(g, u)
    <2> HIDE DEF g
    <2> QED
      BY <1>2, <1>3, Zenon DEF SumsAll
  <1>5. SumsAll(f, u)
    BY <1>4
  <1>6. Total(u) = f[D]
    BY Zenon DEF Total, MapThenSumSet, MapThenFoldSet, SumsAll, Taken
  <1> DEFINE B == {s \in SUBSET D : f[s] # g[s]}
  <1> HIDE DEF f, g
  <1>7. B = {}
    <2> SUFFICES ASSUME B # {}
                 PROVE  FALSE
      OBVIOUS
    <2>1. PICK s \in B : \A x \in s : s \ {x} \notin B
      BY SmallestSet, Zenon
    <2>2. s \in SUBSET D /\ f[s] # g[s]
      BY <2>1
    <2>3. CASE s = {}
      BY <1>2, <1>5, <2>2, <2>3, Zenon DEF SumsAll
    <2>4. CASE s # {}
      <3>1. PICK x \in s : x = Taken(s)
        BY <2>4, TakenIn
      <3>2. f[s \ {x}] = g[s \ {x}]
        BY <2>1, <2>2, <3>1
      <3>3. f[s] = u[x].count + f[s \ {x}]
        BY <1>5, <2>2, <2>4, <3>1, Zenon DEF SumsAll
      <3>4. g[s] = u[x].count + g[s \ {x}]
        BY <1>2, <2>2, <2>4, <3>1, Zenon
      <3> QED
        BY <2>2, <3>2, <3>3, <3>4
    <2> QED
      BY <2>3, <2>4
  <1>8. f[D] = g[D]
    BY <1>7
  <1>9. g[D] = Cardinality(Units(u, D))
    BY DEF g
  <1> QED
    BY <1>1, <1>6, <1>8, <1>9

\* A summary: rows of counts, within the limit, whose last place is kept for all further
\* methods.
UsageShape(u) ==
    /\ u = [m \in DOMAIN u |-> u[m]]
    /\ IsFiniteSet(DOMAIN u) /\ \A m \in DOMAIN u : u[m] \in Row
    /\ Cardinality(DOMAIN u) <= MethodLimit
    /\ Cardinality(DOMAIN u) = MethodLimit => OtherMethod \in DOMAIN u

\* What a summary says of a method, also of one it has no row for.
RowOf(u, m) == IF m \in DOMAIN u THEN u[m] ELSE NoUsage

Succeeded(row) == row.count - row.failed - row.interrupted

\* A finished command adds one to one row, and never a row beyond the limit.
LEMMA CountedIs ==
    ASSUME NEW u, UsageShape(u), NEW c, NEW r, NEW v, v = Counted(c, r, u),
           NEW m, m = RetainedMethod(c, u)
    PROVE  /\ UsageShape(v)
           /\ Total(v) = Total(u) + 1
           /\ m = c.method \/ m = OtherMethod
           /\ RowOf(v, m) = [count |-> RowOf(u, m).count + 1,
                             failed |-> RowOf(u, m).failed + (IF r = "failed" THEN 1 ELSE 0),
                             interrupted |-> RowOf(u, m).interrupted
                                             + (IF r = "interrupted" THEN 1 ELSE 0)]
           /\ \A k : k # m => RowOf(v, k) = RowOf(u, k)
           /\ \A k : RowOf(u, k) \in Row
  <1>1. PICK old : old = RowOf(u, m) /\ old \in Row
    <2>1. NoUsage \in Row
      BY DEF NoUsage, Row
    <2> QED
      BY <2>1 DEF RowOf, UsageShape
  <1>2. PICK new : /\ new = [count |-> old.count + 1,
                             failed |-> old.failed + (IF r = "failed" THEN 1 ELSE 0),
                             interrupted |-> old.interrupted
                                             + (IF r = "interrupted" THEN 1 ELSE 0)]
                   /\ new \in Row /\ new.count = old.count + 1
    <2>1. old.count \in Nat /\ old.failed \in Nat /\ old.interrupted \in Nat
      BY <1>1 DEF Row
    <2>2. PICK a \in Nat, b \in Nat :
             /\ a = old.failed + (IF r = "failed" THEN 1 ELSE 0)
             /\ b = old.interrupted + (IF r = "interrupted" THEN 1 ELSE 0)
      BY <2>1
    <2>3. old.count + 1 \in Nat
      BY <2>1
    <2>4. PICK new : new = [count |-> old.count + 1, failed |-> a, interrupted |-> b]
      OBVIOUS
    <2>5. new \in Row /\ new.count = old.count + 1
      BY <2>3, <2>4 DEF Row
    <2> QED
      BY <2>2, <2>4, <2>5
  <1>3. v = [k \in DOMAIN u \cup {m} |-> IF k = m THEN new ELSE u[k]]
    BY <1>1, <1>2 DEF Counted, RowOf
  <1>4. /\ DOMAIN v = DOMAIN u \cup {m} /\ v[m] = new
        /\ \A k \in DOMAIN v : k # m => v[k] = u[k]
        /\ v = [k \in DOMAIN v |-> v[k]]
    BY <1>3
  <1>5. \A k \in DOMAIN v : v[k] \in Row
    BY <1>2, <1>4 DEF UsageShape
  <1>6. /\ IsFiniteSet(DOMAIN v)
        /\ Cardinality(DOMAIN u) \in Nat
        /\ Cardinality(DOMAIN v) =
             IF m \in DOMAIN u THEN Cardinality(DOMAIN u) ELSE Cardinality(DOMAIN u) + 1
    BY <1>4, FS_AddElement, FS_CardinalityType DEF UsageShape
  <1>7. /\ Cardinality(DOMAIN v) <= MethodLimit
        /\ Cardinality(DOMAIN v) = MethodLimit => OtherMethod \in DOMAIN v
    <2>1. CASE m \in DOMAIN u
      BY <1>4, <1>6, <2>1 DEF UsageShape
    <2>2. CASE m \notin DOMAIN u /\ m = OtherMethod
      BY <1>4, <1>6, <2>2, LimitAssumption DEF UsageShape
    <2>3. CASE m \notin DOMAIN u /\ m # OtherMethod
      <3>1. Cardinality(DOMAIN u) < MethodLimit - 1
        BY <1>6, <2>3, LimitAssumption DEF RetainedMethod
      <3> QED
        BY <1>6, <2>3, <3>1, LimitAssumption
    <2> QED
      BY <2>1, <2>2, <2>3
  <1>8. UsageShape(v)
    BY <1>4, <1>5, <1>6, <1>7 DEF UsageShape
  <1>9. /\ \A k : k # m => RowOf(v, k) = RowOf(u, k)
        /\ RowOf(v, m) = new
    BY <1>4 DEF RowOf
  <1>10. Total(v) = Total(u) + 1
    <2>1. /\ IsFiniteSet(Units(u, DOMAIN u))
          /\ Total(u) = Cardinality(Units(u, DOMAIN u)) /\ Total(u) \in Nat
      BY TotalIs DEF UsageShape, Row
    <2>2. Total(v) = Cardinality(Units(v, DOMAIN v))
      BY <1>8, TotalIs DEF UsageShape, Row
    <2>3. PICK p : p = <<m, old.count + 1>>
      OBVIOUS
    <2>4. old.count \in Nat /\ (m \in DOMAIN u => u[m] = old) /\ (m \notin DOMAIN u => old.count = 0)
      BY <1>1 DEF RowOf, NoUsage, Row
    <2>5. p \notin Units(u, DOMAIN u)
      BY <2>3, <2>4 DEF Units
    <2>6. Units(v, DOMAIN v) = Units(u, DOMAIN u) \cup {p}
      <3>1. ASSUME NEW q \in Units(v, DOMAIN v)
            PROVE  q \in Units(u, DOMAIN u) \cup {p}
        <4>1. PICK k \in DOMAIN v, n \in Nat : q = <<k, n>> /\ 1 <= n /\ n <= v[k].count
          BY DEF Units
        <4>2. CASE k # m
          BY <1>4, <4>1, <4>2 DEF Units
        <4>3. CASE k = m
          <5>1. n = old.count + 1 \/ n <= old.count
            BY <1>2, <1>4, <2>4, <4>1, <4>3
          <5>2. CASE n = old.count + 1
            BY <2>3, <4>1, <4>3, <5>2
          <5>3. CASE n <= old.count
            BY <2>4, <4>1, <4>3, <5>3 DEF Units
          <5> QED
            BY <5>1, <5>2, <5>3
        <4> QED
          BY <4>2, <4>3
      <3>2. p \in Units(v, DOMAIN v)
        BY <1>2, <1>4, <2>3, <2>4 DEF Units
      <3>3. ASSUME NEW q \in Units(u, DOMAIN u)
            PROVE  q \in Units(v, DOMAIN v)
        <4>1. PICK k \in DOMAIN u, n \in Nat : q = <<k, n>> /\ 1 <= n /\ n <= u[k].count
          BY DEF Units
        <4>2. k \in DOMAIN v /\ n <= v[k].count
          BY <1>2, <1>4, <2>4, <4>1
        <4> QED
          BY <4>1, <4>2 DEF Units
      <3> QED
        BY <3>1, <3>2, <3>3
    <2>7. Cardinality(Units(u, DOMAIN u) \cup {p}) = Cardinality(Units(u, DOMAIN u)) + 1
      BY <2>1, <2>5, FS_AddElement
    <2> QED
      BY <2>1, <2>2, <2>6, <2>7
  <1>11. m = c.method \/ m = OtherMethod
    BY DEF RetainedMethod
  <1>12. \A k : RowOf(u, k) \in Row
    BY DEF RowOf, NoUsage, Row, UsageShape
  <1> QED
    BY <1>1, <1>2, <1>8, <1>9, <1>10, <1>11, <1>12

\* Commands that are interrupted add to the total and answer for nothing.
LEMMA InterruptedAre ==
    ASSUME NEW S, IsFiniteSet(S), UsageShape(usage), Finish(S, "interrupted")
    PROVE  /\ UsageShape(usage')
           /\ Total(usage') = Total(usage) + Cardinality(S)
           /\ \A k : /\ RowOf(usage', k).failed = RowOf(usage, k).failed
                     /\ Succeeded(RowOf(usage', k)) = Succeeded(RowOf(usage, k))
  <1>1. PICK f : CountsAll(f, S, usage, "interrupted") /\ usage' = f[S]
    BY FinishCounts
  <1> DEFINE good(s) ==
        /\ UsageShape(f[s])
        /\ Total(f[s]) = Total(usage) + Cardinality(s)
        /\ \A k : /\ RowOf(f[s], k).failed = RowOf(usage, k).failed
                  /\ Succeeded(RowOf(f[s], k)) = Succeeded(RowOf(usage, k))
             B == {s \in SUBSET S : ~good(s)}
  <1>2. Total(usage) \in Nat
    BY TotalIs DEF UsageShape, Row
  <1>3. B = {}
    <2> SUFFICES ASSUME B # {}
                 PROVE  FALSE
      OBVIOUS
    <2>1. B \in SUBSET (SUBSET S)
      OBVIOUS
    <2>2. PICK s \in B : \A x \in s : s \ {x} \notin B
      BY <2>1, SmallestSet, Zenon
    <2>3. s \in SUBSET S /\ ~good(s)
      BY <2>2
    <2>4. CASE s = {}
      <3>1. f[s] = usage
        BY <1>1, <2>3, <2>4, Zenon DEF CountsAll
      <3>2. Cardinality(s) = 0
        BY <2>4, FS_EmptySet
      <3>3. good(s)
        BY <1>2, <3>1, <3>2
      <3> QED
        BY <2>3, <3>3
    <2>5. CASE s # {}
      <3>1. PICK c \in s : c = Taken(s)
        BY <2>5, TakenIn
      <3>2. PICK w : w = s \ {c} /\ w \in SUBSET S /\ good(w)
        BY <2>2, <2>3, <3>1
      <3>3. f[s] = Counted(c, "interrupted", f[w])
        BY <1>1, <2>3, <2>5, <3>1, <3>2, Zenon DEF CountsAll
      <3>4. PICK u, m : u = f[w] /\ m = RetainedMethod(c, u) /\ UsageShape(u)
        BY <3>2
      <3>5. PICK v : v = f[s] /\ v = Counted(c, "interrupted", u)
        BY <3>3, <3>4
      <3>6. /\ UsageShape(v)
            /\ Total(v) = Total(u) + 1
            /\ RowOf(v, m) = [count |-> RowOf(u, m).count + 1,
                              failed |-> RowOf(u, m).failed + 0,
                              interrupted |-> RowOf(u, m).interrupted + 1]
            /\ \A k : k # m => RowOf(v, k) = RowOf(u, k)
            /\ \A k : RowOf(u, k) \in Row
        BY <3>4, <3>5, CountedIs
      <3>7. \A k : /\ RowOf(v, k).failed = RowOf(u, k).failed
                   /\ Succeeded(RowOf(v, k)) = Succeeded(RowOf(u, k))
        <4>1. /\ RowOf(v, m).failed = RowOf(u, m).failed
              /\ Succeeded(RowOf(v, m)) = Succeeded(RowOf(u, m))
          BY <3>6 DEF Row, Succeeded
        <4> QED
          BY <3>6, <4>1
      <3>8. IsFiniteSet(w) /\ Cardinality(w) \in Nat /\ Cardinality(s) = Cardinality(w) + 1
        <4>1. IsFiniteSet(w) /\ Cardinality(w) \in Nat
          BY <3>2, FS_Subset, FS_CardinalityType
        <4>2. Cardinality(w \cup {c}) = Cardinality(w) + 1
          BY <3>2, <4>1, FS_AddElement
        <4>3. w \cup {c} = s
          BY <3>1, <3>2
        <4> QED
          BY <4>1, <4>2, <4>3
      <3>9. Total(v) = Total(usage) + Cardinality(s)
        <4>1. Total(u) = Total(usage) + Cardinality(w) /\ Total(v) = Total(u) + 1
          BY <3>2, <3>4, <3>6
        <4>2. Total(v) = Total(usage) + (Cardinality(w) + 1)
          BY <1>2, <3>8, <4>1
        <4> QED
          BY <3>8, <4>2
      <3>10. good(s)
        BY <3>2, <3>4, <3>5, <3>6, <3>7, <3>9
      <3> QED
        BY <2>3, <3>10
    <2> QED
      BY <2>4, <2>5
  <1>4. good(S)
    BY <1>3
  <1> QED
    BY <1>1, <1>4

\* Finishing no command counts nothing.
LEMMA FinishNone ==
    ASSUME NEW r, Finish({}, r)
    PROVE  usage' = usage
  <1>1. PICK f : CountsAll(f, {}, usage, r) /\ usage' = f[{}]
    BY FinishCounts, FS_EmptySet
  <1> QED
    BY <1>1, Zenon DEF CountsAll

\* Finishing one command counts that command.
LEMMA FinishOne ==
    ASSUME NEW r, NEW c, Finish({c}, r)
    PROVE  usage' = Counted(c, r, usage)
  <1>1. PICK S : S = {c} /\ IsFiniteSet(S)
    BY FS_Singleton
  <1>2. PICK f : CountsAll(f, S, usage, r) /\ usage' = f[S]
    BY <1>1, FinishCounts
  <1>3. Taken(S) = c /\ S \ {c} = {} /\ S # {}
    BY <1>1, TakenIn
  <1>4. f[{}] = usage
    BY <1>2, Zenon DEF CountsAll
  <1>5. f[S] = Counted(Taken(S), r, f[S \ {Taken(S)}])
    BY <1>2, <1>3, Zenon DEF CountsAll
  <1> QED
    BY <1>2, <1>3, <1>4, <1>5
--------------------------------------------------------------------------
(* Sequences of messages, and the answers in them *)

\* m is one of the messages s.
Among(s, m) == \E i \in 1..Len(s) : s[i] = m

\* Where a message goes when its sequence grows, loses its head or is put after another.
LEMMA AmongAppend ==
    ASSUME NEW s, NEW e, IsASeq(s)
    PROVE  \A m : Among(Append(s, e), m) <=> Among(s, m) \/ m = e
  <1>1. /\ Len(s) \in Nat
        /\ Len(Append(s, e)) = Len(s) + 1
        /\ \A i \in 1..Len(s) : Append(s, e)[i] = s[i]
        /\ Append(s, e)[Len(s) + 1] = e
    BY AppendIs
  <1>2. PICK r : r = Append(s, e)
    OBVIOUS
  <1>3. \A i : i \in 1..Len(r) <=> i \in 1..Len(s) \/ i = Len(s) + 1
    BY <1>1, <1>2
  <1>4. \A m : Among(r, m) <=> Among(s, m) \/ m = e
    BY <1>1, <1>2, <1>3 DEF Among
  <1> QED
    BY <1>2, <1>4

\* A sequence without its head has no message more, and the head was one of them.
LEMMA AmongTail ==
    ASSUME NEW s, IsASeq(s), s # <<>>
    PROVE  /\ \A m : Among(Tail(s), m) => Among(s, m)
           /\ Among(s, Head(s))
  <1>1. /\ Len(s) \in Nat \ {0}
        /\ \A i \in 1..Len(Tail(s)) : i + 1 \in 2..Len(s) /\ Tail(s)[i] = s[i + 1]
        /\ Head(s) = s[1]
    BY TailIs
  <1>2. \A i \in 1..Len(Tail(s)) : i + 1 \in 1..Len(s)
    BY <1>1
  <1>3. 1 \in 1..Len(s)
    BY <1>1
  <1> QED
    BY <1>1, <1>2, <1>3 DEF Among

\* What is in one sequence after another is in either.
LEMMA AmongConcat ==
    ASSUME NEW s, NEW r, IsASeq(s), IsASeq(r)
    PROVE  \A m : Among(s \o r, m) => Among(s, m) \/ Among(r, m)
  <1>1. \A i \in 1..Len(s \o r) :
            \/ i \in 1..Len(s) /\ (s \o r)[i] = s[i]
            \/ \E j \in 1..Len(r) : (s \o r)[i] = r[j]
    BY ConcatIs
  <1> QED
    BY <1>1 DEF Among

\* Among s is an answer to c, and no other answer to the same command.
AnswerIn(s, c) == \E m : Among(s, m) /\ m.kind = "response" /\ m.to = c

AnswersOnce(s) ==
    \A i, j \in 1..Len(s) :
        i # j /\ s[i].kind = "response" /\ s[j].kind = "response" => s[i].to # s[j].to

\* A message that answers no command already answered in s may follow s.
LEMMA OnceAppend ==
    ASSUME NEW s, NEW e, IsASeq(s), AnswersOnce(s),
           e.kind = "response" => ~AnswerIn(s, e.to)
    PROVE  AnswersOnce(Append(s, e))
  <1>1. /\ Len(s) \in Nat
        /\ Len(Append(s, e)) = Len(s) + 1
        /\ \A i \in 1..Len(s) : Append(s, e)[i] = s[i]
        /\ Append(s, e)[Len(s) + 1] = e
    BY AppendIs
  <1>2. PICK r : r = Append(s, e)
    OBVIOUS
  <1>3. \A i : i \in 1..Len(r) <=> i \in 1..Len(s) \/ i = Len(s) + 1
    BY <1>1, <1>2
  <1>4. \A i \in 1..Len(s) : s[i].kind = "response" /\ e.kind = "response" => s[i].to # e.to
    BY DEF AnswerIn, Among
  <1>5. AnswersOnce(r)
    BY <1>1, <1>2, <1>3, <1>4 DEF AnswersOnce
  <1> QED
    BY <1>2, <1>5

\* The head's command has no other answer in the rest.
LEMMA OnceTail ==
    ASSUME NEW s, IsASeq(s), s # <<>>, AnswersOnce(s)
    PROVE  /\ AnswersOnce(Tail(s))
           /\ Head(s).kind = "response" => ~AnswerIn(Tail(s), Head(s).to)
  <1>1. /\ Len(s) \in Nat \ {0}
        /\ Len(Tail(s)) = Len(s) - 1
        /\ \A i \in 1..Len(Tail(s)) : i + 1 \in 2..Len(s) /\ Tail(s)[i] = s[i + 1]
        /\ Head(s) = s[1]
    BY TailIs
  <1>2. \A i \in 1..Len(Tail(s)) : /\ i + 1 \in 1..Len(s) /\ i + 1 # 1
                                   /\ \A j \in 1..Len(Tail(s)) : i # j => i + 1 # j + 1
    BY <1>1
  <1>3. 1 \in 1..Len(s)
    BY <1>1
  <1>4. AnswersOnce(Tail(s))
    BY <1>1, <1>2 DEF AnswersOnce
  <1>5. Head(s).kind = "response" => ~AnswerIn(Tail(s), Head(s).to)
    BY <1>1, <1>2, <1>3 DEF AnswersOnce, AnswerIn, Among
  <1> QED
    BY <1>4, <1>5

\* Two sequences that answer different commands may follow each other.
LEMMA OnceConcat ==
    ASSUME NEW s, NEW r, IsASeq(s), IsASeq(r), AnswersOnce(s), AnswersOnce(r),
           \A c : AnswerIn(s, c) => ~AnswerIn(r, c)
    PROVE  AnswersOnce(s \o r)
  <1>1. PICK S : s \in Seq(S)
    BY DEF IsASeq
  <1>2. PICK T : r \in Seq(T)
    BY DEF IsASeq
  <1>3. PICK U : s \in Seq(U) /\ r \in Seq(U)
    <2>1. s \in Seq(S \cup T) /\ r \in Seq(S \cup T)
      BY <1>1, <1>2
    <2> QED
      BY <2>1
  <1>4. PICK a \in Nat, b \in Nat : a = Len(s) /\ b = Len(r)
    BY <1>3
  <1>5. PICK q : q = s \o r
    OBVIOUS
  <1>6. /\ Len(q) = a + b
        /\ \A i \in 1..a : q[i] = s[i]
        /\ \A i \in (a + 1)..(a + b) : q[i] = r[i - a] /\ i - a \in 1..b
    BY <1>3, <1>4, <1>5
  <1>7. \A i \in 1..a, j \in 1..b :
            s[i].kind = "response" /\ r[j].kind = "response" => s[i].to # r[j].to
    BY <1>4 DEF AnswerIn, Among
  <1>8. \A i \in 1..Len(q) : i \in 1..a \/ i \in (a + 1)..(a + b)
    BY <1>6
  <1>9. ASSUME NEW i \in 1..Len(q), NEW j \in 1..Len(q), i # j,
               q[i].kind = "response", q[j].kind = "response"
        PROVE  q[i].to # q[j].to
    <2>1. CASE i \in 1..a /\ j \in 1..a
      BY <1>4, <1>6, <1>9, <2>1 DEF AnswersOnce
    <2>2. CASE i \in 1..a /\ j \in (a + 1)..(a + b)
      BY <1>6, <1>7, <1>9, <2>2
    <2>3. CASE i \in (a + 1)..(a + b) /\ j \in 1..a
      BY <1>6, <1>7, <1>9, <2>3
    <2>4. CASE i \in (a + 1)..(a + b) /\ j \in (a + 1)..(a + b)
      <3>1. i - a # j - a /\ i - a \in 1..b /\ j - a \in 1..b
        BY <1>6, <1>9, <2>4
      <3>2. q[i] = r[i - a] /\ q[j] = r[j - a]
        BY <1>6, <2>4
      <3> QED
        BY <1>4, <1>9, <3>1, <3>2 DEF AnswersOnce
    <2> QED
      BY <1>8, <2>1, <2>2, <2>3, <2>4
  <1>10. AnswersOnce(q)
    BY <1>9 DEF AnswersOnce
  <1> QED
    BY <1>5, <1>10

\* The empty sequence, and a sequence of one message.
LEMMA NothingIn ==
    /\ AnswersOnce(<<>>) /\ \A m : ~Among(<<>>, m)
    /\ \A e : AnswersOnce(<<e>>) /\ \A m : Among(<<e>>, m) <=> m = e
  <1>1. AnswersOnce(<<>>) /\ \A m : ~Among(<<>>, m)
    BY EmptyIs DEF AnswersOnce, Among
  <1>2. ASSUME NEW e
        PROVE  AnswersOnce(<<e>>) /\ \A m : Among(<<e>>, m) <=> m = e
    <2>1. PICK s : s = <<e>>
      OBVIOUS
    <2>2. Len(s) = 1 /\ s[1] = e
      BY <2>1, SingletonIs
    <2>3. \A i : i \in 1..Len(s) <=> i = 1
      BY <2>2
    <2>4. AnswersOnce(s) /\ \A m : Among(s, m) <=> m = e
      BY <2>2, <2>3 DEF AnswersOnce, Among
    <2> QED
      BY <2>1, <2>4
  <1> QED
    BY <1>1, <1>2

--------------------------------------------------------------------------
(* The strengthened invariant of the summary *)

\* The answer to c has left the wire and not reached the relay.
Passed(c) == AnswerIn(messages, c) \/ \E t \in Targets : AnswerIn(buffers[t], c)

\* An answer is in one place only, and its command is nowhere any more.
OnwardInv ==
    /\ AnswersOnce(messages)
    /\ \A t \in Targets : AnswersOnce(buffers[t])
    /\ \A c : Passed(c) => ~InFlight(c) /\ ~(InHand /\ c = inHand)
    /\ \A c : \A t \in Targets : AnswerIn(buffers[t], c) =>
            ~AnswerIn(messages, c) /\ \A s \in Targets \ {t} : ~AnswerIn(buffers[s], c)

\* An answer to the client says what the browser said, and its command is still pending.
Honest(m) ==
    m.kind = "response" /\ m.to \in issued =>
        /\ m.id = m.to.id /\ m.session \in {m.to.session, Browser}
        /\ m.ok \in BOOLEAN /\ <<m.to, m.ok>> \in verdicts
        /\ relay # "ended" => m.to \in pending

Travels(m) ==
    \/ Among(wire, m) \/ Among(messages, m)
    \/ \E t \in Targets : Among(buffers[t], m)

HonestInv == \A m : Travels(m) => Honest(m)

\* What is pending, and which commands have not been answered.
PendingInv ==
    /\ pending \subseteq observed /\ observed \subseteq issued
    /\ relay = "ended" => pending = {} /\ ~DownRunning /\ upEnd # "running"
    /\ relay # "ended" => held \cap issued \subseteq pending
    /\ down = "observing" => inHand \notin observed
    /\ down = "sending" => inHand \in pending
    /\ IsFiniteSet(verdicts)
    /\ \A v \in verdicts : v[1] \in Commands => v[1] \in issued
    /\ InHand => \A v \in verdicts : v[1] # inHand

\* The browser's answers to commands of a method that are pending no more.
Charged(m, ok) == {v \in verdicts : v[1].method = m /\ v[2] = ok /\ v[1] \notin pending}

CountInv ==
    /\ UsageShape(usage)
    /\ Total(usage) + Cardinality(pending) = Cardinality(observed)
    /\ active = Cardinality(pending)
    /\ \A m : m # OtherMethod =>
        /\ RowOf(usage, m).failed <= Cardinality(Charged(m, FALSE))
        /\ Succeeded(RowOf(usage, m)) <= Cardinality(Charged(m, TRUE))

Ledger == OnwardInv /\ HonestInv /\ PendingInv /\ CountInv

\* The verdicts that count for a method only become more, and are finitely many.
LEMMA ChargedGrows ==
    ASSUME PendingInv, PendingInv', verdicts \subseteq verdicts', NEW m, NEW ok,
           \A v \in verdicts : v[1] \notin pending => v[1] \notin pending'
    PROVE  /\ Cardinality(Charged(m, ok)) \in Nat /\ Cardinality(Charged(m, ok)') \in Nat
           /\ Cardinality(Charged(m, ok)) <= Cardinality(Charged(m, ok)')
  <1>1. IsFiniteSet(verdicts) /\ IsFiniteSet(verdicts')
    BY DEF PendingInv
  <1>2. Charged(m, ok) \in SUBSET verdicts /\ Charged(m, ok)' \in SUBSET verdicts'
    BY DEF Charged
  <1>3. Charged(m, ok) \in SUBSET (Charged(m, ok)')
    BY DEF Charged
  <1>4. IsFiniteSet(Charged(m, ok)) /\ IsFiniteSet(Charged(m, ok)')
    BY <1>1, <1>2, FS_Subset
  <1>5. PICK a, b : a = Charged(m, ok) /\ b = Charged(m, ok)'
    OBVIOUS
  <1>6. IsFiniteSet(a) /\ IsFiniteSet(b) /\ a \in SUBSET b
    BY <1>3, <1>4, <1>5
  <1>7. Cardinality(a) \in Nat /\ Cardinality(b) \in Nat /\ Cardinality(a) <= Cardinality(b)
    BY <1>6, FS_CardinalityType, FS_Subset
  <1> QED
    BY <1>5, <1>7

\* The rows of a summary hold numbers.
LEMMA RowsAre ==
    ASSUME NEW u, UsageShape(u), NEW k
    PROVE  RowOf(u, k) \in Row /\ RowOf(u, k).failed \in Nat /\ Succeeded(RowOf(u, k)) \in Int
  <1>1. RowOf(u, k) \in Row
    BY DEF RowOf, NoUsage, Row, UsageShape
  <1>2. PICK row : row = RowOf(u, k) /\ row \in Row
    BY <1>1
  <1>3. row.failed \in Nat /\ Succeeded(row) \in Int
    BY <1>2 DEF Row, Succeeded
  <1> QED
    BY <1>2, <1>3

\* Steps that neither start nor finish a command.
LEMMA CountKeeps ==
    ASSUME CountInv, PendingInv, PendingInv', UNCHANGED <<usage, pending, observed, active>>,
           verdicts \subseteq verdicts'
    PROVE  CountInv'
  <1>1. ASSUME NEW m, NEW ok
        PROVE  /\ Cardinality(Charged(m, ok)) \in Nat /\ Cardinality(Charged(m, ok)') \in Nat
               /\ Cardinality(Charged(m, ok)) <= Cardinality(Charged(m, ok)')
    BY ChargedGrows
  <1>2. ASSUME NEW m, m # OtherMethod
        PROVE  /\ RowOf(usage, m).failed <= Cardinality(Charged(m, FALSE)')
               /\ Succeeded(RowOf(usage, m)) <= Cardinality(Charged(m, TRUE)')
    <2>1. RowOf(usage, m).failed \in Nat /\ Succeeded(RowOf(usage, m)) \in Int
      BY RowsAre DEF CountInv
    <2>2. /\ RowOf(usage, m).failed <= Cardinality(Charged(m, FALSE))
          /\ Succeeded(RowOf(usage, m)) <= Cardinality(Charged(m, TRUE))
      BY <1>2 DEF CountInv
    <2>3. PICK a, b, c, d : /\ a = Cardinality(Charged(m, FALSE)) /\ b = Cardinality(Charged(m, TRUE))
                            /\ c = Cardinality(Charged(m, FALSE)') /\ d = Cardinality(Charged(m, TRUE)')
      OBVIOUS
    <2>4. a \in Nat /\ b \in Nat /\ c \in Nat /\ d \in Nat /\ a <= c /\ b <= d
      BY <1>1, <2>3
    <2>5. PICK e \in Nat, f \in Int : e = RowOf(usage, m).failed /\ f = Succeeded(RowOf(usage, m))
      BY <2>1
    <2>6. e <= a /\ f <= b
      BY <2>2, <2>3, <2>5
    <2>7. e <= c /\ f <= d
      BY <2>4, <2>6
    <2> QED
      BY <2>3, <2>5, <2>7
  <1>3. /\ UsageShape(usage')
        /\ Total(usage') + Cardinality(pending') = Cardinality(observed')
        /\ active' = Cardinality(pending')
    BY DEF CountInv
  <1>4. \A m : m # OtherMethod =>
            /\ RowOf(usage', m).failed <= Cardinality(Charged(m, FALSE)')
            /\ Succeeded(RowOf(usage', m)) <= Cardinality(Charged(m, TRUE)')
    BY <1>2
  <1> QED
    BY <1>3, <1>4 DEF CountInv, Charged

\* Steps that move no message and take no command in hand.
LEMMA OnwardKeeps ==
    ASSUME OnwardInv, UNCHANGED <<messages, buffers>>,
           \A c : InFlight(c)' => InFlight(c) \/ ~Passed(c),
           InHand' => InHand /\ inHand' = inHand
    PROVE  OnwardInv'
  <1>1. \A c : Passed(c)' <=> Passed(c)
    BY DEF Passed
  <1>2. \A c : Passed(c)' => ~InFlight(c)' /\ ~(InHand' /\ c = inHand')
    BY <1>1 DEF OnwardInv
  <1> QED
    BY <1>2 DEF OnwardInv, InFlight, Passed, InHand

\* Steps that start commands, and pass on nothing that is not honest.
LEMMA HonestKeeps ==
    ASSUME HonestInv, UNCHANGED issued, verdicts \subseteq verdicts', pending \subseteq pending',
           relay' # "ended" => relay # "ended",
           \A m : Travels(m)' => Travels(m) \/ Honest(m)'
    PROVE  HonestInv'
  <1>1. \A m : Honest(m) => Honest(m)'
    BY DEF Honest
  <1> QED
    BY <1>1 DEF HonestInv

\* Steps that finish no command.
LEMMA PendingKeeps ==
    ASSUME PendingInv, UNCHANGED <<pending, observed, issued, upEnd, verdicts>>,
           (relay' = "ended") <=> (relay = "ended"),
           held' \cap issued \subseteq held \cup pending,
           \/ down' = down /\ inHand' = inHand
           \/ down' \notin {"observing", "sending"} /\ (DownRunning' => DownRunning)
    PROVE  PendingInv'
  BY DEF PendingInv, InHand, DownRunning

\* Steps that leave the messages and the commands where they are.
LedgerKeeps ==
    /\ UNCHANGED <<wire, messages, buffers, held, verdicts, issued, observed, pending, active,
                   usage, upEnd, inHand>>
    /\ (relay' = "ended") <=> (relay = "ended")
    /\ down' = down \/ ~DownRunning'

\* Such a step leaves the accounts as they are.
LEMMA LedgerQuiet ==
    ASSUME Ledger, LedgerKeeps
    PROVE  Ledger'
  <1> USE DEF Ledger, LedgerKeeps
  <1>1. OnwardInv'
    <2>1. \A c : InFlight(c)' <=> InFlight(c)
      BY DEF InFlight
    <2>2. InHand' => InHand
      BY DEF InHand, DownRunning
    <2> QED
      BY <2>1, <2>2, OnwardKeeps
  <1>2. HonestInv'
    <2>1. \A m : Travels(m)' <=> Travels(m)
      BY DEF Travels
    <2> QED
      BY <2>1, HonestKeeps
  <1>3. PendingInv'
    BY PendingKeeps DEF DownRunning
  <1>4. CountInv'
    BY <1>3, CountKeeps
  <1> QED
    BY <1>1, <1>2, <1>3, <1>4
--------------------------------------------------------------------------
(* The summary and the wrapper's steps *)

\* The wrapper passes on answers to the client's commands only.
LEMMA PassedIssued ==
    ASSUME Inv, NEW c, Passed(c)
    PROVE  c \in issued
  BY DEF Inv, ClientInv, Exposable, Passed, AnswerIn, Among

\* What is in flight, in terms of the messages on the wire.
LEMMA InFlightIs ==
    /\ \A c : InFlight(c) <=> c \in held \/ AnswerIn(wire, c)
    /\ \A c : InFlight(c)' <=> c \in held' \/ AnswerIn(wire', c)
  BY DEF InFlight, AnswerIn, Among

\* A step of the wrapper, once what it does to the messages is known.
LEMMA WrapperKeeps ==
    ASSUME Inv, Ledger, UNCHANGED relayVars, UNCHANGED verdicts, held' \subseteq held \cup Own,
           OnwardInv', \A m : Travels(m)' => Travels(m) \/ m.kind # "response"
    PROVE  Ledger'
  <1> USE DEF Ledger
  <1>1. UNCHANGED <<relay, down, upEnd, inHand, issued, observed, pending, active, usage>>
    BY DEF relayVars
  <1>2. HonestInv'
    <2>1. \A m : m.kind # "response" => Honest(m)'
      BY DEF Honest
    <2> QED
      BY <1>1, <2>1, HonestKeeps
  <1>3. PendingInv'
    <2>1. held' \cap issued \subseteq held \cup pending
      BY OwnCommands DEF Inv, ShapeInv
    <2> QED
      BY <1>1, <2>1, PendingKeeps
  <1>4. CountInv'
    BY <1>1, <1>3, CountKeeps
  <1> QED
    BY <1>2, <1>3, <1>4

\* Steps of the wrapper that move no message.
LEMMA WrapperQuiet ==
    ASSUME Inv, Ledger, UNCHANGED relayVars, UNCHANGED <<verdicts, wire, messages, buffers>>,
           held' \subseteq held \cup Own
    PROVE  Ledger'
  <1>1. UNCHANGED <<down, inHand>>
    BY DEF relayVars
  <1>2. \A c \in Own : ~Passed(c)
    BY PassedIssued, OwnCommands DEF Inv, ShapeInv
  <1>3. \A c : InFlight(c)' => InFlight(c) \/ ~Passed(c)
    BY <1>2 DEF InFlight
  <1>4. OnwardInv'
    BY <1>1, <1>3, OnwardKeeps DEF Ledger, InHand
  <1>5. \A m : Travels(m)' <=> Travels(m)
    BY DEF Travels
  <1> QED
    BY <1>4, <1>5, WrapperKeeps

\* The pump routes one message.
LEMMA RouteLedger ==
    ASSUME Inv, Ledger, RouteUpstreamMessage, UNCHANGED relayVars
    PROVE  Ledger'
  <1>1. PICK m : m = Head(wire)
    OBVIOUS
  <1>2. /\ wire # <<>> /\ wire' = Tail(wire) /\ IsASeq(wire)
        /\ UNCHANGED <<held, verdicts, down, inHand>>
    BY DEF RouteUpstreamMessage, browserVars, relayVars, Inv, ShapeInv
  <1>3. Among(wire, m) /\ \A x : Among(wire', x) => Among(wire, x)
    BY <1>1, <1>2, AmongTail
  <1>4. m.kind = "response" => m.to \notin held
    BY <1>3 DEF Inv, WireInv, Answers, Among
  <1>5. m.kind = "response" => InFlight(m.to) /\ ~InFlight(m.to)'
    <2>1. AnswersOnce(wire)
      BY DEF Inv, OnceInv, AnswersOnce
    <2>2. m.kind = "response" => ~AnswerIn(wire', m.to)
      BY <1>1, <1>2, <2>1, OnceTail
    <2>3. m.kind = "response" => AnswerIn(wire, m.to)
      BY <1>3 DEF AnswerIn
    <2> QED
      BY <1>2, <1>4, <2>2, <2>3, InFlightIs
  <1>6. \A c : InFlight(c)' => InFlight(c)
    BY <1>2, <1>3, InFlightIs DEF AnswerIn
  <1>7. m.kind = "response" => ~Passed(m.to) /\ ~(InHand /\ m.to = inHand)
    <2>1. InHand => ~InFlight(inHand)
      BY DEF Inv, OnceInv
    <2>2. ASSUME InHand, m.to = inHand, m.kind = "response"
          PROVE  FALSE
      BY <1>5, <2>1, <2>2 DEF InFlight
    <2> QED
      BY <1>5, <2>2 DEF Ledger, OnwardInv
  <1>8. InHand' <=> InHand
    BY <1>2 DEF InHand
  <1>b. /\ buffers = [t \in Targets |-> buffers[t]] /\ \A t \in Targets : IsASeq(buffers[t])
        /\ IsASeq(messages)
    BY DEF Inv, ShapeInv
  <1>9. CASE UNCHANGED <<buffers, messages>>
    <2>1. OnwardInv'
      BY <1>2, <1>6, <1>8, <1>9, OnwardKeeps DEF Ledger
    <2>2. \A x : Travels(x)' => Travels(x)
      BY <1>3, <1>9 DEF Travels
    <2> QED
      BY <1>2, <2>1, <2>2, WrapperKeeps
  <1>10. ASSUME m.kind = "attached", BeginTargetConfiguration(m)
         PROVE  Ledger'
    <2>1. PICK t : t = m.names /\ t \in Targets
      BY <1>3, <1>10 DEF Inv, ShapeInv, WireInv, Announces, Among
    <2>2. messages' = messages /\ buffers' = [buffers EXCEPT ![t] = <<m>>]
      BY <1>10, <2>1 DEF BeginTargetConfiguration
    <2>3. PICK one : one = <<m>> /\ AnswersOnce(one) /\ \A x : Among(one, x) <=> x = m
      BY NothingIn
    <2>4. buffers'[t] = one /\ \A s \in Targets : s # t => buffers'[s] = buffers[s]
      BY <1>b, <2>1, <2>2, <2>3
    <2>5. \A c : ~AnswerIn(one, c)
      BY <1>10, <2>3 DEF AnswerIn
    <2>6. \A c : Passed(c)' => Passed(c)
      BY <2>2, <2>4, <2>5 DEF Passed
    <2>7. OnwardInv'
      <3>1. AnswersOnce(messages') /\ \A s \in Targets : AnswersOnce(buffers'[s])
        BY <2>2, <2>3, <2>4 DEF Ledger, OnwardInv
      <3>2. \A c : Passed(c)' => ~InFlight(c)' /\ ~(InHand' /\ c = inHand')
        BY <1>2, <1>6, <1>8, <2>6 DEF Ledger, OnwardInv
      <3>3. ASSUME NEW c, NEW r \in Targets, AnswerIn(buffers'[r], c)
            PROVE  ~AnswerIn(messages', c) /\ \A s \in Targets \ {r} : ~AnswerIn(buffers'[s], c)
        <4>1. r # t /\ AnswerIn(buffers[r], c)
          BY <2>4, <2>5, <3>3
        <4> QED
          BY <2>2, <2>4, <2>5, <4>1 DEF Ledger, OnwardInv
      <3> QED
        BY <3>1, <3>2, <3>3 DEF OnwardInv, InFlight, InHand, Passed
    <2>8. \A x : Travels(x)' => Travels(x) \/ x.kind # "response"
      <3>1. ASSUME NEW x, NEW s \in Targets, Among(buffers'[s], x)
            PROVE  Among(buffers[s], x) \/ x = m
        BY <2>3, <2>4, <3>1
      <3> QED
        BY <1>3, <1>10, <2>2, <3>1 DEF Travels
    <2> QED
      BY <1>2, <2>7, <2>8, WrapperKeeps
  <1>11. ASSUME NEW t \in Targets, buffers' = [buffers EXCEPT ![t] = Append(@, m)],
                messages' = messages
         PROVE  Ledger'
    <2>1. PICK more : more = Append(buffers[t], m)
      OBVIOUS
    <2>2. buffers'[t] = more /\ \A s \in Targets : s # t => buffers'[s] = buffers[s]
      BY <1>b, <1>11, <2>1
    <2>3. \A x : Among(more, x) <=> Among(buffers[t], x) \/ x = m
      BY <1>b, <2>1, AmongAppend
    <2>4. \A c : AnswerIn(more, c) <=> AnswerIn(buffers[t], c) \/ (m.kind = "response" /\ m.to = c)
      BY <2>3 DEF AnswerIn
    <2>5. \A c : Passed(c)' => Passed(c) \/ (m.kind = "response" /\ m.to = c)
      BY <1>11, <2>2, <2>4 DEF Passed
    <2>6. AnswersOnce(more)
      <3>1. m.kind = "response" => ~AnswerIn(buffers[t], m.to)
        BY <1>7 DEF Passed
      <3> QED
        BY <1>b, <2>1, <3>1, OnceAppend DEF Ledger, OnwardInv
    <2>7. OnwardInv'
      <3>1. AnswersOnce(messages') /\ \A s \in Targets : AnswersOnce(buffers'[s])
        BY <1>11, <2>2, <2>6 DEF Ledger, OnwardInv
      <3>2. \A c : Passed(c)' => ~InFlight(c)' /\ ~(InHand' /\ c = inHand')
        BY <1>2, <1>5, <1>6, <1>7, <1>8, <2>5 DEF Ledger, OnwardInv
      <3>3. ASSUME NEW c, NEW r \in Targets, AnswerIn(buffers'[r], c)
            PROVE  ~AnswerIn(messages', c) /\ \A s \in Targets \ {r} : ~AnswerIn(buffers'[s], c)
        <4>1. CASE m.kind = "response" /\ m.to = c
          <5>1. ~AnswerIn(messages, c) /\ \A s \in Targets : ~AnswerIn(buffers[s], c)
            BY <1>7, <4>1 DEF Passed
          <5>2. r = t
            BY <2>2, <3>3, <5>1
          <5> QED
            BY <1>11, <2>2, <5>1, <5>2
        <4>2. CASE ~(m.kind = "response" /\ m.to = c)
          <5>1. \A s \in Targets : AnswerIn(buffers'[s], c) => AnswerIn(buffers[s], c)
            BY <2>2, <2>4, <4>2
          <5> QED
            BY <1>11, <3>3, <5>1 DEF Ledger, OnwardInv
        <4> QED
          BY <4>1, <4>2
      <3> QED
        BY <3>1, <3>2, <3>3 DEF OnwardInv, InFlight, InHand, Passed
    <2>8. \A x : Travels(x)' => Travels(x)
      <3>1. ASSUME NEW x, NEW s \in Targets, Among(buffers'[s], x)
            PROVE  Among(buffers[s], x) \/ x = m
        BY <2>2, <2>3, <3>1
      <3> QED
        BY <1>3, <1>11, <3>1 DEF Travels
    <2> QED
      BY <1>2, <2>7, <2>8, WrapperKeeps
  <1>12. ASSUME messages' = Append(messages, m), buffers' = buffers
         PROVE  Ledger'
    <2>1. \A x : Among(messages', x) <=> Among(messages, x) \/ x = m
      BY <1>b, <1>12, AmongAppend
    <2>2. \A c : AnswerIn(messages', c) <=> AnswerIn(messages, c) \/ (m.kind = "response" /\ m.to = c)
      BY <2>1 DEF AnswerIn
    <2>3. \A c : Passed(c)' => Passed(c) \/ (m.kind = "response" /\ m.to = c)
      BY <1>12, <2>2 DEF Passed
    <2>4. AnswersOnce(messages')
      <3>1. m.kind = "response" => ~AnswerIn(messages, m.to)
        BY <1>7 DEF Passed
      <3> QED
        BY <1>b, <1>12, <3>1, OnceAppend DEF Ledger, OnwardInv
    <2>5. OnwardInv'
      <3>1. \A c : Passed(c)' => ~InFlight(c)' /\ ~(InHand' /\ c = inHand')
        BY <1>2, <1>5, <1>6, <1>7, <1>8, <2>3 DEF Ledger, OnwardInv
      <3>2. ASSUME NEW c, NEW r \in Targets, AnswerIn(buffers'[r], c)
            PROVE  ~AnswerIn(messages', c) /\ \A s \in Targets \ {r} : ~AnswerIn(buffers'[s], c)
        <4>1. AnswerIn(buffers[r], c) /\ Passed(c)
          BY <1>12, <3>2 DEF Passed
        <4>2. ~AnswerIn(messages', c)
          BY <1>7, <2>2, <4>1 DEF Ledger, OnwardInv
        <4> QED
          BY <1>12, <4>1, <4>2 DEF Ledger, OnwardInv
      <3> QED
        BY <1>12, <2>4, <3>1, <3>2 DEF Ledger, OnwardInv, InFlight, InHand, Passed
    <2>6. \A x : Travels(x)' => Travels(x)
      BY <1>3, <1>12, <2>1 DEF Travels
    <2> QED
      BY <1>2, <2>5, <2>6, WrapperKeeps
  <1>13. Hold(m) => TargetOf(m) \in Targets
    BY DEF Hold, Inv, ShapeInv
  <1> QED
    BY <1>1, <1>9, <1>10, <1>11, <1>12, <1>13 DEF RouteUpstreamMessage

\* A target is configured: what was held back for it goes to the relay.
LEMMA SecureLedger ==
    ASSUME Inv, Ledger, NEW t \in Targets, SecureTarget(t), UNCHANGED relayVars
    PROVE  Ledger'
  <1>1. /\ messages' = messages \o buffers[t] /\ buffers' = [buffers EXCEPT ![t] = <<>>]
        /\ UNCHANGED <<wire, held, verdicts, down, inHand>>
    BY DEF SecureTarget, browserVars, relayVars
  <1>2. /\ buffers = [s \in Targets |-> buffers[s]] /\ IsASeq(buffers[t]) /\ IsASeq(messages)
    BY DEF Inv, ShapeInv
  <1>3. PICK none : none = <<>> /\ AnswersOnce(none) /\ \A x : ~Among(none, x)
    BY NothingIn
  <1>4. buffers'[t] = none /\ \A s \in Targets : s # t => buffers'[s] = buffers[s]
    BY <1>1, <1>2, <1>3
  <1>5. \A x : Among(messages', x) => Among(messages, x) \/ Among(buffers[t], x)
    BY <1>1, <1>2, AmongConcat
  <1>6. /\ \A c : AnswerIn(messages', c) => AnswerIn(messages, c) \/ AnswerIn(buffers[t], c)
        /\ \A c : ~AnswerIn(none, c)
    BY <1>3, <1>5 DEF AnswerIn
  <1>7. AnswersOnce(messages')
    BY <1>1, <1>2, OnceConcat DEF Ledger, OnwardInv
  <1>8. \A c : Passed(c)' => Passed(c)
    BY <1>4, <1>6 DEF Passed
  <1>9. OnwardInv'
    <2>1. \A s \in Targets : AnswersOnce(buffers'[s])
      BY <1>3, <1>4 DEF Ledger, OnwardInv
    <2>2. \A c : Passed(c)' => ~InFlight(c)' /\ ~(InHand' /\ c = inHand')
      BY <1>1, <1>8 DEF Ledger, OnwardInv, InFlight, InHand
    <2>3. ASSUME NEW c, NEW r \in Targets, AnswerIn(buffers'[r], c)
          PROVE  ~AnswerIn(messages', c) /\ \A s \in Targets \ {r} : ~AnswerIn(buffers'[s], c)
      <3>1. r # t /\ AnswerIn(buffers[r], c)
        BY <1>4, <1>6, <2>3
      <3>2. ~AnswerIn(messages, c) /\ \A s \in Targets \ {r} : ~AnswerIn(buffers[s], c)
        BY <3>1 DEF Ledger, OnwardInv
      <3> QED
        BY <1>4, <1>6, <3>1, <3>2
    <2> QED
      BY <1>7, <2>1, <2>2, <2>3 DEF OnwardInv, InFlight, InHand, Passed
  <1>10. \A x : Travels(x)' => Travels(x)
    <2>1. \A s \in Targets : \A x : Among(buffers'[s], x) => Among(buffers[s], x)
      BY <1>3, <1>4
    <2> QED
      BY <1>1, <1>5, <2>1 DEF Travels
  <1> QED
    BY <1>1, <1>9, <1>10, WrapperKeeps

\* The wrapper ends what it passes on with a message that is no answer, after what it has
\* passed on already or instead of it.
LEMMA EndLedger ==
    ASSUME Inv, Ledger, UNCHANGED relayVars, UNCHANGED <<wire, held, verdicts>>, NEW m,
           m.kind = "terminal",
           \/ messages' = Append(messages, m) /\ buffers' = buffers
           \/ messages' = <<m>> /\ buffers' = [t \in Targets |-> <<>>]
    PROVE  Ledger'
  <1>1. UNCHANGED <<down, inHand>>
    BY DEF relayVars
  <1>2. IsASeq(messages)
    BY DEF Inv, ShapeInv
  <1>3. PICK none, one : /\ none = <<>> /\ AnswersOnce(none) /\ \A x : ~Among(none, x)
                         /\ one = <<m>> /\ AnswersOnce(one) /\ \A x : Among(one, x) <=> x = m
    BY NothingIn
  <1>4. \A t \in Targets : buffers'[t] = buffers[t] \/ buffers'[t] = none
    BY <1>3
  <1>5. \A x : Among(messages', x) => Among(messages, x) \/ x = m
    <2>1. \A x : Among(Append(messages, m), x) => Among(messages, x) \/ x = m
      BY <1>2, AmongAppend
    <2> QED
      BY <1>3, <2>1
  <1>6. AnswersOnce(messages')
    <2>1. AnswersOnce(Append(messages, m))
      BY <1>2, OnceAppend DEF Ledger, OnwardInv
    <2> QED
      BY <1>3, <2>1
  <1>7. /\ \A c : AnswerIn(messages', c) => AnswerIn(messages, c)
        /\ \A t \in Targets : \A c : AnswerIn(buffers'[t], c) => AnswerIn(buffers[t], c)
    BY <1>3, <1>4, <1>5 DEF AnswerIn
  <1>8. OnwardInv'
    <2>1. \A t \in Targets : AnswersOnce(buffers'[t])
      BY <1>3, <1>4 DEF Ledger, OnwardInv
    <2>2. \A c : Passed(c)' => ~InFlight(c)' /\ ~(InHand' /\ c = inHand')
      BY <1>1, <1>7 DEF Ledger, OnwardInv, InFlight, InHand, Passed
    <2>3. \A c : \A t \in Targets : AnswerIn(buffers'[t], c) =>
            ~AnswerIn(messages', c) /\ \A s \in Targets \ {t} : ~AnswerIn(buffers'[s], c)
      BY <1>7 DEF Ledger, OnwardInv
    <2> QED
      BY <1>6, <2>1, <2>2, <2>3 DEF OnwardInv, InFlight, InHand, Passed
  <1>9. \A x : Travels(x)' => Travels(x) \/ x.kind # "response"
    <2>1. \A t \in Targets : \A x : Among(buffers'[t], x) => Among(buffers[t], x)
      BY <1>3, <1>4
    <2> QED
      BY <1>5, <2>1 DEF Travels
  <1> QED
    BY <1>8, <1>9, WrapperKeeps

\* The wrapper's steps.
LEMMA BlockingLedger ==
    ASSUME Inv, Ledger, BlockingNext, UNCHANGED relayVars
    PROVE  Ledger'
  <1>t. \A reason : Terminal(reason).kind = "terminal"
    BY DEF Terminal
  <1>1. ASSUME NEW t \in Targets, ConfigureTarget(t)
        PROVE  Ledger'
    <2>1. PICK k : k = FreeId(t) /\ k \in Int /\ k < 0
      BY <1>1, FreeIdIs DEF ConfigureTarget
    <2>2. Configuration(t, k) \in Own
      BY <2>1 DEF Own
    <2>3. held' \subseteq held \cup Own
      BY <1>1, <2>1, <2>2 DEF ConfigureTarget
    <2>4. UNCHANGED <<verdicts, wire, messages, buffers>>
      BY <1>1 DEF ConfigureTarget, browserVars
    <2> QED
      BY <2>3, <2>4, WrapperQuiet
  <1>2. ASSUME NEW t \in Targets, SecureTarget(t)
        PROVE  Ledger'
    BY <1>2, SecureLedger
  <1>3. ASSUME NEW t \in Targets, ConfigurationFails(t)
        PROVE  Ledger'
    BY <1>3, WrapperQuiet DEF ConfigurationFails, browserVars, routing
  <1>4. CASE RouteUpstreamMessage
    BY <1>4, RouteLedger
  <1>5. CASE PumpEnds
    <2>1. UNCHANGED <<verdicts, wire, held, buffers>>
      BY <1>5 DEF PumpEnds, browserVars, routing
    <2>2. CASE UNCHANGED messages
      BY <2>1, <2>2, WrapperQuiet
    <2>3. CASE messages' = Append(messages, Terminal("closed"))
      BY <1>t, <2>1, <2>3, EndLedger
    <2> QED
      BY <1>5, <2>2, <2>3 DEF PumpEnds
  <1>6. CASE FinishFailClosed
    <2>1. /\ UNCHANGED <<verdicts, wire, held>>
          /\ messages' = <<Terminal("domain_blocking_unavailable")>>
          /\ buffers' = [t \in Targets |-> <<>>]
      BY <1>6 DEF FinishFailClosed, browserVars
    <2> QED
      BY <1>t, <2>1, EndLedger
  <1>7. CASE FinishClose
    <2>1. UNCHANGED <<verdicts, wire, held, buffers>>
      BY <1>7 DEF FinishClose, browserVars
    <2>2. CASE UNCHANGED messages
      BY <2>1, <2>2, WrapperQuiet
    <2>3. CASE messages' = Append(messages, Terminal("closed"))
      BY <1>t, <2>1, <2>3, EndLedger
    <2> QED
      BY <1>7, <2>2, <2>3 DEF FinishClose
  <1> QED
    BY <1>1, <1>2, <1>3, <1>4, <1>5, <1>6, <1>7 DEF BlockingNext

\* The browser says something that answers nothing.
LEMMA EventLedger ==
    ASSUME Inv, Ledger, UNCHANGED relayVars, UNCHANGED <<held, verdicts, messages, buffers>>,
           NEW m, m.kind # "response", wire' = Append(wire, m)
    PROVE  Ledger'
  <1>1. UNCHANGED <<down, inHand>>
    BY DEF relayVars
  <1>2. \A x : Among(wire', x) <=> Among(wire, x) \/ x = m
    BY AmongAppend DEF Inv, ShapeInv
  <1>3. \A c : InFlight(c)' => InFlight(c)
    BY <1>2, InFlightIs DEF AnswerIn
  <1>4. OnwardInv'
    BY <1>1, <1>3, OnwardKeeps DEF Ledger, InHand
  <1>5. \A x : Travels(x)' => Travels(x) \/ x.kind # "response"
    BY <1>2 DEF Travels
  <1> QED
    BY <1>4, <1>5, WrapperKeeps

\* The browser answers a command.
LEMMA AnswerLedger ==
    ASSUME Inv, Ledger, UNCHANGED relayVars, UNCHANGED <<messages, buffers>>,
           NEW c \in held, NEW ok \in BOOLEAN, held' = held \ {c},
           verdicts' = verdicts \cup {<<c, ok>>}, NEW m, wire' = Append(wire, m),
           m.kind = "response", m.to = c, m.ok = ok, m.id = c.id,
           m.session \in {c.session, Browser}
    PROVE  Ledger'
  <1> USE DEF Ledger
  <1>1. UNCHANGED <<relay, down, upEnd, inHand, issued, observed, pending, active, usage>>
    BY DEF relayVars
  <1>2. \A x : Among(wire', x) <=> Among(wire, x) \/ x = m
    BY AmongAppend DEF Inv, ShapeInv
  <1>3. \A d : InFlight(d)' => InFlight(d)
    BY <1>2, InFlightIs DEF AnswerIn
  <1>4. OnwardInv'
    BY <1>1, <1>3, OnwardKeeps DEF InHand
  <1>5. HonestInv'
    <2>1. Honest(m)'
      BY <1>1 DEF Honest, PendingInv
    <2>2. \A x : Travels(x)' => Travels(x) \/ Honest(x)'
      BY <1>2, <2>1 DEF Travels
    <2> QED
      BY <1>1, <2>2, HonestKeeps
  <1>6. PendingInv'
    <2>1. IsFiniteSet(verdicts')
      BY FS_AddElement DEF PendingInv
    <2>2. c \in Commands => c \in issued
      BY OwnCommands DEF Inv, ShapeInv
    <2>3. InHand => c # inHand
      BY DEF Inv, OnceInv, InFlight
    <2>4. <<c, ok>>[1] = c
      OBVIOUS
    <2>5. /\ \A v \in verdicts' : v[1] \in Commands => v[1] \in issued
          /\ InHand => \A v \in verdicts' : v[1] # inHand
      BY <2>2, <2>3, <2>4 DEF PendingInv
    <2> QED
      BY <1>1, <2>1, <2>5 DEF PendingInv, InHand, DownRunning
  <1>7. CountInv'
    BY <1>1, <1>6, CountKeeps
  <1> QED
    BY <1>4, <1>5, <1>6, <1>7

\* The browser's steps.
LEMMA BrowserLedger ==
    ASSUME Inv, Ledger, BrowserNext, UNCHANGED relayVars
    PROVE  Ledger'
  <1>1. ASSUME NEW t \in Targets, BrowserAttaches(t)
        PROVE  Ledger'
    <2>1. PICK m : wire' = Append(wire, m) /\ m.kind # "response"
      <3> DEFINE number == IF t = Browser THEN 0
                           ELSE [u \in Targets |-> emitted[u] + IF u = t THEN 1 ELSE 0][t]
                 a == [[kind |-> "attached", session |-> Browser, names |-> t,
                        about |-> Browser, n |-> 0] EXCEPT !.about = t, !.n = number]
      <3>1. wire' = Append(wire, a)
        BY <1>1 DEF BrowserAttaches, Emit
      <3>2. a.kind # "response"
        OBVIOUS
      <3> QED
        BY <3>1, <3>2
    <2>2. UNCHANGED <<held, verdicts, messages, buffers>>
      BY <1>1 DEF BrowserAttaches, routing
    <2> QED
      BY <2>1, <2>2, EventLedger
  <1>2. ASSUME NEW t \in Targets, NEW s \in {t, Browser}, BrowserSpeaks(t, s)
        PROVE  Ledger'
    <2>1. PICK m : wire' = Append(wire, m) /\ m.kind # "response"
      <3> DEFINE number == IF t = Browser THEN 0
                           ELSE [u \in Targets |-> emitted[u] + IF u = t THEN 1 ELSE 0][t]
                 a == [[kind |-> "event", session |-> s, names |-> t,
                        about |-> Browser, n |-> 0] EXCEPT !.about = t, !.n = number]
      <3>1. wire' = Append(wire, a)
        BY <1>2 DEF BrowserSpeaks, Emit
      <3>2. a.kind # "response"
        OBVIOUS
      <3> QED
        BY <3>1, <3>2
    <2>2. UNCHANGED <<held, verdicts, messages, buffers>>
      BY <1>2 DEF BrowserSpeaks, routing
    <2> QED
      BY <2>1, <2>2, EventLedger
  <1>3. ASSUME NEW c \in held, NEW ok \in BOOLEAN, NEW s \in {c.session, Browser},
               BrowserAnswers(c, ok, s)
        PROVE  Ledger'
    <2>1. PICK m : /\ wire' = Append(wire, m)
                   /\ m.kind = "response" /\ m.session = s /\ m.id = c.id
                   /\ m.to = c /\ m.ok = ok
      <3> DEFINE about == IF c.method = "setBlockedURLs" THEN Browser ELSE s
                 number == IF about = Browser THEN 0
                           ELSE [u \in Targets |-> emitted[u] + IF u = about THEN 1 ELSE 0][about]
                 a == [[kind |-> "response", session |-> s, names |-> Browser,
                        id |-> c.id, ok |-> ok, to |-> c, about |-> Browser, n |-> 0]
                          EXCEPT !.about = about, !.n = number]
      <3>1. wire' = Append(wire, a)
        BY <1>3 DEF BrowserAnswers, Emit
      <3>2. a.kind = "response" /\ a.session = s /\ a.id = c.id /\ a.to = c /\ a.ok = ok
        OBVIOUS
      <3> QED
        BY <3>1, <3>2
    <2>2. /\ held' = held \ {c} /\ verdicts' = verdicts \cup {<<c, ok>>}
          /\ UNCHANGED <<messages, buffers>>
      BY <1>3 DEF BrowserAnswers, routing
    <2> QED
      BY <2>1, <2>2, AnswerLedger
  <1>4. CASE BrowserLeaves
    BY <1>4, WrapperQuiet DEF BrowserLeaves, browserVars, routing
  <1> QED
    BY <1>1, <1>2, <1>3, <1>4 DEF BrowserNext
--------------------------------------------------------------------------
(* The summary and the relay's steps *)

\* A response of the browser is matched with the command it answers or with none.
LEMMA MatchedIs ==
    ASSUME Inv, PendingInv, NEW m, m.to \in pending, m.id = m.to.id,
           m.session \in {m.to.session, Browser}
    PROVE  Matched(m) = {} \/ Matched(m) = {m.to}
  <1>1. pending \subseteq Commands
    BY DEF Inv, ShapeInv, PendingInv
  <1>2. \A c \in pending : Key(c) = <<m.session, m.id>> => c = m.to
    <2> SUFFICES ASSUME NEW c \in pending, Key(c) = <<m.session, m.id>>, c # m.to
                 PROVE  FALSE
      OBVIOUS
    <2>1. c \in Commands /\ m.to \in Commands /\ c.session = m.session /\ c.id = m.to.id
      BY <1>1 DEF Key
    <2>2. CASE m.session = m.to.session
      BY <2>1, <2>2, CommandsAssumption
    <2>3. CASE m.session = Browser
      BY <2>1, <2>3, CommandsAssumption
    <2> QED
      BY <2>2, <2>3
  <1>3. PendingForId(m.id) = {} \/ PendingForId(m.id) = {m.to}
    <2> DEFINE byId == {c \in pending : c.id = m.id}
    <2>1. m.to \in byId
      OBVIOUS
    <2>2. IsFiniteSet(byId)
      BY <1>1, CommandsAssumption, FS_Subset
    <2>3. Cardinality(byId) = 1 => byId = {m.to}
      <3>1. Cardinality(byId) = 1 => \E x : byId = {x}
        BY <2>2, FS_Singleton
      <3> QED
        BY <2>1, <3>1
    <2> QED
      BY <2>3 DEF PendingForId
  <1> QED
    BY <1>2, <1>3 DEF Matched

\* The pending commands and the observed ones are finitely many.
LEMMA PendingFinite ==
    ASSUME Inv, PendingInv
    PROVE  /\ IsFiniteSet(pending) /\ Cardinality(pending) \in Nat
           /\ IsFiniteSet(observed) /\ Cardinality(observed) \in Nat
  <1>1. pending \in SUBSET Commands /\ observed \in SUBSET Commands
    BY DEF Inv, ShapeInv, PendingInv
  <1> QED
    BY <1>1, CommandsAssumption, FS_Subset, FS_CardinalityType

\* A summary has a total.
LEMMA TotalNat ==
    ASSUME NEW u, UsageShape(u)
    PROVE  Total(u) \in Nat
  BY TotalIs DEF UsageShape, Row

\* A command that is answered moves from the pending ones to its row.
LEMMA AnsweredCounts ==
    ASSUME Inv, CountInv, PendingInv, PendingInv', NEW c \in pending, NEW ok \in BOOLEAN,
           <<c, ok>> \in verdicts, Finish({c}, IF ok THEN "succeeded" ELSE "failed"),
           UNCHANGED <<observed, verdicts>>
    PROVE  CountInv'
  <1>1. PICK r : r = IF ok THEN "succeeded" ELSE "failed"
    OBVIOUS
  <1>2. UsageShape(usage) /\ usage' = Counted(c, r, usage)
    BY <1>1, FinishOne DEF CountInv
  <1>3. PICK k : k = RetainedMethod(c, usage)
    OBVIOUS
  <1>4. PICK u, v : u = usage /\ v = usage'
    OBVIOUS
  <1>5. /\ UsageShape(v)
        /\ Total(v) = Total(u) + 1
        /\ k = c.method \/ k = OtherMethod
        /\ RowOf(v, k) = [count |-> RowOf(u, k).count + 1,
                          failed |-> RowOf(u, k).failed + (IF r = "failed" THEN 1 ELSE 0),
                          interrupted |-> RowOf(u, k).interrupted
                                          + (IF r = "interrupted" THEN 1 ELSE 0)]
        /\ \A m : m # k => RowOf(v, m) = RowOf(u, m)
        /\ \A m : RowOf(u, m) \in Row
    BY <1>2, <1>3, <1>4, CountedIs
  <1>6. /\ RowOf(v, k).failed = RowOf(u, k).failed + (IF ok THEN 0 ELSE 1)
        /\ Succeeded(RowOf(v, k)) = Succeeded(RowOf(u, k)) + (IF ok THEN 1 ELSE 0)
    <2>1. PICK a \in Nat, b \in Nat, d \in Nat :
            a = RowOf(u, k).count /\ b = RowOf(u, k).failed /\ d = RowOf(u, k).interrupted
      BY <1>5 DEF Row
    <2>2. CASE ok
      <3>1. RowOf(v, k) = [count |-> a + 1, failed |-> b + 0, interrupted |-> d + 0]
        BY <1>1, <1>5, <2>1, <2>2
      <3> QED
        BY <2>1, <2>2, <3>1 DEF Succeeded
    <2>3. CASE ~ok
      <3>1. RowOf(v, k) = [count |-> a + 1, failed |-> b + 1, interrupted |-> d + 0]
        BY <1>1, <1>5, <2>1, <2>3
      <3> QED
        BY <2>1, <2>3, <3>1 DEF Succeeded
    <2> QED
      BY <2>2, <2>3
  <1>7. pending' = pending \ {c} /\ IsFiniteSet(pending) /\ Cardinality(pending) \in Nat
    BY PendingFinite DEF Finish
  <1>8. /\ Cardinality(pending') = Cardinality(pending) - 1
        /\ Cardinality(pending') \in Nat
    BY <1>7, FS_RemoveElement, FS_CardinalityType
  <1>9. active' = Cardinality(pending')
    <2>1. Cardinality({c}) = 1
      BY FS_Singleton
    <2>2. active' = IF 1 > active THEN 0 ELSE active - 1
      BY <2>1 DEF Finish, FinishPhaseCommands
    <2> QED
      BY <1>7, <1>8, <2>2 DEF CountInv
  <1>10. Total(usage') + Cardinality(pending') = Cardinality(observed')
    <2>1. Total(u) \in Nat /\ Total(u) + Cardinality(pending) = Cardinality(observed)
      BY <1>2, <1>4, TotalNat DEF CountInv
    <2>2. Total(v) + Cardinality(pending') = Cardinality(observed)
      BY <1>5, <1>7, <1>8, <2>1
    <2> QED
      BY <1>4, <2>2
  <1>11. ASSUME NEW m, NEW b
         PROVE  /\ Cardinality(Charged(m, b)) \in Nat /\ Cardinality(Charged(m, b)') \in Nat
                /\ Cardinality(Charged(m, b)) <= Cardinality(Charged(m, b)')
    BY <1>7, ChargedGrows
  <1>12. Cardinality(Charged(c.method, ok)) + 1 <= Cardinality(Charged(c.method, ok)')
    <2>1. PICK a, b, p : a = Charged(c.method, ok) /\ b = Charged(c.method, ok)' /\ p = <<c, ok>>
      OBVIOUS
    <2>2. p[1] = c /\ p[2] = ok /\ p \in verdicts /\ p \in verdicts'
      BY <2>1
    <2>3. p \notin a /\ a \cup {p} \in SUBSET b
      BY <1>7, <2>1, <2>2 DEF Charged
    <2>4. a \in SUBSET verdicts /\ b \in SUBSET verdicts
      BY <2>1 DEF Charged
    <2>5. IsFiniteSet(a) /\ IsFiniteSet(b)
      BY <2>4, FS_Subset DEF PendingInv
    <2>6. Cardinality(a \cup {p}) = Cardinality(a) + 1
      BY <2>3, <2>5, FS_AddElement
    <2>7. Cardinality(a \cup {p}) <= Cardinality(b)
      BY <2>3, <2>5, FS_Subset
    <2> QED
      BY <2>1, <2>6, <2>7
  <1>13. ASSUME NEW m, m # OtherMethod
         PROVE  /\ RowOf(v, m).failed <= Cardinality(Charged(m, FALSE)')
                /\ Succeeded(RowOf(v, m)) <= Cardinality(Charged(m, TRUE)')
    <2>1. PICK e \in Nat, f \in Int : e = RowOf(u, m).failed /\ f = Succeeded(RowOf(u, m))
      BY <1>2, <1>4, RowsAre
    <2>2. PICK ef, es, df, ds :
            /\ ef = Cardinality(Charged(m, FALSE)) /\ es = Cardinality(Charged(m, TRUE))
            /\ df = Cardinality(Charged(m, FALSE)') /\ ds = Cardinality(Charged(m, TRUE)')
      OBVIOUS
    <2>3. /\ ef \in Nat /\ es \in Nat /\ df \in Nat /\ ds \in Nat /\ ef <= df /\ es <= ds
      BY <1>11, <2>2
    <2>4. e <= ef /\ f <= es
      BY <1>4, <1>13, <2>1, <2>2 DEF CountInv
    <2>5. CASE m # k
      <3>1. e <= df /\ f <= ds
        BY <2>3, <2>4
      <3> QED
        BY <1>5, <2>1, <2>2, <2>5, <3>1
    <2>6. CASE m = k /\ ok
      <3>1. m = c.method
        BY <1>5, <1>13, <2>6
      <3>2. es + 1 <= ds
        BY <1>12, <2>2, <2>6, <3>1
      <3>3. RowOf(v, m).failed = e + 0 /\ Succeeded(RowOf(v, m)) = f + 1
        BY <1>6, <2>1, <2>6
      <3>4. e + 0 <= df /\ f + 1 <= ds
        BY <2>3, <2>4, <3>2
      <3> QED
        BY <2>2, <3>3, <3>4
    <2>7. CASE m = k /\ ~ok
      <3>1. m = c.method /\ ok = FALSE
        BY <1>5, <1>13, <2>7
      <3>2. ef + 1 <= df
        BY <1>12, <2>2, <3>1
      <3>3. RowOf(v, m).failed = e + 1 /\ Succeeded(RowOf(v, m)) = f + 0
        BY <1>6, <2>1, <2>7
      <3>4. e + 1 <= df /\ f + 0 <= ds
        BY <2>3, <2>4, <3>2
      <3> QED
        BY <2>2, <3>3, <3>4
    <2> QED
      BY <2>5, <2>6, <2>7
  <1> QED
    BY <1>4, <1>5, <1>9, <1>10, <1>13 DEF CountInv, Charged

\* The commands that are pending when the relay ends are counted as interrupted.
LEMMA InterruptedCounts ==
    ASSUME Inv, CountInv, PendingInv, PendingInv', InterruptPending,
           UNCHANGED <<observed, verdicts>>
    PROVE  CountInv'
  <1>1. IsFiniteSet(pending) /\ Cardinality(pending) \in Nat
    BY PendingFinite
  <1>2. UsageShape(usage) /\ Finish(pending, "interrupted")
    BY DEF CountInv, InterruptPending
  <1>3. /\ UsageShape(usage')
        /\ Total(usage') = Total(usage) + Cardinality(pending)
        /\ \A k : /\ RowOf(usage', k).failed = RowOf(usage, k).failed
                  /\ Succeeded(RowOf(usage', k)) = Succeeded(RowOf(usage, k))
    BY <1>1, <1>2, InterruptedAre
  <1>4. pending' = {} /\ Cardinality(pending') = 0
    <2>1. pending' = {}
      BY <1>2 DEF Finish
    <2> QED
      BY <2>1, FS_EmptySet
  <1>5. active' = Cardinality(pending')
    <2>1. PICK n \in Nat : n = Cardinality(pending)
      BY <1>1
    <2>2. active' = IF n > active THEN 0 ELSE active - n
      BY <1>2, <2>1 DEF Finish, FinishPhaseCommands
    <2>3. active = n
      BY <2>1 DEF CountInv
    <2>4. active' = 0
      BY <2>2, <2>3
    <2> QED
      BY <1>4, <2>4
  <1>6. Total(usage') + Cardinality(pending') = Cardinality(observed')
    <2>1. Total(usage) \in Nat
      BY <1>2, TotalNat
    <2>2. PICK a \in Nat, b \in Nat : a = Total(usage) /\ b = Cardinality(pending)
      BY <1>1, <2>1
    <2>3. Total(usage') = a + b /\ a + b = Cardinality(observed)
      BY <1>3, <2>2 DEF CountInv
    <2>4. a + b + 0 = a + b
      OBVIOUS
    <2> QED
      BY <1>4, <2>3, <2>4
  <1>7. ASSUME NEW m, m # OtherMethod
        PROVE  /\ RowOf(usage', m).failed <= Cardinality(Charged(m, FALSE)')
               /\ Succeeded(RowOf(usage', m)) <= Cardinality(Charged(m, TRUE)')
    <2>1. PICK e \in Nat, f \in Int : e = RowOf(usage, m).failed /\ f = Succeeded(RowOf(usage, m))
      BY <1>2, RowsAre
    <2>2. PICK ef, es, df, ds :
            /\ ef = Cardinality(Charged(m, FALSE)) /\ es = Cardinality(Charged(m, TRUE))
            /\ df = Cardinality(Charged(m, FALSE)') /\ ds = Cardinality(Charged(m, TRUE)')
      OBVIOUS
    <2>3. /\ ef \in Nat /\ es \in Nat /\ df \in Nat /\ ds \in Nat /\ ef <= df /\ es <= ds
      BY <1>4, <2>2, ChargedGrows
    <2>4. e <= ef /\ f <= es
      BY <1>7, <2>1, <2>2 DEF CountInv
    <2>5. e <= df /\ f <= ds
      BY <2>3, <2>4
    <2> QED
      BY <1>3, <2>1, <2>2, <2>5
  <1> QED
    BY <1>3, <1>5, <1>6, <1>7 DEF CountInv, Charged

\* The client sends a command.
LEMMA ClientSendsLedger ==
    ASSUME Inv, Ledger, NEW c \in Commands, ClientSends(c)
    PROVE  Ledger'
  <1> USE DEF Ledger
  <1>1. /\ down = "receiving" /\ down' = "observing" /\ inHand' = c
        /\ c \notin issued /\ issued' = issued \cup {c}
        /\ UNCHANGED <<wire, messages, buffers, held, verdicts, relay, upEnd, observed, pending,
                       active, usage>>
    BY DEF ClientSends, blockingVars, browserVars, routing, sessionVars
  <1>2. c \notin Own /\ c \notin held
    BY <1>1, OwnCommands DEF Inv, ShapeInv
  <1>3. ~Passed(c)
    BY <1>1, PassedIssued
  <1>4. ~InFlight(c)
    BY <1>1, <1>2 DEF InFlight, Inv, ShapeInv, WireInv, Answers
  <1>5. OnwardInv'
    <2>1. \A d : Passed(d)' <=> Passed(d)
      BY <1>1 DEF Passed
    <2>2. \A d : InFlight(d)' <=> InFlight(d)
      BY <1>1 DEF InFlight
    <2>3. \A d : Passed(d)' => ~InFlight(d)' /\ ~(InHand' /\ d = inHand')
      BY <1>1, <1>3, <2>1, <2>2 DEF OnwardInv
    <2> QED
      BY <1>1, <2>3 DEF OnwardInv, InFlight, InHand, Passed
  <1>6. HonestInv'
    <2>1. ASSUME NEW m, Travels(m)', m.kind = "response"
          PROVE  m.to # c
      <3>1. Travels(m)
        BY <1>1, <2>1 DEF Travels
      <3>2. Passed(m.to) \/ InFlight(m.to)
        BY <2>1, <3>1, InFlightIs DEF Travels, Passed, AnswerIn
      <3>3. CASE Passed(m.to)
        BY <1>1, <3>3, PassedIssued
      <3>4. CASE InFlight(m.to)
        <4>1. PICK d : d = m.to /\ InFlight(d)
          BY <3>4 DEF InFlight
        <4> QED
          BY <1>4, <4>1
      <3> QED
        BY <3>2, <3>3, <3>4
    <2>2. \A m : Travels(m)' => Travels(m)
      BY <1>1 DEF Travels
    <2> QED
      BY <1>1, <2>1, <2>2 DEF HonestInv, Honest
  <1>7. PendingInv'
    <2>1. \A v \in verdicts : v[1] # c
      BY <1>1 DEF PendingInv
    <2> QED
      BY <1>1, <1>2, <2>1 DEF PendingInv, InHand, DownRunning
  <1>8. CountInv'
    BY <1>1, <1>7, CountKeeps
  <1> QED
    BY <1>5, <1>6, <1>7, <1>8

\* The observer registers the command in hand.
LEMMA ObserveLedger ==
    ASSUME Inv, Ledger, ObserveCommand
    PROVE  Ledger'
  <1> USE DEF Ledger
  <1>1. /\ down = "observing" /\ down' = "sending"
        /\ observed' = observed \cup {inHand} /\ pending' = pending \cup {inHand}
        /\ active' = active + 1
        /\ UNCHANGED <<wire, messages, buffers, held, verdicts, relay, upEnd, inHand, issued, usage>>
    BY DEF ObserveCommand, StartPhaseCommand, blockingVars, browserVars, routing, sessionVars
  <1>2. InHand /\ inHand \in issued /\ inHand \notin observed /\ inHand \notin pending
    BY <1>1 DEF InHand, Inv, ShapeInv, PendingInv
  <1>3. OnwardInv'
    <2>1. \A c : InFlight(c)' => InFlight(c)
      BY <1>1 DEF InFlight
    <2> QED
      BY <1>1, <1>2, <2>1, OnwardKeeps
  <1>4. HonestInv'
    <2>1. \A m : Travels(m)' => Travels(m)
      BY <1>1 DEF Travels
    <2> QED
      BY <1>1, <2>1, HonestKeeps
  <1>5. PendingInv'
    BY <1>1, <1>2 DEF PendingInv, InHand, DownRunning
  <1>6. CountInv'
    <2>1. /\ IsFiniteSet(pending) /\ Cardinality(pending) \in Nat
          /\ IsFiniteSet(observed) /\ Cardinality(observed) \in Nat
      BY PendingFinite
    <2>2. /\ Cardinality(pending') = Cardinality(pending) + 1
          /\ Cardinality(observed') = Cardinality(observed) + 1
      BY <1>1, <1>2, <2>1, FS_AddElement
    <2>3. \A m, ok : Charged(m, ok)' = Charged(m, ok)
      BY <1>1, <1>2 DEF Charged, PendingInv
    <2>4. active' = Cardinality(pending')
      BY <1>1, <2>2 DEF CountInv
    <2>5. Total(usage') + Cardinality(pending') = Cardinality(observed')
      <3>1. PICK a \in Nat, b \in Nat : a = Total(usage) /\ b = Cardinality(pending)
        BY <2>1, TotalNat DEF CountInv
      <3>2. a + b = Cardinality(observed) /\ a + (b + 1) = (a + b) + 1
        BY <3>1 DEF CountInv
      <3> QED
        BY <1>1, <2>2, <3>1, <3>2
    <2>6. UsageShape(usage') /\ \A m : m # OtherMethod =>
            /\ RowOf(usage', m).failed <= Cardinality(Charged(m, FALSE)')
            /\ Succeeded(RowOf(usage', m)) <= Cardinality(Charged(m, TRUE)')
      BY <1>1, <2>3 DEF CountInv
    <2> QED
      BY <2>4, <2>5, <2>6 DEF CountInv, Charged
  <1> QED
    BY <1>3, <1>4, <1>5, <1>6

\* The command in hand goes to the browser.
LEMMA SendsUpLedger ==
    ASSUME Inv, Ledger, down = "sending", down' = "receiving", held' = held \cup {inHand},
           UNCHANGED <<wire, messages, buffers, verdicts, relay, upEnd, issued, observed, pending,
                       active, usage>>
    PROVE  Ledger'
  <1> USE DEF Ledger
  <1>1. InHand /\ ~InHand' /\ inHand \in pending
    BY DEF InHand, PendingInv
  <1>2. ~Passed(inHand)
    BY <1>1 DEF OnwardInv
  <1>3. OnwardInv'
    <2>1. \A c : InFlight(c)' => InFlight(c) \/ ~Passed(c)
      BY <1>2 DEF InFlight
    <2> QED
      BY <1>1, <2>1, OnwardKeeps
  <1>4. HonestInv'
    <2>1. \A m : Travels(m)' => Travels(m)
      BY DEF Travels
    <2> QED
      BY <2>1, HonestKeeps
  <1>5. PendingInv'
    <2>1. held' \cap issued \subseteq held \cup pending
      BY <1>1
    <2> QED
      BY <2>1, PendingKeeps DEF DownRunning
  <1>6. CountInv'
    BY <1>5, CountKeeps
  <1> QED
    BY <1>3, <1>4, <1>5, <1>6

\* The relay reads a message that finishes no command, or the command it answers.
LEMMA DeliverLedger ==
    ASSUME Inv, Ledger, Deliver
    PROVE  Ledger'
  <1> USE DEF Ledger
  <1>1. PICK m : m = Head(messages)
    OBVIOUS
  <1>2. /\ upEnd = "running" /\ messages # <<>> /\ messages' = Tail(messages) /\ IsASeq(messages)
        /\ UNCHANGED <<wire, buffers, held, verdicts, relay, down, inHand, issued, observed>>
    BY DEF Deliver, browserVars, routing, Inv, ShapeInv
  <1>3. relay # "ended"
    BY <1>2 DEF PendingInv
  <1>4. /\ Among(messages, m) /\ \A x : Among(messages', x) => Among(messages, x)
        /\ Travels(m)
    BY <1>1, <1>2, AmongTail DEF Travels
  <1>5. AnswersOnce(messages') /\ (m.kind = "response" => ~AnswerIn(messages', m.to))
    BY <1>1, <1>2, OnceTail DEF OnwardInv
  <1>6. \A x : Travels(x)' => Travels(x)
    BY <1>2, <1>4 DEF Travels
  <1>7. OnwardInv'
    <2>1. \A c : AnswerIn(messages', c) => AnswerIn(messages, c)
      BY <1>4 DEF AnswerIn
    <2>2. \A c : Passed(c)' => Passed(c)
      BY <1>2, <2>1 DEF Passed
    <2>3. \A c : Passed(c)' => ~InFlight(c)' /\ ~(InHand' /\ c = inHand')
      BY <1>2, <2>2 DEF OnwardInv, InFlight, InHand
    <2>4. \A c : \A t \in Targets : AnswerIn(buffers'[t], c) =>
            ~AnswerIn(messages', c) /\ \A s \in Targets \ {t} : ~AnswerIn(buffers'[s], c)
      BY <1>2, <2>1 DEF OnwardInv
    <2> QED
      BY <1>2, <1>5, <2>3, <2>4 DEF OnwardInv, InFlight, InHand, Passed
  <1>8. CASE UNCHANGED <<pending, active, usage>>
    <2>1. HonestInv'
      BY <1>2, <1>6, <1>8, HonestKeeps
    <2>2. PendingInv'
      BY <1>2, <1>3, <1>8 DEF PendingInv, InHand, DownRunning
    <2>3. CountInv'
      BY <1>2, <1>8, <2>2, CountKeeps
    <2> QED
      BY <1>7, <2>1, <2>2, <2>3
  <1>9. CASE m.kind = "response" /\ Finish(Matched(m), IF m.ok THEN "succeeded" ELSE "failed")
    <2>1. m.to \in issued
      BY <1>4, <1>9 DEF Inv, ClientInv, Exposable, Among
    <2>2. /\ m.to \in pending /\ m.id = m.to.id /\ m.session \in {m.to.session, Browser}
          /\ m.ok \in BOOLEAN /\ <<m.to, m.ok>> \in verdicts
      BY <1>3, <1>4, <1>9, <2>1 DEF HonestInv, Honest
    <2>3. CASE Matched(m) = {}
      <3>1. pending' = pending /\ usage' = usage
        <4>1. PICK r : Finish({}, r)
          BY <1>9, <2>3
        <4>2. pending' = pending \ {}
          BY <4>1, Zenon DEF Finish
        <4> QED
          BY <4>1, <4>2, FinishNone
      <3>2. active' = active
        <4>1. Cardinality(Matched(m)) = 0
          BY <2>3, FS_EmptySet
        <4>2. active' = IF 0 > active THEN 0 ELSE active - 0
          BY <1>9, <4>1 DEF Finish, FinishPhaseCommands
        <4>3. active \in Nat
          BY PendingFinite DEF CountInv
        <4> QED
          BY <4>2, <4>3
      <3> QED
        BY <1>8, <3>1, <3>2
    <2>4. CASE Matched(m) = {m.to}
      <3>1. PICK c : c = m.to
        OBVIOUS
      <3>2. pending' = pending \ {c} /\ Finish({c}, IF m.ok THEN "succeeded" ELSE "failed")
        BY <1>9, <2>4, <3>1 DEF Finish
      <3>3. Passed(c)
        BY <1>4, <1>9, <3>1 DEF Passed, AnswerIn
      <3>4. ~InFlight(c) /\ ~(InHand /\ c = inHand)
        BY <3>3 DEF OnwardInv
      <3>5. c \notin held /\ (down = "sending" => c # inHand)
        BY <3>4 DEF InFlight, InHand
      <3>6. HonestInv'
        <4>1. ASSUME NEW x, Travels(x)', x.kind = "response"
              PROVE  x.to # c
          <5>1. CASE Among(messages', x)
            BY <1>5, <1>9, <3>1, <4>1, <5>1 DEF AnswerIn
          <5>2. CASE Among(wire, x)
            <6>1. ~AnswerIn(wire, c)
              BY <3>4, InFlightIs
            <6> QED
              BY <4>1, <5>2, <6>1 DEF AnswerIn
          <5>3. ASSUME NEW t \in Targets, Among(buffers[t], x)
                PROVE  x.to # c
            <6>1. AnswerIn(messages, c)
              BY <1>4, <1>9, <3>1 DEF AnswerIn
            <6>2. ~AnswerIn(buffers[t], c)
              BY <6>1 DEF OnwardInv
            <6> QED
              BY <4>1, <5>3, <6>2 DEF AnswerIn
          <5> QED
            BY <1>2, <4>1, <5>1, <5>2, <5>3 DEF Travels
        <4> QED
          BY <1>2, <1>6, <3>2, <4>1 DEF HonestInv, Honest
      <3>7. PendingInv'
        BY <1>2, <1>3, <3>2, <3>5 DEF PendingInv, InHand, DownRunning
      <3>8. CountInv'
        BY <1>2, <2>2, <3>1, <3>2, <3>7, AnsweredCounts
      <3> QED
        BY <1>7, <3>6, <3>7, <3>8
    <2> QED
      BY <2>2, <2>3, <2>4, MatchedIs
  <1> QED
    BY <1>1, <1>8, <1>9 DEF Deliver, ObserveUpstream

\* The relay ends and interrupts what is pending.
LEMMA EndsLedger ==
    ASSUME Inv, Ledger, RelayEnds
    PROVE  Ledger'
  <1> USE DEF Ledger
  <1>1. /\ relay' = "ended" /\ InterruptPending
        /\ down' = IF DownRunning THEN "cancelled" ELSE down
        /\ upEnd' = IF upEnd = "running" THEN "cancelled" ELSE upEnd
        /\ UNCHANGED <<wire, messages, buffers, held, verdicts, inHand, issued, observed>>
    BY DEF RelayEnds, blockingVars, browserVars, routing, sessionVars
  <1>2. pending' = {}
    BY <1>1 DEF InterruptPending, Finish
  <1>3. ~DownRunning' /\ ~InHand' /\ down' \notin {"observing", "sending"} /\ upEnd' # "running"
    BY <1>1 DEF DownRunning, InHand
  <1>4. OnwardInv'
    <2>1. \A c : InFlight(c)' => InFlight(c)
      BY <1>1 DEF InFlight
    <2> QED
      BY <1>1, <1>3, <2>1, OnwardKeeps
  <1>5. HonestInv'
    <2>1. \A m : Travels(m)' => Travels(m)
      BY <1>1 DEF Travels
    <2> QED
      BY <1>1, <2>1 DEF HonestInv, Honest
  <1>6. PendingInv'
    BY <1>1, <1>2, <1>3 DEF PendingInv
  <1>7. CountInv'
    BY <1>1, <1>6, InterruptedCounts
  <1> QED
    BY <1>4, <1>5, <1>6, <1>7

\* The steps of the relay and of the gateway around it.
LEMMA RelayLedger ==
    ASSUME Inv, Ledger,
           \/ \E c \in Commands : ClientSends(c)
           \/ ClientSendsInvalid \/ ClientLeaves \/ LeaseLost
           \/ Relaying \/ UNCHANGED vars
    PROVE  Ledger'
  <1>v. ASSUME UNCHANGED blockingVars
        PROVE  UNCHANGED <<wire, messages, buffers, held, verdicts>>
    BY <1>v DEF blockingVars, browserVars, routing, sessionVars
  <1>1. ASSUME NEW c \in Commands, ClientSends(c)
        PROVE  Ledger'
    BY <1>1, ClientSendsLedger
  <1>2. CASE ClientSendsInvalid
    <2>1. LedgerKeeps
      BY <1>2, <1>v DEF ClientSendsInvalid, LedgerKeeps, DownRunning
    <2> QED
      BY <2>1, LedgerQuiet
  <1>3. CASE ClientLeaves
    <2>1. LedgerKeeps
      BY <1>3, <1>v DEF ClientLeaves, LedgerKeeps
    <2> QED
      BY <2>1, LedgerQuiet
  <1>4. CASE LeaseLost
    <2>1. LedgerKeeps
      BY <1>4, <1>v DEF LeaseLost, LedgerKeeps
    <2> QED
      BY <2>1, LedgerQuiet
  <1>5. CASE ObserveCommand
    BY <1>5, ObserveLedger
  <1>6. CASE SendUpstream
    <2>1. /\ down = "sending"
          /\ UNCHANGED <<wire, messages, buffers, verdicts, relay, upEnd, issued, observed, pending,
                         active, usage>>
      BY <1>6 DEF SendUpstream, browserVars
    <2>2. CASE /\ down' \in {"domain_blocking_unavailable", "connection_closed"}
               /\ UNCHANGED <<held, inHand>>
      <3>1. LedgerKeeps
        BY <2>1, <2>2 DEF LedgerKeeps, DownRunning
      <3> QED
        BY <3>1, LedgerQuiet
    <2>3. CASE held' = held \cup {inHand} /\ down' = "receiving"
      BY <2>1, <2>3, SendsUpLedger
    <2> QED
      BY <1>6, <2>2, <2>3 DEF SendUpstream
  <1>7. CASE ReceiveDisconnect
    <2>1. LedgerKeeps
      BY <1>7, <1>v DEF ReceiveDisconnect, LedgerKeeps, DownRunning
    <2> QED
      BY <2>1, LedgerQuiet
  <1>8. CASE Deliver
    BY <1>8, DeliverLedger
  <1>9. CASE RelayEnds
    BY <1>9, EndsLedger
  <1>10. CASE CloseProvider
    <2>1. LedgerKeeps
      BY <1>10 DEF CloseProvider, BeginClose, relayVars, browserVars, routing, LedgerKeeps
    <2> QED
      BY <2>1, LedgerQuiet
  <1>11. CASE TakeSummary
    <2>1. LedgerKeeps
      BY <1>11, <1>v DEF TakeSummary, LedgerKeeps
    <2> QED
      BY <2>1, LedgerQuiet
  <1>12. CASE UNCHANGED vars
    <2>1. LedgerKeeps
      BY <1>12, <1>v DEF vars, relayVars, LedgerKeeps
    <2> QED
      BY <2>1, LedgerQuiet
  <1> QED
    BY <1>1, <1>2, <1>3, <1>4, <1>5, <1>6, <1>7, <1>8, <1>9, <1>10, <1>11, <1>12 DEF Relaying

\* A connection starts with nothing counted, and no message in any place.
LEMMA LedgerInitially == Init => Ledger
  <1> SUFFICES ASSUME Init
               PROVE  Ledger
    OBVIOUS
  <1>1. PICK none : none = <<>> /\ AnswersOnce(none) /\ \A m : ~Among(none, m)
    BY NothingIn
  <1>2. /\ wire = none /\ messages = none /\ \A t \in Targets : buffers[t] = none
        /\ relay = "running" /\ down = "receiving"
        /\ observed = {} /\ pending = {} /\ issued = {} /\ held = {} /\ verdicts = {}
        /\ active = 0 /\ usage = [m \in {} |-> 0]
    BY <1>1 DEF Init, BlockingInit
  <1>3. \A c : ~AnswerIn(none, c)
    BY <1>1 DEF AnswerIn
  <1>4. OnwardInv
    BY <1>1, <1>2, <1>3 DEF OnwardInv, Passed
  <1>5. HonestInv
    BY <1>1, <1>2 DEF HonestInv, Travels
  <1>6. PendingInv
    BY <1>2, FS_EmptySet DEF PendingInv, InHand
  <1>7. CountInv
    <2>1. DOMAIN usage = {} /\ usage = [m \in DOMAIN usage |-> usage[m]]
      BY <1>2
    <2>2. IsFiniteSet({}) /\ Cardinality({}) = 0
      BY FS_EmptySet
    <2>3. UsageShape(usage)
      BY <2>1, <2>2, LimitAssumption DEF UsageShape
    <2>4. Total(usage) = 0
      <3>1. Total(usage) = Cardinality(Units(usage, DOMAIN usage))
        BY <2>1, <2>2, TotalIs
      <3>2. Units(usage, DOMAIN usage) = {}
        BY <2>1 DEF Units
      <3> QED
        BY <2>2, <3>1, <3>2
    <2>5. \A m, ok : Charged(m, ok) = {}
      BY <1>2 DEF Charged
    <2>6. \A m : RowOf(usage, m) = NoUsage
      BY <2>1 DEF RowOf
    <2>7. NoUsage.failed = 0 /\ Succeeded(NoUsage) = 0
      BY DEF NoUsage, Succeeded
    <2>8. \A m : /\ RowOf(usage, m).failed <= Cardinality(Charged(m, FALSE))
                 /\ Succeeded(RowOf(usage, m)) <= Cardinality(Charged(m, TRUE))
      <3>1. \A m, ok : Cardinality(Charged(m, ok)) = 0
        BY <2>2, <2>5
      <3>2. \A m : RowOf(usage, m).failed = 0 /\ Succeeded(RowOf(usage, m)) = 0
        BY <2>6, <2>7
      <3>3. 0 <= 0
        OBVIOUS
      <3> QED
        BY <3>1, <3>2, <3>3, Zenon
    <2>9. /\ active = Cardinality(pending)
          /\ Total(usage) + Cardinality(pending) = Cardinality(observed)
      BY <1>2, <2>2, <2>4
    <2> QED
      BY <2>3, <2>8, <2>9 DEF CountInv
  <1> QED
    BY <1>4, <1>5, <1>6, <1>7 DEF Ledger

\* The accounts are right throughout a connection.
LEMMA LedgerInvariant == Spec => []Ledger
  <1>1. Inv /\ Ledger /\ [Next]_vars => Ledger'
    <2> SUFFICES ASSUME Inv, Ledger, [Next]_vars
                 PROVE  Ledger'
      OBVIOUS
    <2>1. CASE BrowserNext /\ UNCHANGED relayVars
      BY <2>1, BrowserLedger
    <2>2. CASE BlockingNext /\ UNCHANGED relayVars
      BY <2>2, BlockingLedger
    <2>3. CASE \/ \E c \in Commands : ClientSends(c)
               \/ ClientSendsInvalid \/ ClientLeaves \/ LeaseLost
               \/ Relaying \/ UNCHANGED vars
      BY <2>3, RelayLedger
    <2> QED
      BY <2>1, <2>2, <2>3 DEF Next, Done
  <1> QED
    BY <1>1, LedgerInitially, Invariant, PTL DEF Spec

\* Whatever the order of commands, responses, cancellations and failures, and however many
\* methods the client uses: the command summary and the pending commands account for every
\* observed command exactly once, the summary keeps to its limit, and a method is charged
\* only with answers the browser gave to its own commands (command_received,
\* _finish_command, _pop_pending_for_id and interrupt_pending of events/cdp.py).
THEOREM SummaryIsExact == Spec => []SummaryExact
  <1>1. Ledger => SummaryExact
    <2> SUFFICES ASSUME Ledger
                 PROVE  SummaryExact
      OBVIOUS
    <2> USE DEF Ledger
    <2>1. CommandsCountedOnce
      BY DEF CommandsCountedOnce, CountInv, UsageShape, PendingInv
    <2>2. ASSUME NEW m \in DOMAIN usage \ {OtherMethod}
          PROVE  /\ usage[m].failed
                      <= Cardinality({v \in verdicts : v[1].method = m /\ v[2] = FALSE})
                 /\ usage[m].count - usage[m].failed - usage[m].interrupted
                      <= Cardinality({v \in verdicts : v[1].method = m /\ v[2] = TRUE})
      <3> DEFINE answers(ok) == {v \in verdicts : v[1].method = m /\ v[2] = ok}
      <3>1. \A ok : /\ IsFiniteSet(answers(ok)) /\ Charged(m, ok) \in SUBSET answers(ok)
        <4>1. \A ok : answers(ok) \in SUBSET verdicts
          OBVIOUS
        <4>2. IsFiniteSet(verdicts)
          BY DEF PendingInv
        <4>3. \A ok : IsFiniteSet(answers(ok))
          BY <4>1, <4>2, FS_Subset
        <4> QED
          BY <4>3 DEF Charged
      <3> HIDE DEF answers
      <3>2. \A ok : /\ Cardinality(answers(ok)) \in Nat /\ Cardinality(Charged(m, ok)) \in Nat
                    /\ Cardinality(Charged(m, ok)) <= Cardinality(answers(ok))
        BY <3>1, FS_Subset, FS_CardinalityType
      <3>3. PICK e \in Nat, f \in Int :
                e = RowOf(usage, m).failed /\ f = Succeeded(RowOf(usage, m))
        BY RowsAre DEF CountInv
      <3>4. e <= Cardinality(Charged(m, FALSE)) /\ f <= Cardinality(Charged(m, TRUE))
        BY <3>3 DEF CountInv
      <3>5. e <= Cardinality(answers(FALSE)) /\ f <= Cardinality(answers(TRUE))
        <4>1. PICK a, b, c, d :
                /\ a = Cardinality(Charged(m, FALSE)) /\ b = Cardinality(Charged(m, TRUE))
                /\ c = Cardinality(answers(FALSE)) /\ d = Cardinality(answers(TRUE))
          OBVIOUS
        <4>2. a \in Nat /\ b \in Nat /\ c \in Nat /\ d \in Nat /\ a <= c /\ b <= d
          BY <3>2, <4>1
        <4>3. e <= a /\ f <= b
          BY <3>4, <4>1
        <4>4. e <= c /\ f <= d
          BY <4>2, <4>3
        <4> QED
          BY <4>1, <4>4
      <3>6. /\ e = usage[m].failed
            /\ f = usage[m].count - usage[m].failed - usage[m].interrupted
        BY <3>3 DEF RowOf, Succeeded
      <3> QED
        BY <3>5, <3>6 DEF answers
    <2>3. ResultsOfItsOwn
      BY <2>2 DEF ResultsOfItsOwn
    <2> QED
      BY <2>1, <2>3 DEF SummaryExact
  <1> QED
    BY <1>1, LedgerInvariant, PTL
==========================================================================

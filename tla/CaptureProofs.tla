---------------------------- MODULE CaptureProofs ----------------------------
(***************************************************************************)
(* Proofs about Capture, for any thresholds of the method cache and any    *)
(* number of faults and of comparisons by others: what a capture was       *)
(* granted is returned, it renders only on capacity of its own, resolvers  *)
(* run only where they may, plain HTTP is answered only on evidence, and   *)
(* what it reports about itself is what happened.                          *)
(***************************************************************************)
EXTENDS Capture, TLAPS

Resolvers == {"local_resolution", "challenge_resolution"}
BrowserTiers == {"managed"} \cup Resolvers

\* The awaits before a browser is asked for.
Admission == {"policy", "admit", "open", "pace", "offer", "fetch"}
Early == Admission \cup {"classify", "exact", "pattern"}
SlotStages == {"slotEnqueue", "slotWait", "slotActivate"}
CloudStages == {"cloudEnqueue", "cloudWait", "slotReturn", "cloudActivate"}

RowStates == {"none", "ended"} \cup Live
Entries == [sufficient : Nat, contradictions : Nat, lastSufficient : BOOLEAN]
Evidences ==
    [tier : {"direct"} \cup BrowserTiers,
     primary : {"bot_challenge", "rate_limited", "matches", "differs", "other"},
     status : Nat, read : BOOLEAN, decision : {"accept", "escalate", "fail"}]

\* The type invariant, of the variables the proofs are about.
TypeOK ==
    /\ pc \in Capturing \cup Cleaning \cup Ended
    /\ rows \in [Resources -> RowStates] /\ held \subseteq Resources
    /\ faults \in Nat
    /\ attempts \in Seq(Evidences)
    /\ cache \in [url : Entries, pattern : Entries]

\* The sessions, leases and attempts: without its session nothing is left of a
\* capture's browsers, and its cleanup comes to whatever is granted, unless the
\* session was granted to a capture that was gone.
GrantsInv ==
    /\ rows["session"] \notin Live => rows["slot"] \notin Live /\ rows["cloud"] \notin Live
    /\ pc \in {"policy", "admit"} => \A r \in Resources : rows[r] = "none"
    /\ pc \in {"open", "pace"} => rows["lease"] = "none"
    /\ faults = 0 /\ pc # "cut" =>
          /\ rows["lease"] \in Live => "lease" \in held /\ pc \in Capturing \cup {"dropLease"}
          /\ rows["session"] \in Live => pc \notin Ended \/ stranded
    /\ stranded =>
          /\ pc \in {"refused", "abandoned"}
          /\ rows["lease"] = "none" /\ rows["slot"] = "none" /\ rows["cloud"] = "none"

\* The browser capacity at each stage of a render.
StagesInv ==
    /\ pc \in Early \cup {"slotEnqueue"} => rows["slot"] = "none" /\ "slot" \notin held
    /\ pc \in Early => rows["cloud"] = "none"
    /\ pc \in SlotStages => tier # "challenge_resolution"
    /\ pc \in CloudStages => tier = "challenge_resolution"
    /\ pc \in Rendering /\ tier # "challenge_resolution" => rows["cloud"] = "none"
    /\ pc = "slotActivate" => "slot" \in held
    /\ pc = "browser" /\ tier # "challenge_resolution" => "slot" \in held
    /\ ~lost =>
          /\ pc = "browser" /\ tier # "challenge_resolution" => rows["slot"] = "active"
          /\ pc \in {"cloudWait", "slotReturn"} => "slot" \in held \/ rows["slot"] \notin Live
          /\ pc = "cloudActivate" \/ (pc = "browser" /\ tier = "challenge_resolution") =>
                rows["slot"] \notin Live \/ faults > 0
          /\ pc = "browser" /\ tier = "challenge_resolution" => rows["cloud"] = "active"
    /\ rows["cloud"] # "none" => allow /\ offered

\* The evidence of a capture, and what a tier that is rendered has of it.
Gated(list) ==
    \A i \in 1..Len(list) :
        /\ \A j \in 1..(i - 1) : list[j].tier # list[i].tier
        /\ list[i].tier \in Resolvers =>
              /\ allow
              /\ \E j \in 1..(i - 1) : list[j].primary = "bot_challenge"
              /\ \A j \in 1..(i - 1) :
                    Limiting(list[j]) => list[j].tier = "local_resolution" /\ ~list[j].read
        /\ list[i].tier = "challenge_resolution" =>
              \E j \in 1..(i - 1) : list[j].tier = "local_resolution"

MayRun(t, list) ==
    /\ t \in BrowserTiers
    /\ \A i \in 1..Len(list) :
          /\ list[i].tier # t
          /\ Limiting(list[i]) =>
                t = "challenge_resolution" /\ list[i].tier = "local_resolution" /\ ~list[i].read
    /\ t \in Resolvers => allow /\ \E i \in 1..Len(list) : list[i].primary = "bot_challenge"
    /\ t = "challenge_resolution" =>
          offered /\ \E i \in 1..Len(list) : list[i].tier = "local_resolution"

EvidenceInv ==
    /\ Gated(attempts)
    /\ pc \in Admission \cup {"classify"} => attempts = <<>>
    /\ pc = "classify" => page \in Classified
    /\ pc \in {"exact", "pattern"} =>
          /\ page = "usable"
          /\ \E e \in Evidences : attempts = <<e>> /\ e.tier = "direct" /\ ~Limiting(e)
    /\ pc \in Rendering => MayRun(tier, attempts) /\ attempts # <<>>
    /\ pc = "compare" => attempts # <<>>

\* The answer: none before the capture is cleaned up; and doubts about a URL
\* are in its entry when the entry is read.
ResultInv ==
    /\ pc \in Capturing => result = NoResult
    /\ pc \in Early /\ pc # "exact" => ~doubted
    /\ pc = "exact" /\ doubted => cache.url.contradictions > 0
    /\ PlainNeedsEvidence

Inv == GrantsInv /\ StagesInv /\ EvidenceInv /\ ResultInv

\* The evidence as the reports read it: an answer that limits the client, unless
\* it is another host's; the attempts that name a URL, and such an answer as the
\* last one; no accepted attempt; and the last one as the only one accepted.
Limited(e) == e.status # Unnamed /\ (e.status = Elsewhere \/ Limiting(e))
Named(list) == {i \in 1..Len(list) : list[i].status # Unnamed}
EndsLimited(list) == Len(list) > 0 /\ Limited(list[Len(list)])
Undecided(list) == \A i \in 1..Len(list) : list[i].decision # "accept"
AcceptedLast(list) ==
    /\ Len(list) > 0 /\ list[Len(list)].decision = "accept"
    /\ \A i \in 1..(Len(list) - 1) : list[i].decision # "accept"

\* The last attempt was rendered and accepted, on capacity that was granted.
RenderUsed ==
    /\ AcceptedLast(attempts) /\ attempts[Len(attempts)].tier = tier /\ tier \in BrowserTiers
    /\ IF tier = "challenge_resolution" THEN paid /\ rows["cloud"] # "none" ELSE rows["slot"] # "none"

RenderedPage(r) == r.outcome = "captured" /\ r.document = "rendered"

\* What a capture used, against the tier it came to, as long as it knows it: an
\* exception forgets the tier and the evidence.
UseInv ==
    /\ paid \in BOOLEAN
    /\ result # NoResult \/ pc \in Capturing =>
          (rows["cloud"] # "none" \/ paid => tier = "challenge_resolution")
    /\ "slot" \in held => rows["slot"] # "none"
    /\ pc \in Early => tier # "challenge_resolution"
    /\ pc \in Rendering => Undecided(attempts)
    /\ pc = "browser" => rows[IF tier = "challenge_resolution" THEN "cloud" ELSE "slot"] # "none"
    /\ pc = "compare" \/ RenderedPage(result) => RenderUsed

\* What a capture reports: nothing before its cleanup, and afterwards the facts
\* of the evidence it has, as long as it has it.
ReportInv ==
    /\ pc \in Capturing \cup {"dropLease", "record"} => recorded = {}
    /\ pc \in Capturing \cup {"dropLease"} => observed = "none"
    /\ pc # "cut" => recorded \subseteq {CaptureFacts(attempts, result, paid)}
    /\ pc = "cut" => FactsMatchUse
    /\ result.failure = "rate_limited" => EndsLimited(attempts)
    /\ ThrottleReported

-----------------------------------------------------------------------------
(* Evidence.                                                               *)

\* The kinds that the tables know.
LEMMA Domains ==
    /\ DOMAIN FetchFailure = {"unreachable", "hostNotFound", "redirectLoop", "excludedHop", "unsupported"}
    /\ DOMAIN PlainEnding = {"largeLimited", "largeData", "sniffed", "json", "jsonLimited", "jsonEmpty",
                             "xml", "binary", "blank", "limited", "denied", "notFound", "serverError"}
    /\ DOMAIN RaisedFailure = {"busy", "timeout", "broken"}
    /\ DOMAIN FailedRender = {"refusedNavigation", "stalled", "unreadable"}
    /\ DOMAIN ReasonFailure = {"limited", "denied", "notFound", "serverError"}
  BY DEF FetchFailure, PlainEnding, RaisedFailure, FailedRender, ReasonFailure

\* What an answer is assessed as: limiting only where its kind says so, or where
\* a render brought no page.
LEMMA Assessed ==
    ASSUME NEW kind, NEW seen \in Assessments(kind)
    PROVE  /\ seen.primary \in {"bot_challenge", "rate_limited", "matches", "differs", "other"}
           /\ seen.status \in Nat
           /\ kind \in {"challenge", "block"} => seen.primary = "bot_challenge"
           /\ seen.status = 429 \/ seen.primary = "rate_limited" =>
                 kind \in DOMAIN FailedRender \cup {"limited", "largeLimited", "jsonLimited"}
           /\ kind \in {"limited", "largeLimited", "jsonLimited"} =>
                 /\ seen.status # Unnamed
                 /\ seen.status = Elsewhere \/ seen.status = 429 \/ seen.primary = "rate_limited"
  <1>1. CASE kind \in DOMAIN FailedRender
    BY <1>1, Domains DEF Assessments, Elsewhere
  <1>2. CASE kind \notin DOMAIN FailedRender
    <2>1. seen.primary = PrimaryOf(kind) /\ seen.status \in Statuses(kind)
      BY <1>2 DEF Assessments
    <2>2. /\ PrimaryOf(kind) \in {"bot_challenge", "rate_limited", "matches", "differs", "other"}
          /\ kind \in {"challenge", "block"} => PrimaryOf(kind) = "bot_challenge"
          /\ PrimaryOf(kind) = "rate_limited" <=> kind \in {"limited", "largeLimited"}
      BY DEF PrimaryOf
    <2>3. /\ Statuses(kind) \subseteq {Unnamed, Elsewhere, 200, 403, 429}
          /\ 429 \in Statuses(kind) => kind \in {"limited", "largeLimited", "jsonLimited"}
          /\ kind = "limited" => Unnamed \notin Statuses(kind)
          /\ kind \in {"largeLimited", "jsonLimited"} => Statuses(kind) = {429, Elsewhere}
      BY DEF Statuses, Unnamed, Elsewhere
    <2> QED
      BY <2>1, <2>2, <2>3 DEF Unnamed, Elsewhere
  <1> QED
    BY <1>1, <1>2

\* Attempts are evidence.
LEMMA AttemptType ==
    ASSUME NEW t \in {"direct"} \cup BrowserTiers, NEW kind, NEW seen \in Assessments(kind),
           NEW d \in {"accept", "escalate", "fail"}, NEW e, e = Attempt(t, kind, seen, d)
    PROVE  /\ e \in Evidences /\ e.tier = t /\ e.decision = d
           /\ e.read <=> kind \notin DOMAIN FailedRender
           /\ kind \in {"challenge", "block"} => e.primary = "bot_challenge"
           /\ Limiting(e) => kind \in DOMAIN FailedRender \cup {"limited", "largeLimited", "jsonLimited"}
           /\ kind \in {"limited", "largeLimited", "jsonLimited"} => Limited(e)
  <1>1. /\ e.tier = t /\ e.primary = seen.primary /\ e.status = seen.status /\ e.decision = d
        /\ e.read = (kind \notin DOMAIN FailedRender)
    BY DEF Attempt
  <1>2. seen.primary \in {"bot_challenge", "rate_limited", "matches", "differs", "other"} /\ seen.status \in Nat
    BY Assessed
  <1>3. e \in Evidences
    BY <1>2 DEF Attempt, Evidences
  <1>4. /\ kind \in {"challenge", "block"} => seen.primary = "bot_challenge"
        /\ seen.status = 429 \/ seen.primary = "rate_limited" =>
              kind \in DOMAIN FailedRender \cup {"limited", "largeLimited", "jsonLimited"}
        /\ kind \in {"limited", "largeLimited", "jsonLimited"} =>
              /\ seen.status # Unnamed
              /\ seen.status = Elsewhere \/ seen.status = 429 \/ seen.primary = "rate_limited"
    BY Assessed
  <1>5. /\ Limiting(e) <=> seen.status = 429 \/ seen.primary = "rate_limited"
        /\ Limited(e) <=> /\ seen.status # Unnamed
                          /\ seen.status = Elsewhere \/ seen.status = 429 \/ seen.primary = "rate_limited"
    BY <1>1 DEF Limiting, Limited
  <1> QED
    BY <1>1, <1>3, <1>4, <1>5

\* An attempt that raised says nothing of the site.
LEMMA RaisedType ==
    ASSUME NEW t \in {"direct"} \cup BrowserTiers, NEW p \in {"bot_challenge", "other"},
           NEW e, e = RaisedAttempt(t, p)
    PROVE  e \in Evidences /\ e.tier = t /\ e.primary = p /\ ~Limiting(e)
  BY DEF RaisedAttempt, Evidences, Limiting, Unnamed

\* A decision changes nothing but the decision.
LEMMA DecideKeeps ==
    ASSUME NEW list \in Seq(Evidences), NEW d \in {"accept", "escalate", "fail"}
    PROVE  /\ Decide(list, d) \in Seq(Evidences) /\ Len(Decide(list, d)) = Len(list)
           /\ \A i \in 1..Len(list) : /\ Decide(list, d)[i].tier = list[i].tier
                                      /\ Decide(list, d)[i].primary = list[i].primary
                                      /\ Decide(list, d)[i].status = list[i].status
                                      /\ Decide(list, d)[i].read = list[i].read
  <1>1. CASE list = <<>>
    BY <1>1 DEF Decide
  <1>2. CASE list # <<>>
    <2> DEFINE n == Len(list)
               e == [list[n] EXCEPT !.decision = d]
    <2>1. n \in 1..Len(list) /\ list[n] \in Evidences
      BY <1>2
    <2>2. /\ e \in Evidences /\ e.tier = list[n].tier /\ e.primary = list[n].primary
          /\ e.status = list[n].status /\ e.read = list[n].read
      BY <2>1 DEF Evidences
    <2>3. Decide(list, d) = [list EXCEPT ![n] = e]
      BY <1>2 DEF Decide
    <2> HIDE DEF e
    <2>4. [list EXCEPT ![n] = e] \in Seq(Evidences) /\ Len([list EXCEPT ![n] = e]) = Len(list)
      BY <2>1, <2>2
    <2>5. \A i \in 1..Len(list) : [list EXCEPT ![n] = e][i] = IF i = n THEN e ELSE list[i]
      BY <2>1
    <2> QED
      BY <2>2, <2>3, <2>4, <2>5
  <1> QED
    BY <1>1, <1>2

\* Deciding about the last result neither adds nor takes away a tier that was run.
LEMMA GatedDecide ==
    ASSUME NEW list \in Seq(Evidences), NEW d \in {"accept", "escalate", "fail"}
    PROVE  /\ Gated(list) => Gated(Decide(list, d))
           /\ \A t : MayRun(t, list) => MayRun(t, Decide(list, d))
  <1>1. Len(Decide(list, d)) = Len(list) /\ Len(list) \in Nat
        /\ \A i \in 1..Len(list) : /\ Decide(list, d)[i].tier = list[i].tier
                                   /\ Decide(list, d)[i].primary = list[i].primary
                                   /\ Decide(list, d)[i].read = list[i].read
                                   /\ Limiting(Decide(list, d)[i]) <=> Limiting(list[i])
    BY DecideKeeps DEF Limiting
  <1>2. Gated(list) => Gated(Decide(list, d))
    <2> DEFINE new == Decide(list, d)
    <2> HIDE DEF new
    <2>1. /\ Len(new) = Len(list) /\ Len(list) \in Nat
          /\ \A i \in 1..Len(list) : /\ new[i].tier = list[i].tier /\ new[i].primary = list[i].primary
                                     /\ new[i].read = list[i].read
                                     /\ Limiting(new[i]) <=> Limiting(list[i])
      BY <1>1 DEF new
    <2>2. \A i \in 1..Len(list) : \A j \in 1..(i - 1) : j \in 1..Len(list)
      BY <2>1
    <2> SUFFICES ASSUME Gated(list), NEW i \in 1..Len(list)
                 PROVE  /\ \A j \in 1..(i - 1) : new[j].tier # new[i].tier
                        /\ new[i].tier \in Resolvers =>
                              /\ allow
                              /\ \E j \in 1..(i - 1) : new[j].primary = "bot_challenge"
                              /\ \A j \in 1..(i - 1) :
                                    Limiting(new[j]) => new[j].tier = "local_resolution" /\ ~new[j].read
                        /\ new[i].tier = "challenge_resolution" =>
                              \E j \in 1..(i - 1) : new[j].tier = "local_resolution"
      BY <2>1 DEF Gated, new
    <2>3. /\ \A j \in 1..(i - 1) : list[j].tier # list[i].tier
          /\ list[i].tier \in Resolvers =>
                /\ allow
                /\ \E j \in 1..(i - 1) : list[j].primary = "bot_challenge"
                /\ \A j \in 1..(i - 1) :
                      Limiting(list[j]) => list[j].tier = "local_resolution" /\ ~list[j].read
          /\ list[i].tier = "challenge_resolution" =>
                \E j \in 1..(i - 1) : list[j].tier = "local_resolution"
      BY DEF Gated
    <2> QED
      BY <2>1, <2>2, <2>3
  <1>3. \A t : MayRun(t, list) => MayRun(t, Decide(list, d))
    BY <1>1 DEF MayRun
  <1> QED
    BY <1>2, <1>3

\* The tiers of a list.
LEMMA Tiers ==
    ASSUME NEW list \in Seq(Evidences)
    PROVE  \A t : t \in TiersOf(list) <=> \E i \in 1..Len(list) : list[i].tier = t
  BY DEF TiersOf, ToSet

\* A tier that may run adds its attempt.
LEMMA GatedAppend ==
    ASSUME NEW list \in Seq(Evidences), Gated(list), NEW e \in Evidences, MayRun(e.tier, list)
    PROVE  /\ Append(list, e) \in Seq(Evidences) /\ Append(list, e) # <<>>
           /\ Len(Append(list, e)) = Len(list) + 1 /\ Append(list, e)[Len(list) + 1] = e
           /\ \A i \in 1..Len(list) : Append(list, e)[i] = list[i]
           /\ Gated(Append(list, e))
  <1> DEFINE new == Append(list, e)
  <1>1. /\ new \in Seq(Evidences) /\ Len(new) = Len(list) + 1 /\ Len(list) \in Nat
        /\ new[Len(list) + 1] = e /\ \A i \in 1..Len(list) : new[i] = list[i]
    OBVIOUS
  <1>2. new # <<>>
    BY <1>1
  <1> HIDE DEF new
  <1>3. Gated(new)
    <2> SUFFICES ASSUME NEW i \in 1..Len(new)
                 PROVE  /\ \A j \in 1..(i - 1) : new[j].tier # new[i].tier
                        /\ new[i].tier \in Resolvers =>
                              /\ allow
                              /\ \E j \in 1..(i - 1) : new[j].primary = "bot_challenge"
                              /\ \A j \in 1..(i - 1) :
                                    Limiting(new[j]) => new[j].tier = "local_resolution" /\ ~new[j].read
                        /\ new[i].tier = "challenge_resolution" =>
                              \E j \in 1..(i - 1) : new[j].tier = "local_resolution"
      BY DEF Gated
    <2>1. CASE i \in 1..Len(list)
      <3>1. new[i] = list[i] /\ \A j \in 1..(i - 1) : new[j] = list[j]
        BY <1>1, <2>1
      <3>2. /\ \A j \in 1..(i - 1) : list[j].tier # list[i].tier
            /\ list[i].tier \in Resolvers =>
                  /\ allow
                  /\ \E j \in 1..(i - 1) : list[j].primary = "bot_challenge"
                  /\ \A j \in 1..(i - 1) :
                        Limiting(list[j]) => list[j].tier = "local_resolution" /\ ~list[j].read
            /\ list[i].tier = "challenge_resolution" =>
                  \E j \in 1..(i - 1) : list[j].tier = "local_resolution"
        BY <2>1 DEF Gated
      <3> QED
        BY <3>1, <3>2
    <2>2. CASE i = Len(list) + 1
      BY <1>1, <2>2 DEF MayRun
    <2> QED
      BY <1>1, <2>1, <2>2
  <1> QED
    BY <1>1, <1>2, <1>3 DEF new

\* _next_resolution offers a tier only where it may run.
LEMMA NextMayRun ==
    ASSUME NEW list \in Seq(Evidences), NEW t, t = NextResolution(allow, offered, list), t # "none"
    PROVE  /\ t \in Resolvers /\ allow
           /\ \A i \in 1..Len(list) : list[i].tier # t
           /\ t = "challenge_resolution" =>
                 offered /\ \E i \in 1..Len(list) : list[i].tier = "local_resolution"
  BY Tiers DEF NextResolution, Resolvers

-----------------------------------------------------------------------------
(* Where a step may lead.                                                  *)

\* The capture goes on to its cleanup.
Finishes == pc' = IF "lease" \in held THEN "dropLease" ELSE AfterLease

\* A step leaves the rows in order, whatever it did to them.
RowsSafe ==
    /\ rows' \in [Resources -> RowStates] /\ faults' \in Nat /\ UNCHANGED <<held, stranded, allow, offered>>
    /\ rows'["session"] \notin Live => rows'["slot"] \notin Live /\ rows'["cloud"] \notin Live
    /\ faults' = 0 => faults = 0 /\ (rows'["lease"] \in Live => rows["lease"] \in Live)
    /\ rows'["cloud"] # "none" => allow /\ offered

\* A step leaves the evidence and the answer in order.
EvidenceSafe ==
    /\ attempts' \in Seq(Evidences) /\ Gated(attempts)'
    /\ cache' \in [url : Entries, pattern : Entries]
    /\ PlainNeedsEvidence'

\* The cleanup begins with the lease, or without one.
LEMMA FinishesIn ==
    ASSUME Finishes
    PROVE  /\ pc' \in Cleaning /\ (pc' = "dropLease" \/ "lease" \notin held)
           /\ pc' \notin Capturing \cup Ended
  BY DEF Finishes, AfterLease, AfterRecord, AfterCloud, Cleaning, Capturing, Ended

\* A capture that finishes goes into its cleanup, from wherever it was.
LEMMA FinishInv ==
    ASSUME TypeOK, Inv, pc \in Capturing \ {"policy", "admit"}, Finishes, RowsSafe, EvidenceSafe
    PROVE  TypeOK' /\ Inv'
  <1>1. /\ pc' \in Cleaning /\ (pc' = "dropLease" \/ "lease" \notin held)
        /\ pc' \notin Capturing \cup Ended
    BY FinishesIn
  <1>2. TypeOK'
    BY <1>1 DEF TypeOK, RowsSafe, EvidenceSafe
  <1>3. GrantsInv'
    <2>1. ~stranded /\ (faults = 0 => (rows["lease"] \in Live => "lease" \in held))
      BY DEF Inv, GrantsInv, Capturing
    <2> QED
      BY <1>1, <2>1 DEF GrantsInv, RowsSafe, Cleaning
  <1>4. StagesInv'
    BY <1>1 DEF StagesInv, RowsSafe, Cleaning, Early, Admission, SlotStages, CloudStages, Rendering
  <1>5. EvidenceInv'
    BY <1>1 DEF EvidenceInv, EvidenceSafe, Cleaning, Admission, Rendering
  <1>6. ResultInv'
    BY <1>1 DEF ResultInv, EvidenceSafe, Cleaning, Early, Admission
  <1> QED
    BY <1>2, <1>3, <1>4, <1>5, <1>6 DEF Inv

\* The capture goes on to ask for a cloud attempt.
LEMMA CloudInv ==
    ASSUME TypeOK, Inv, pc \in Rendering, pc' = "cloudEnqueue", tier' = "challenge_resolution",
           RowsSafe, EvidenceSafe, MayRun(tier, attempts)', attempts' # <<>>, UNCHANGED result
    PROVE  TypeOK' /\ Inv'
  <1>1. pc \in Capturing \ {"policy", "admit"} /\ pc' \in Capturing /\ pc' \in Rendering
    BY DEF Rendering, Capturing
  <1>2. TypeOK'
    BY <1>1 DEF TypeOK, RowsSafe, EvidenceSafe
  <1>3. GrantsInv'
    <2>1. ~stranded /\ (faults = 0 => (rows["lease"] \in Live => "lease" \in held))
      BY <1>1 DEF Inv, GrantsInv, Rendering
    <2> QED
      BY <1>1, <2>1 DEF GrantsInv, RowsSafe, Ended
  <1>4. StagesInv'
    BY DEF StagesInv, RowsSafe, Early, Admission, SlotStages
  <1>5. EvidenceInv'
    BY DEF EvidenceInv, EvidenceSafe, Admission
  <1>6. ResultInv'
    BY <1>1 DEF ResultInv, EvidenceSafe, Early, Admission, Inv
  <1> QED
    BY <1>2, <1>3, <1>4, <1>5, <1>6 DEF Inv

\* The capture asks for its slot.
LEMMA SlotInv ==
    ASSUME TypeOK, Inv, pc \in (Early \ Admission) \cup {"fetch"}, pc' = "slotEnqueue",
           tier' \in {"managed", "local_resolution"}, UNCHANGED store, UNCHANGED given,
           EvidenceSafe, MayRun(tier, attempts)', attempts' # <<>>, UNCHANGED result
    PROVE  TypeOK' /\ Inv'
  <1>1. pc \in Capturing \ {"policy", "admit"} /\ pc' \in Capturing /\ pc' \in Rendering /\ pc \in Early
    BY DEF Early, Admission, Capturing, Rendering
  <1>2. TypeOK'
    BY <1>1 DEF TypeOK, EvidenceSafe, store
  <1>3. GrantsInv'
    <2>1. ~stranded /\ (faults = 0 => (rows["lease"] \in Live => "lease" \in held))
      BY <1>1 DEF Inv, GrantsInv, Early, Admission
    <2> QED
      BY <1>1, <2>1 DEF Inv, GrantsInv, store, Ended
  <1>4. StagesInv'
    BY <1>1 DEF Inv, StagesInv, store, given, Early, Admission, SlotStages, CloudStages
  <1>5. EvidenceInv'
    BY DEF EvidenceInv, EvidenceSafe, Admission
  <1>6. ResultInv'
    BY <1>1 DEF ResultInv, EvidenceSafe, Early, Admission, Inv
  <1> QED
    BY <1>2, <1>3, <1>4, <1>5, <1>6 DEF Inv

\* Unchanged rows are in order, and so is what an interruption leaves.
LEMMA UnchangedSafe ==
    ASSUME TypeOK, Inv, UNCHANGED store, UNCHANGED given
    PROVE  RowsSafe
  BY DEF RowsSafe, TypeOK, Inv, GrantsInv, StagesInv, store, given

\* A stage that is cut off leaves what the store holds as the invariant wants it.
LEMMA UnwoundSafe ==
    ASSUME TypeOK, Inv, pc \in Capturing \ {"policy", "admit"}, Unwound,
           UNCHANGED <<held, lost, stranded, given>>
    PROVE  RowsSafe
  <1>a. /\ rows \in [Resources -> RowStates] /\ faults \in Nat
        /\ rows["session"] \notin Live => rows["slot"] \notin Live /\ rows["cloud"] \notin Live
        /\ rows["cloud"] # "none" => allow /\ offered
    BY DEF TypeOK, Inv, GrantsInv, StagesInv
  <1>b. pc \in {"cloudEnqueue", "cloudWait"} => allow /\ offered
    BY DEF Inv, StagesInv, EvidenceInv, MayRun, CloudStages, Rendering, Resolvers
  <1>c. \A r \in Resources, s \in RowStates : [rows EXCEPT ![r] = s] \in [Resources -> RowStates]
    BY <1>a
  <1> USE DEF Resources, RowStates, Live
  <1>1. CASE Untouched
    BY <1>1, <1>a DEF Untouched, RowsSafe, given
  <1>2. CASE pc = "pace" /\ Withdrawn("lease", TRUE)
    BY <1>2, <1>a, <1>c DEF Withdrawn, Row, RowsSafe, given
  <1>3. CASE Withdrawn("slot", SlotAdmissible)
    BY <1>3, <1>a, <1>c DEF Withdrawn, Row, RowsSafe, given, SlotAdmissible
  <1>4. CASE pc \in {"cloudEnqueue", "cloudWait"} /\ Withdrawn("cloud", CloudAdmissible)
    BY <1>4, <1>a, <1>b, <1>c DEF Withdrawn, Row, RowsSafe, given, CloudAdmissible
  <1>5. CASE Committed("slot")
    BY <1>5, <1>a, <1>c DEF Committed, Row, RowsSafe, given
  <1>6. CASE Committed("cloud")
    BY <1>6, <1>a, <1>c DEF Committed, Row, RowsSafe, given
  <1>7. \/ Untouched
        \/ pc = "pace" /\ Withdrawn("lease", TRUE)
        \/ Withdrawn("slot", SlotAdmissible)
        \/ pc \in {"cloudEnqueue", "cloudWait"} /\ Withdrawn("cloud", CloudAdmissible)
        \/ Committed("slot")
        \/ Committed("cloud")
    BY DEF Unwound, Untouched, Withdrawn, Committed, Row
  <1> QED
    BY <1>1, <1>2, <1>3, <1>4, <1>5, <1>6, <1>7

-----------------------------------------------------------------------------
(* The end of a tier.                                                      *)

\* A failed result needs no evidence, and keeps its outcome.
LEMMA FailedPlain ==
    ASSUME NEW r, NEW kind, r.outcome = "captured" => r.document # "plain",
           r = [outcome |-> r.outcome, failure |-> r.failure, document |-> r.document],
           result' = Returned(r, kind)
    PROVE  PlainNeedsEvidence'
  <1>1. ~(result'.outcome = "captured" /\ result'.document = "plain")
    BY DEF Returned
  <1> QED
    BY <1>1 DEF PlainNeedsEvidence

\* A failure is never a captured page.
LEMMA FailedIs ==
    ASSUME NEW code, NEW document
    PROVE  /\ Failed(code, document).outcome # "captured"
           /\ Failed(code, document) = [outcome |-> Failed(code, document).outcome,
                                        failure |-> Failed(code, document).failure,
                                        document |-> Failed(code, document).document]
  BY DEF Failed

\* However a render ends a capture, it does not make it answer with the bytes
\* of plain HTTP.
LEMMA EndingIs ==
    ASSUME NEW t, NEW plain, NEW usable \in BOOLEAN, NEW blocked \in BOOLEAN,
           NEW kind \in (RenderedKinds \ Compared) \cup DOMAIN RaisedFailure \cup {"notPassed"},
           NEW r, r = RenderEnding(t, kind, plain, usable, blocked)
    PROVE  /\ r.outcome = "captured" => r.document # "plain"
           /\ r = [outcome |-> r.outcome, failure |-> r.failure, document |-> r.document]
  <1>1. \/ \E code, document : r = Failed(code, document)
        \/ r = Captured("rendered")
    <2>1. CASE kind \in {"excluded", "challenge", "block", "emptyText", "emptySmall", "empty", "notPassed"}
      BY <2>1, Domains DEF RenderEnding, BrowserRefused
    <2>2. CASE kind \in DOMAIN FailedRender \cup DOMAIN RaisedFailure
      BY <2>2, Domains DEF RenderEnding, BrowserRefused
    <2>3. CASE kind \in BrowserRefused \cup {"notFound"}
      BY <2>3, Domains DEF RenderEnding, BrowserRefused
    <2> QED
      BY <2>1, <2>2, <2>3 DEF RenderedKinds
  <1> QED
    BY <1>1 DEF Failed, Captured

\* A tier ends: the capture finishes, asks for the cloud, or, after a managed
\* render that met bot protection, for local resolution on the slot it has.
LEMMA AfterLeads ==
    ASSUME TypeOK, Inv, pc \in Rendering, UNCHANGED <<page, given>>,
           NEW kind \in (RenderedKinds \ Compared) \cup DOMAIN RaisedFailure \cup {"notPassed"},
           NEW e \in Evidences, e.tier = tier,
           kind \in {"challenge", "block"} => e.primary = "bot_challenge",
           Limiting(e) => kind = "limited" \/ (kind \in DOMAIN FailedRender /\ ~e.read),
           After(kind, Append(attempts, e))
    PROVE  /\ attempts' \in Seq(Evidences) /\ Gated(attempts)' /\ attempts' # <<>>
           /\ \/ Finishes /\ PlainNeedsEvidence'
              \/ /\ UNCHANGED result /\ MayRun(tier, attempts)'
                 /\ \/ pc' = "cloudEnqueue" /\ tier' = "challenge_resolution"
                    \/ /\ kind \in {"challenge", "block"} /\ tier # "challenge_resolution"
                       /\ tier' = "local_resolution"
                       /\ pc' = IF "slot" \in held THEN "browser" ELSE "slotEnqueue"
  <1> DEFINE list == Append(attempts, e)
             resolution == NextResolution(allow, offered, list)
             next == IF kind \in {"challenge", "block"} THEN resolution
                     ELSE IF kind \in DOMAIN FailedRender \cup DOMAIN RaisedFailure \cup {"notPassed"}
                     THEN FallbackOf(tier, resolution) ELSE "none"
             ending == RenderEnding(tier, kind, Plain, Usable, Blocked)
  <1>a. attempts \in Seq(Evidences) /\ Gated(attempts) /\ MayRun(tier, attempts)
    BY DEF TypeOK, Inv, EvidenceInv
  <1>b. /\ list \in Seq(Evidences) /\ list # <<>> /\ Gated(list)
        /\ Len(list) = Len(attempts) + 1 /\ list[Len(attempts) + 1] = e /\ Len(attempts) \in Nat
        /\ \A i \in 1..Len(attempts) : list[i] = attempts[i]
    BY <1>a, GatedAppend
  <1>c. allow' = allow /\ offered' = offered
    BY DEF given
  <1>d. \/ /\ next # "none" /\ attempts' = Decide(list, "escalate") /\ Renders(next)
        \/ /\ next = "none"
           /\ attempts' = Decide(list, IF ending.outcome = "captured" THEN "accept" ELSE "fail")
           /\ Answers(ending) /\ UNCHANGED tier
    BY DEF After
  <1> HIDE DEF list
  <1>e. ASSUME NEW d \in {"accept", "escalate", "fail"}, attempts' = Decide(list, d)
        PROVE  attempts' \in Seq(Evidences) /\ Gated(attempts)' /\ attempts' # <<>>
    <2>1. attempts' \in Seq(Evidences) /\ Len(attempts') = Len(list) /\ Gated(attempts')
      BY <1>b, <1>e, DecideKeeps, GatedDecide
    <2>2. Gated(attempts)'
      BY <1>c, <2>1 DEF Gated
    <2> QED
      BY <1>b, <2>1, <2>2
  <1>1. CASE next # "none"
    <2>1. next = resolution /\ (kind \notin {"challenge", "block"} => tier = "local_resolution")
      BY <1>1 DEF FallbackOf
    <2>2. /\ next \in Resolvers /\ allow /\ \A i \in 1..Len(list) : list[i].tier # next
          /\ next = "challenge_resolution" =>
                offered /\ \E i \in 1..Len(list) : list[i].tier = "local_resolution"
      BY <1>1, <1>b, <2>1, NextMayRun
    <2>3. kind # "limited"
      BY <1>1, Domains
    <2>0. Len(attempts) + 1 \in 1..Len(list)
      BY <1>b
    <2>4. tier # "challenge_resolution"
      <3>1. tier # next
        BY <1>b, <2>0, <2>2
      <3>2. tier = "challenge_resolution" => \E i \in 1..Len(list) : list[i].tier = "local_resolution"
        BY <1>a, <1>b DEF MayRun
      <3> QED
        BY <2>2, <3>1, <3>2 DEF Resolvers
    <2>4a. ASSUME NEW i \in 1..Len(list), Limiting(list[i])
           PROVE  next = "challenge_resolution" /\ list[i].tier = "local_resolution" /\ ~list[i].read
      <3>1. i = Len(attempts) + 1
        BY <1>a, <1>b, <2>4, <2>4a DEF MayRun
      <3>2. kind \in DOMAIN FailedRender /\ ~e.read
        BY <1>b, <2>3, <2>4a, <3>1
      <3>3. tier = "local_resolution"
        BY <2>1, <3>2, Domains
      <3> QED
        BY <1>b, <2>0, <2>2, <3>1, <3>2, <3>3 DEF Resolvers
    <2>5. \E i \in 1..Len(list) : list[i].primary = "bot_challenge"
      BY <1>a, <1>b, <2>1 DEF MayRun, Resolvers
    <2>6. MayRun(next, list)
      BY <2>2, <2>4a, <2>5 DEF MayRun, BrowserTiers
    <2>7. next = "local_resolution" => tier # "local_resolution"
      BY <1>b, <2>0, <2>2
    <2> HIDE DEF next
    <2>8. attempts' = Decide(list, "escalate") /\ Renders(next)
      BY <1>1, <1>d DEF next
    <2>9. MayRun(next, attempts')
      BY <1>b, <2>6, <2>8, GatedDecide
    <2>10. CASE left < 2
      <3>1. Finishes /\ result' = Returned(Failed("deadline_exceeded", Kept(page')), page')
        BY <2>8, <2>10 DEF Renders, Answers, Finally, Goto, Finishes
      <3>2. PlainNeedsEvidence'
        BY <3>1, FailedIs, FailedPlain
      <3> QED
        BY <1>e, <2>8, <3>1, <3>2
    <2>11. CASE ~(left < 2)
      <3>1. /\ tier' = next /\ UNCHANGED result
            /\ pc' = (CASE next = "challenge_resolution" -> "cloudEnqueue"
                        [] next # "challenge_resolution" /\ "slot" \in held -> "browser"
                        [] OTHER -> "slotEnqueue")
        BY <2>8, <2>11 DEF Renders, Goto
      <3>2. MayRun(tier, attempts)'
        BY <1>c, <2>9, <3>1 DEF MayRun
      <3>3. CASE next = "challenge_resolution"
        BY <1>e, <2>8, <3>1, <3>2, <3>3
      <3>4. CASE next = "local_resolution"
        <4>1. kind \in {"challenge", "block"} /\ tier # "challenge_resolution"
          BY <2>1, <2>4, <2>7, <3>4
        <4>2. pc' = IF "slot" \in held THEN "browser" ELSE "slotEnqueue"
          BY <3>1, <3>4
        <4> QED
          BY <1>e, <2>8, <3>1, <3>2, <3>4, <4>1, <4>2
      <3> QED
        BY <2>2, <3>3, <3>4 DEF Resolvers
    <2> QED
      BY <2>10, <2>11
  <1>2. CASE next = "none"
    <2>1. /\ Finishes /\ result' = Returned(ending, page')
          /\ \E d \in {"accept", "escalate", "fail"} : attempts' = Decide(list, d)
      BY <1>2, <1>d DEF Answers, Finally, Goto, Finishes
    <2>2. PlainNeedsEvidence'
      <3>1. Usable \in BOOLEAN /\ Blocked \in BOOLEAN
        BY DEF Usable, Blocked
      <3>2. /\ ending.outcome = "captured" => ending.document # "plain"
            /\ ending = [outcome |-> ending.outcome, failure |-> ending.failure, document |-> ending.document]
        BY <3>1, EndingIs
      <3> HIDE DEF ending
      <3> QED
        BY <2>1, <3>2, FailedPlain
    <2> QED
      BY <1>e, <2>1, <2>2
  <1> QED
    BY <1>1, <1>2

\* A render that raises leaves the capture in order.
LEMMA RaisesInv ==
    ASSUME TypeOK, Inv, pc \in Rendering, NEW kind \in DOMAIN RaisedFailure \cup {"notPassed"},
           Raises(kind), RowsSafe, UNCHANGED <<given, evidence>>
    PROVE  TypeOK' /\ Inv'
  <1> DEFINE primary == IF kind = "notPassed" THEN "bot_challenge" ELSE "other"
             e == RaisedAttempt(tier, primary)
  <1>1. MayRun(tier, attempts)
    BY DEF Inv, EvidenceInv
  <1>2. e \in Evidences /\ e.tier = tier /\ ~Limiting(e)
    <2>1. tier \in {"direct"} \cup BrowserTiers /\ primary \in {"bot_challenge", "other"}
      BY <1>1 DEF MayRun
    <2> HIDE DEF primary
    <2> QED
      BY <2>1, RaisedType
  <1>3. kind \notin {"challenge", "block"}
    BY Domains
  <1>4. UNCHANGED page /\ After(kind, Append(attempts, e))
    BY DEF Raises
  <1> HIDE DEF e
  <1>5. /\ attempts' \in Seq(Evidences) /\ Gated(attempts)' /\ attempts' # <<>>
        /\ \/ Finishes /\ PlainNeedsEvidence'
           \/ /\ UNCHANGED result /\ MayRun(tier, attempts)'
              /\ pc' = "cloudEnqueue" /\ tier' = "challenge_resolution"
    BY <1>2, <1>3, <1>4, AfterLeads
  <1>6. cache' \in [url : Entries, pattern : Entries]
    BY DEF TypeOK, evidence
  <1>7. CASE Finishes /\ PlainNeedsEvidence'
    BY <1>5, <1>6, <1>7, FinishInv DEF EvidenceSafe, Rendering, Capturing
  <1>8. CASE /\ UNCHANGED result /\ MayRun(tier, attempts)'
             /\ pc' = "cloudEnqueue" /\ tier' = "challenge_resolution"
    <2>1. PlainNeedsEvidence'
      BY <1>8 DEF PlainNeedsEvidence, Inv, ResultInv, NoResult, Rendering, Capturing
    <2> QED
      BY <1>5, <1>6, <1>8, <2>1, CloudInv DEF EvidenceSafe
  <1> QED
    BY <1>5, <1>7, <1>8

-----------------------------------------------------------------------------
(* The steps.                                                              *)

\* The admission: a session, a pacing lease, and what may be offered.
LEMMA AdmissionSteps ==
    ASSUME TypeOK, Inv,
           ReadPolicy \/ Admitted \/ Refused \/ Opened \/ Paced \/ Throttled \/ ChallengeTier
    PROVE  TypeOK' /\ Inv'
  <1>a. /\ UNCHANGED <<attempts, tier, page, allow, lost, faults, stranded, cache, doubted>>
        /\ pc \in Admission \ {"fetch"} /\ pc \in Early /\ pc \in Capturing
        /\ rows["slot"] = "none" /\ rows["cloud"] = "none" /\ "slot" \notin held
        /\ attempts = <<>> /\ ~doubted /\ result = NoResult
    BY DEF ReadPolicy, Admitted, Refused, Opened, Paced, Throttled, ChallengeTier, store, evidence, given,
           Admission, Early, Capturing, Inv, StagesInv, EvidenceInv, ResultInv
  <1>b. UNCHANGED result
    BY DEF ReadPolicy, Admitted, Refused, Opened, Paced, Throttled, ChallengeTier
  <1>c. EvidenceSafe
    BY <1>a, <1>b DEF EvidenceSafe, TypeOK, Inv, EvidenceInv, Gated, PlainNeedsEvidence, NoResult
  <1>1. CASE ReadPolicy \/ Refused \/ ChallengeTier \/ (Opened /\ pc' = "pace")
    <2>1. /\ \/ pc = "policy" /\ pc' = "admit"
             \/ pc = "admit" /\ pc' = "refused"
             \/ pc = "offer" /\ pc' = "fetch"
             \/ pc = "open" /\ pc' = "pace"
          /\ UNCHANGED <<rows, held>>
      BY <1>1 DEF ReadPolicy, Refused, ChallengeTier, Opened, Goto, store
    <2>2. TypeOK'
      BY <1>a, <2>1 DEF TypeOK, Capturing, Ended
    <2>3. GrantsInv'
      BY <1>a, <2>1 DEF Inv, GrantsInv, Capturing, Ended, Resources, Live
    <2>4. StagesInv'
      BY <1>a, <2>1 DEF Inv, StagesInv, Early, Admission, SlotStages, CloudStages, Rendering
    <2>5. EvidenceInv'
      BY <1>a, <1>c, <2>1 DEF EvidenceSafe, EvidenceInv, Admission, Rendering
    <2>6. ResultInv'
      BY <1>a, <1>b, <1>c, <2>1 DEF EvidenceSafe, ResultInv
    <2> QED
      BY <2>2, <2>3, <2>4, <2>5, <2>6 DEF Inv
  <1>2. CASE Admitted \/ Paced
    <2>1. /\ \/ pc = "admit" /\ pc' = "open" /\ rows' = [rows EXCEPT !["session"] = "active"]
                  /\ held' = held \cup {"session"}
             \/ pc = "pace" /\ pc' = "offer" /\ rows' = [rows EXCEPT !["lease"] = "active"]
                  /\ held' = held \cup {"lease"}
          /\ UNCHANGED offered
      BY <1>2 DEF Admitted, Paced, Row, Goto, given
    <2>2. TypeOK'
      BY <1>a, <2>1, ZenonT(60) DEF TypeOK, Capturing, RowStates, Live, Resources
    <2>3. GrantsInv'
      BY <1>a, <2>1 DEF Inv, GrantsInv, TypeOK, Capturing, Ended, Resources, Live
    <2>4. StagesInv'
      BY <1>a, <2>1 DEF Inv, StagesInv, TypeOK, Early, Admission, SlotStages, CloudStages, Rendering, Resources
    <2>5. EvidenceInv'
      BY <1>a, <1>c, <2>1 DEF EvidenceSafe, EvidenceInv, Admission, Rendering
    <2>6. ResultInv'
      BY <1>a, <1>b, <1>c, <2>1 DEF EvidenceSafe, ResultInv
    <2> QED
      BY <2>2, <2>3, <2>4, <2>5, <2>6 DEF Inv
  <1>3. CASE Throttled \/ (Opened /\ pc' # "pace")
    <2>1. Finishes /\ pc \in {"open", "pace"} /\ UNCHANGED store /\ UNCHANGED given
      BY <1>3 DEF Throttled, Opened, Finally, Goto, Finishes
    <2> QED
      BY <1>c, <2>1, UnchangedSafe, FinishInv DEF Capturing
  <1> QED
    BY <1>1, <1>2, <1>3

\* Rendering begins: on a slot that is asked for, or not at all.
LEMMA RendersInv ==
    ASSUME TypeOK, Inv, pc \in (Early \ Admission) \cup {"fetch"}, NEW next \in {"managed", "local_resolution"},
           Renders(next), attempts' \in Seq(Evidences), Gated(attempts'), attempts' # <<>>,
           MayRun(next, attempts'), UNCHANGED <<given, store, evidence>>
    PROVE  TypeOK' /\ Inv'
  <1>1. allow' = allow /\ offered' = offered /\ cache' = cache
    BY DEF given, evidence
  <1>2. Gated(attempts)' /\ cache' \in [url : Entries, pattern : Entries]
    BY <1>1 DEF Gated, TypeOK
  <1>3. pc \in Capturing \ {"policy", "admit"} /\ pc \in Early /\ "slot" \notin held /\ result = NoResult
    BY DEF Early, Admission, Capturing, Inv, StagesInv, ResultInv
  <1>4. CASE left < 2
    <2>1. Finishes /\ result' = Returned(Failed("deadline_exceeded", Kept(page')), page')
      BY <1>4 DEF Renders, Answers, Finally, Goto, Finishes
    <2>2. PlainNeedsEvidence'
      BY <2>1, FailedIs, FailedPlain
    <2> QED
      BY <1>2, <1>3, <2>1, <2>2, UnchangedSafe, FinishInv DEF EvidenceSafe
  <1>5. CASE ~(left < 2)
    <2>1. tier' = next /\ UNCHANGED result /\ pc' = "slotEnqueue"
      BY <1>3, <1>5 DEF Renders, Goto
    <2>2. PlainNeedsEvidence'
      BY <1>3, <2>1 DEF PlainNeedsEvidence, NoResult
    <2>3. MayRun(tier, attempts)'
      BY <1>1, <2>1 DEF MayRun
    <2>4. EvidenceSafe
      BY <1>2, <2>2 DEF EvidenceSafe
    <2>5. UNCHANGED store /\ UNCHANGED given /\ tier' \in {"managed", "local_resolution"}
      BY <2>1
    <2> QED
      BY <2>1, <2>3, <2>4, <2>5, SlotInv
  <1> QED
    BY <1>4, <1>5

\* One attempt by plain HTTP is in order, and a browser may follow it.
LEMMA DirectAttempt ==
    ASSUME NEW e \in Evidences, e.tier = "direct"
    PROVE  /\ <<e>> \in Seq(Evidences) /\ <<e>> # <<>> /\ Len(<<e>>) = 1 /\ <<e>>[1] = e
           /\ Gated(<<e>>)
           /\ ~Limiting(e) => MayRun("managed", <<e>>)
           /\ ~Limiting(e) /\ e.primary = "bot_challenge" /\ allow => MayRun("local_resolution", <<e>>)
  <1>1. <<e>> \in Seq(Evidences) /\ <<e>> # <<>> /\ Len(<<e>>) = 1 /\ <<e>>[1] = e
    OBVIOUS
  <1>2. \A i \in 1..Len(<<e>>) : i = 1 /\ <<e>>[i] = e
    BY <1>1
  <1>3. 1 \in 1..Len(<<e>>)
    BY <1>1
  <1> QED
    BY <1>1, <1>2, <1>3 DEF Gated, MayRun, Resolvers, BrowserTiers

\* Plain HTTP is answered, or the page goes on to be classified or rendered.
LEMMA FetchStep ==
    ASSUME TypeOK, Inv, NEW kind \in HttpKinds, NEW seen \in Assessments(kind),
           Fetched(kind, seen)
    PROVE  TypeOK' /\ Inv'
  <1>a. /\ pc = "fetch" /\ page' = kind /\ UNCHANGED <<given, store, facts, evidence>>
        /\ pc \in Capturing \ {"policy", "admit"} /\ result = NoResult /\ ~doubted
    BY DEF Fetched, Capturing, Inv, ResultInv, Early, Admission
  <1>b. allow' = allow /\ offered' = offered /\ cache' = cache /\ doubted' = doubted
    BY <1>a DEF given, evidence
  <1>c. ASSUME NEW e \in Evidences, e.tier = "direct", attempts' = <<e>>,
               Finishes, PlainNeedsEvidence'
        PROVE  TypeOK' /\ Inv'
    <2>1. attempts' \in Seq(Evidences) /\ Gated(attempts)'
      BY <1>b, <1>c, DirectAttempt DEF Gated
    <2> QED
      BY <1>a, <1>b, <1>c, <2>1, UnchangedSafe, FinishInv DEF EvidenceSafe, TypeOK
  <1>1. CASE kind \in DOMAIN FetchFailure
    <2> DEFINE e == IF kind = "unsupported" THEN Attempt("direct", kind, seen, "fail")
                    ELSE RaisedAttempt("direct", "other")
    <2>1. e \in Evidences /\ e.tier = "direct"
      BY AttemptType, RaisedType
    <2>2. attempts' = <<e>> /\ Answers(Failed(FetchFailure[kind], "none"))
      BY <1>1 DEF Fetched
    <2>3. Finishes /\ PlainNeedsEvidence'
      BY <2>2, FailedIs, FailedPlain DEF Answers, Finally, Goto, Finishes
    <2> HIDE DEF e
    <2> QED
      BY <1>c, <2>1, <2>2, <2>3
  <1>2. CASE kind \notin DOMAIN FetchFailure /\ kind = "large"
    <2> DEFINE e == Attempt("direct", kind, seen, "escalate")
    <2>1. e \in Evidences /\ e.tier = "direct" /\ ~Limiting(e)
      BY <1>2, AttemptType, Domains
    <2>2. attempts' = <<e>> /\ Renders("managed")
      BY <1>2 DEF Fetched
    <2> HIDE DEF e
    <2>3. attempts' \in Seq(Evidences) /\ Gated(attempts') /\ attempts' # <<>> /\ MayRun("managed", attempts')
      BY <2>1, <2>2, DirectAttempt
    <2> QED
      BY <1>a, <2>2, <2>3, RendersInv
  <1>3. CASE kind \notin DOMAIN FetchFailure /\ kind # "large" /\ kind \notin Classified
    <2> DEFINE d == IF PlainEnding[kind].outcome = "captured" THEN "accept" ELSE "fail"
               e == Attempt("direct", kind, seen, d)
    <2>1. e \in Evidences /\ e.tier = "direct"
      BY AttemptType
    <2>2. attempts' = <<e>> /\ Answers(PlainEnding[kind])
      BY <1>3 DEF Fetched
    <2>3. Finishes
      BY <2>2 DEF Answers, Finally, Goto, Finishes
    <2>4. PlainNeedsEvidence'
      BY <1>3, <1>a DEF PlainNeedsEvidence, Classified, Escalating
    <2> HIDE DEF e
    <2> QED
      BY <1>c, <2>1, <2>2, <2>3, <2>4
  <1>4. CASE kind \notin DOMAIN FetchFailure /\ kind # "large" /\ kind \in Classified
    <2>2. pc' = "classify" /\ UNCHANGED <<attempts, tier, result>> /\ attempts = <<>>
      BY <1>4, <1>a DEF Fetched, Goto, Inv, EvidenceInv, Admission
    <2>4. TypeOK'
      BY <1>a, <1>b, <2>2 DEF TypeOK, store, Capturing
    <2>5. GrantsInv'
      BY <1>a, <2>2 DEF Inv, GrantsInv, store, Capturing, Ended
    <2>6. StagesInv'
      BY <1>a, <1>b, <2>2 DEF Inv, StagesInv, store, Early, Admission, SlotStages, CloudStages, Rendering
    <2>7. EvidenceInv'
      BY <1>4, <1>a, <1>b, <2>2 DEF Inv, EvidenceInv, Gated, Admission, Rendering
    <2>8. ResultInv'
      BY <1>a, <1>b, <2>2 DEF ResultInv, PlainNeedsEvidence, NoResult
    <2> QED
      BY <2>4, <2>5, <2>6, <2>7, <2>8 DEF Inv
  <1> QED
    BY <1>1, <1>2, <1>3, <1>4

\* The verdict on the page, and what the method cache says of it.
LEMMA VerdictSteps ==
    ASSUME TypeOK, Inv,
           \/ \E seen \in Assessments(page) : Classify(seen)
           \/ \E usual, canary \in BOOLEAN : LookUpExact(usual, canary) \/ LookUpPattern(usual, canary)
    PROVE  TypeOK' /\ Inv'
  <1>a. /\ pc \in {"classify", "exact", "pattern"} /\ page' = page
        /\ UNCHANGED given /\ UNCHANGED store /\ UNCHANGED evidence
    BY DEF Classify, LookUpExact, LookUpPattern
  <1>b. pc \in Early \ Admission /\ pc \in Capturing \ {"policy", "admit"} /\ result = NoResult
    BY <1>a DEF Inv, ResultInv, Early, Admission, Capturing
  <1>c. allow' = allow /\ offered' = offered /\ cache' = cache /\ doubted' = doubted
    BY <1>a DEF given, evidence
  <1>d. ASSUME NEW e \in Evidences, e.tier = "direct", NEW d \in {"accept", "escalate", "fail"}
        PROVE  /\ Decide(<<e>>, d) \in Seq(Evidences) /\ Decide(<<e>>, d) # <<>>
               /\ Len(Decide(<<e>>, d)) = 1 /\ Gated(Decide(<<e>>, d))
               /\ \A t : MayRun(t, <<e>>) => MayRun(t, Decide(<<e>>, d))
    <2>1. <<e>> \in Seq(Evidences) /\ Len(<<e>>) = 1 /\ Gated(<<e>>)
      BY <1>d, DirectAttempt
    <2>2. Decide(<<e>>, d) \in Seq(Evidences) /\ Len(Decide(<<e>>, d)) = 1
      BY <2>1, DecideKeeps
    <2>3. Decide(<<e>>, d) # <<>>
      <3>1. \A list : Len(list) = 1 => list # <<>>
        OBVIOUS
      <3> QED
        BY <2>2, <3>1
    <2> QED
      BY <2>1, <2>2, <2>3, GatedDecide
  <1>e. ASSUME NEW e \in Evidences, e.tier = "direct", NEW d \in {"accept", "escalate", "fail"},
               attempts' = Decide(<<e>>, d), Finishes, PlainNeedsEvidence'
        PROVE  TypeOK' /\ Inv'
    <2>0. attempts' \in Seq(Evidences) /\ Gated(attempts')
      BY <1>d, <1>e
    <2>1. attempts' \in Seq(Evidences) /\ Gated(attempts)'
      BY <1>c, <2>0 DEF Gated
    <2>2. EvidenceSafe
      BY <1>c, <1>e, <2>1 DEF EvidenceSafe, TypeOK
    <2> QED
      BY <1>a, <1>b, <1>e, <2>2, UnchangedSafe, FinishInv
  <1>f. ASSUME NEW e \in Evidences, e.tier = "direct", ~Limiting(e), attempts' = Decide(<<e>>, "escalate"),
               NEW next \in {"managed", "local_resolution"}, Renders(next),
               next = "local_resolution" => allow /\ e.primary = "bot_challenge"
        PROVE  TypeOK' /\ Inv'
    <2>1. MayRun(next, <<e>>)
      BY <1>f, DirectAttempt
    <2>2. MayRun(next, attempts')
      BY <1>d, <1>f, <2>1
    <2> QED
      BY <1>a, <1>b, <1>d, <1>f, <2>2, RendersInv
  <1>g. ASSUME NEW e \in Evidences, e.tier = "direct", ~Limiting(e), attempts' = <<e>>,
               NEW label \in {"exact", "pattern"}, pc' = label, UNCHANGED <<result, tier>>,
               page = "usable", ~doubted
        PROVE  TypeOK' /\ Inv'
    <2>0. attempts' \in Seq(Evidences) /\ Gated(attempts')
      BY <1>g, DirectAttempt
    <2>1. TypeOK'
      BY <1>a, <1>c, <1>g, <2>0 DEF TypeOK, store, Capturing
    <2>2. GrantsInv'
      BY <1>a, <1>b, <1>g DEF Inv, GrantsInv, store, Capturing, Ended
    <2>3. StagesInv'
      BY <1>a, <1>b, <1>c, <1>g
         DEF Inv, StagesInv, store, Early, Admission, SlotStages, CloudStages, Rendering
    <2>4. EvidenceInv'
      <3>1. Gated(attempts)'
        BY <1>c, <2>0 DEF Gated
      <3> QED
        BY <1>a, <1>g, <3>1 DEF EvidenceInv, Admission, Rendering
    <2>5. ResultInv'
      BY <1>a, <1>b, <1>c, <1>g DEF ResultInv, PlainNeedsEvidence, NoResult
    <2> QED
      BY <2>1, <2>2, <2>3, <2>4, <2>5 DEF Inv
  <1>h. ASSUME NEW says, NEW canary \in BOOLEAN, Settled(says, canary), pc \in {"exact", "pattern"},
               says = "trust" => ~doubted
        PROVE  TypeOK' /\ Inv'
    <2>1. page = "usable" /\ \E e \in Evidences : attempts = <<e>> /\ e.tier = "direct" /\ ~Limiting(e)
      BY <1>h DEF Inv, EvidenceInv
    <2>e. PICK e \in Evidences : attempts = <<e>> /\ e.tier = "direct" /\ ~Limiting(e)
      BY <2>1
    <2>2. CASE says = "trust" /\ ~canary
      <3>1. attempts' = Decide(<<e>>, "accept") /\ Answers(Captured("plain"))
        BY <1>h, <2>2, <2>e DEF Settled
      <3>2. Finishes
        BY <3>1 DEF Answers, Finally, Goto, Finishes
      <3>3. Len(attempts') = 1
        BY <1>d, <2>e, <3>1
      <3>4. PlainNeedsEvidence'
        BY <1>a, <1>c, <1>h, <2>1, <2>2, <3>3 DEF PlainNeedsEvidence
      <3> QED
        BY <1>e, <2>e, <3>1, <3>2, <3>4
    <2>3. CASE ~(says = "trust" /\ ~canary)
      <3>1. attempts' = Decide(<<e>>, "escalate") /\ Renders("managed")
        BY <1>h, <2>3, <2>e DEF Settled
      <3> QED
        BY <1>f, <2>e, <3>1
    <2> QED
      BY <2>2, <2>3
  <1>1. ASSUME NEW seen \in Assessments(page), Classify(seen)
        PROVE  TypeOK' /\ Inv'
    <2> DEFINE e == Attempt("direct", page, seen, "accept")
    <2>a. page \in Classified /\ pc = "classify" /\ ~doubted /\ attempts = <<>>
      BY <1>1 DEF Classify, Inv, EvidenceInv, ResultInv, Early, Admission
    <2>b. /\ e \in Evidences /\ e.tier = "direct"
          /\ page \in {"challenge", "block"} => e.primary = "bot_challenge"
          /\ page \in {"usable", "shell", "challenge", "block"} => ~Limiting(e)
      BY <1>1, AttemptType, Domains
    <2>c. Append(attempts, e) = <<e>>
      BY <2>a, <2>b
    <2>1. CASE page \in DOMAIN PlainEnding
      <3> DEFINE d == IF PlainEnding[page].outcome = "captured" THEN "accept" ELSE "fail"
      <3>0. page \notin {"usable", "shell", "challenge", "block"}
        BY <2>1, Domains
      <3>1. attempts' = Decide(<<e>>, d) /\ Answers(PlainEnding[page])
        BY <1>1, <2>1, <2>c, <3>0 DEF Classify
      <3>2. Finishes
        BY <3>1 DEF Answers, Finally, Goto, Finishes
      <3>3. PlainNeedsEvidence'
        BY <1>a, <2>1, Domains DEF PlainNeedsEvidence, Escalating
      <3> HIDE DEF e
      <3> QED
        BY <1>e, <2>b, <3>1, <3>2, <3>3
    <2>2. CASE page = "usable"
      <3>0. page \notin DOMAIN PlainEnding
        BY <2>2, Domains
      <3>1. pc' = "exact" /\ attempts' = <<e>> /\ UNCHANGED <<result, tier>>
        BY <1>1, <2>2, <2>c, <3>0 DEF Classify, Goto
      <3> HIDE DEF e
      <3> QED
        BY <1>g, <2>2, <2>a, <2>b, <3>1
    <2>3. CASE page = "shell"
      <3>0. page \notin DOMAIN PlainEnding
        BY <2>3, Domains
      <3>1. attempts' = Decide(<<e>>, "escalate") /\ Renders("managed")
        BY <1>1, <2>3, <2>c, <3>0 DEF Classify
      <3> HIDE DEF e
      <3> QED
        BY <1>f, <2>3, <2>b, <3>1
    <2>4. CASE page \in {"challenge", "block"}
      <3> DEFINE next == NextResolution(allow, offered, <<e>>)
      <3>0. page \notin DOMAIN PlainEnding
        BY <2>4, Domains
      <3>1. Challenged(<<e>>, page = "block", next)
        BY <1>1, <2>4, <2>c, <3>0 DEF Classify
      <3> HIDE DEF e
      <3>2. CASE next # "none"
        <4>0. <<e>> \in Seq(Evidences) /\ Len(<<e>>) = 1 /\ <<e>>[1] = e
          BY <2>b, DirectAttempt
        <4>1. 1 \in 1..Len(<<e>>) /\ \A i \in 1..Len(<<e>>) : <<e>>[i].tier = "direct"
          BY <2>b, <4>0
        <4>5. /\ next \in Resolvers /\ allow
              /\ next = "challenge_resolution" =>
                    \E i \in 1..Len(<<e>>) : <<e>>[i].tier = "local_resolution"
          <5>1. PICK list, t : list = <<e>> /\ t = next
            OBVIOUS
          <5>2. /\ list \in Seq(Evidences) /\ t = NextResolution(allow, offered, list) /\ t # "none"
            BY <3>2, <4>0, <5>1
          <5>3. /\ t \in Resolvers /\ allow
                /\ t = "challenge_resolution" => \E i \in 1..Len(list) : list[i].tier = "local_resolution"
            BY <5>2, NextMayRun
          <5> QED
            BY <5>1, <5>3
        <4>2. next = "local_resolution" /\ allow
          BY <4>1, <4>5 DEF Resolvers
        <4>3. attempts' = Decide(<<e>>, "escalate") /\ Renders(next)
          BY <3>1, <3>2 DEF Challenged
        <4> HIDE DEF next
        <4> QED
          BY <1>f, <2>4, <2>b, <4>2, <4>3
      <3>3. CASE next = "none"
        <4>1. attempts' = Decide(<<e>>, "fail") /\ Answers(Failed(BotFailure(page = "block"), "plain"))
          BY <3>1, <3>3 DEF Challenged
        <4>2. Finishes /\ result' = Returned(Failed(BotFailure(page = "block"), "plain"), page')
          BY <4>1 DEF Answers, Finally, Goto, Finishes
        <4>3. PlainNeedsEvidence'
          BY <4>2, FailedIs, FailedPlain
        <4> QED
          BY <1>e, <2>b, <4>1, <4>2, <4>3
      <3> QED
        BY <3>2, <3>3
    <2> QED
      BY <2>a, <2>1, <2>2, <2>3, <2>4, Domains DEF Classified, Escalating
  <1>2. ASSUME NEW usual \in BOOLEAN, NEW canary \in BOOLEAN, LookUpExact(usual, canary)
        PROVE  TypeOK' /\ Inv'
    <2> DEFINE says == ExactSays(cache.url, usual)
    <2>1. pc = "exact" /\ page = "usable" /\ (doubted => cache.url.contradictions > 0)
      BY <1>2 DEF LookUpExact, Inv, EvidenceInv, ResultInv
    <2>2. cache.url.contradictions \in Nat
      BY DEF TypeOK, Entries
    <2>3. says \in {"trust", "ask pattern"} => ~doubted
      BY <2>1, <2>2 DEF ExactSays
    <2>4. CASE says = "ask pattern"
      <3>1. pc' = "pattern" /\ UNCHANGED <<attempts, result, tier>>
        BY <1>2, <2>4 DEF LookUpExact, Goto
      <3>2. PICK e \in Evidences : attempts = <<e>> /\ e.tier = "direct" /\ ~Limiting(e)
        BY <2>1 DEF Inv, EvidenceInv
      <3> QED
        BY <1>g, <2>1, <2>3, <2>4, <3>1, <3>2
    <2>5. CASE says # "ask pattern"
      <3>1. Settled(says, canary)
        BY <1>2, <2>5 DEF LookUpExact, Settled
      <3> HIDE DEF says
      <3> QED
        BY <1>h, <2>1, <2>3, <3>1
    <2> QED
      BY <2>4, <2>5
  <1>3. ASSUME NEW usual \in BOOLEAN, NEW canary \in BOOLEAN, LookUpPattern(usual, canary)
        PROVE  TypeOK' /\ Inv'
    <2>1. pc = "pattern" /\ page = "usable" /\ ~doubted /\ Settled(PatternSays(cache.pattern, usual), canary)
      BY <1>3 DEF LookUpPattern, Inv, EvidenceInv, ResultInv, Early
    <2> QED
      BY <1>h, <2>1
  <1> QED
    BY <1>1, <1>2, <1>3

\* The grants of browser capacity.
LEMMA GrantSteps ==
    ASSUME TypeOK, Inv,
           \/ \E state \in {"queued", "acquiring"} : SlotEnqueued(state) \/ CloudEnqueued(state)
           \/ SlotClaimed \/ SlotActivated \/ CloudClaimed \/ SlotReturned \/ CloudActivated
    PROVE  TypeOK' /\ Inv'
  <1>a. /\ UNCHANGED <<page, tier, attempts, result, lost, stranded, given, facts, evidence>>
        /\ pc \in Rendering /\ pc' \in Rendering
    BY DEF SlotEnqueued, CloudEnqueued, SlotClaimed, SlotActivated, CloudClaimed, SlotReturned,
           CloudActivated, Rendering, Goto
  <1>b. pc \in Capturing /\ pc' \in Capturing /\ Rendering \cap (Early \cup Ended) = {}
    BY <1>a DEF Rendering, Capturing, Early, Admission, Ended
  <1>c. allow' = allow /\ offered' = offered /\ cache' = cache /\ doubted' = doubted
    BY <1>a DEF given, evidence
  <1>d. /\ rows \in [Resources -> RowStates] /\ held \subseteq Resources /\ faults \in Nat
    BY DEF TypeOK
  <1>1. EvidenceInv' /\ ResultInv'
    <2>1. EvidenceInv'
      BY <1>a, <1>b, <1>c DEF Inv, EvidenceInv, Gated, MayRun, Rendering, Admission
    <2>2. ResultInv'
      BY <1>a, <1>b, <1>c DEF Inv, ResultInv, PlainNeedsEvidence, Rendering, Early, Admission
    <2> QED
      BY <2>1, <2>2
  <1>2. ASSUME rows' \in [Resources -> RowStates], held' \subseteq Resources, faults' \in Nat,
               faults' = 0 => faults = 0, held \subseteq held',
               rows'["lease"] = rows["lease"], rows'["session"] = rows["session"],
               rows'["session"] \notin Live => rows'["slot"] \notin Live /\ rows'["cloud"] \notin Live
        PROVE  TypeOK' /\ GrantsInv'
    <2>1. TypeOK'
      BY <1>2, <1>a, <1>b, <1>c DEF TypeOK
    <2>2. GrantsInv'
      BY <1>2, <1>a, <1>b DEF Inv, GrantsInv, Rendering
    <2> QED
      BY <2>1, <2>2
  <1>e. rows["session"] \notin Live => rows["slot"] \notin Live /\ rows["cloud"] \notin Live
    BY DEF Inv, GrantsInv
  <1>f. tier = "challenge_resolution" => allow /\ offered
    BY <1>a DEF Inv, EvidenceInv, MayRun, Resolvers
  <1> USE DEF Resources, RowStates, Live
  <1>3. CASE \E state \in {"queued", "acquiring"} : SlotEnqueued(state)
    <2>1. PICK state \in {"queued", "acquiring"} : SlotEnqueued(state)
      BY <1>3
    <2>2. /\ pc = "slotEnqueue" /\ rows' = [rows EXCEPT !["slot"] = state] /\ faults' = faults
          /\ rows["session"] = "active"
          /\ \/ pc' = "slotWait" /\ held' = held
             \/ pc' = "slotActivate" /\ held' = held \cup {"slot"}
      BY <2>1 DEF SlotEnqueued, SlotAdmissible, Row, Goto
    <2>3. StagesInv'
      BY <1>a, <1>c, <1>d, <2>2 DEF Inv, StagesInv, Early, Admission, SlotStages, CloudStages, Rendering
    <2> QED
      BY <1>1, <1>2, <1>d, <1>e, <2>2, <2>3 DEF Inv
  <1>4. CASE \E state \in {"queued", "acquiring"} : CloudEnqueued(state)
    <2>1. PICK state \in {"queued", "acquiring"} : CloudEnqueued(state)
      BY <1>4
    <2>2. /\ pc = "cloudEnqueue" /\ rows' = [rows EXCEPT !["cloud"] = state] /\ faults' = faults
          /\ rows["session"] = "active" /\ ("slot" \in held \/ rows["slot"] \notin Live)
          /\ \/ pc' = "cloudWait" /\ held' = held
             \/ pc' = "slotReturn" /\ held' = held \cup {"cloud"}
      BY <2>1 DEF CloudEnqueued, CloudAdmissible, Row, Goto
    <2>3. StagesInv'
      BY <1>a, <1>c, <1>d, <1>f, <2>2 DEF Inv, StagesInv, Early, Admission, SlotStages, CloudStages, Rendering
    <2> QED
      BY <1>1, <1>2, <1>d, <1>e, <2>2, <2>3 DEF Inv
  <1>5. CASE SlotClaimed
    <2>2. /\ pc = "slotWait" /\ rows' = [rows EXCEPT !["slot"] = "acquiring"] /\ faults' = faults
          /\ rows["slot"] = "queued" /\ pc' = "slotActivate" /\ held' = held \cup {"slot"}
      BY <1>5 DEF SlotClaimed, Row, Goto
    <2>3. StagesInv'
      BY <1>a, <1>c, <1>d, <2>2 DEF Inv, StagesInv, Early, Admission, SlotStages, CloudStages, Rendering
    <2> QED
      BY <1>1, <1>2, <1>d, <1>e, <2>2, <2>3 DEF Inv
  <1>6. CASE SlotActivated
    <2>2. /\ pc = "slotActivate" /\ rows' = [rows EXCEPT !["slot"] = "active"] /\ faults' = faults
          /\ rows["slot"] = "acquiring" /\ pc' = "browser" /\ held' = held
      BY <1>6 DEF SlotActivated, Row, Goto
    <2>3. StagesInv'
      BY <1>a, <1>c, <1>d, <2>2 DEF Inv, StagesInv, Early, Admission, SlotStages, CloudStages, Rendering
    <2> QED
      BY <1>1, <1>2, <1>d, <1>e, <2>2, <2>3 DEF Inv
  <1>7. CASE CloudClaimed
    <2>2. /\ pc = "cloudWait" /\ rows' = [rows EXCEPT !["cloud"] = "acquiring"] /\ faults' = faults
          /\ rows["cloud"] = "queued" /\ pc' = "slotReturn" /\ held' = held \cup {"cloud"}
      BY <1>7 DEF CloudClaimed, Row, Goto
    <2>3. StagesInv'
      BY <1>a, <1>c, <1>d, <1>f, <2>2 DEF Inv, StagesInv, Early, Admission, SlotStages, CloudStages, Rendering
    <2> QED
      BY <1>1, <1>2, <1>d, <1>e, <2>2, <2>3 DEF Inv
  <1>8. CASE SlotReturned
    <2>2. /\ pc = "slotReturn" /\ pc' = "cloudActivate" /\ held' = held
          /\ \/ "slot" \in held /\ faults' = faults
                  /\ rows' = [rows EXCEPT !["slot"] = IF rows["slot"] \in Live THEN "ended" ELSE rows["slot"]]
             \/ "slot" \in held /\ faults' = faults + 1 /\ rows' = rows
             \/ "slot" \notin held /\ faults' = faults /\ rows' = rows
      BY <1>8 DEF SlotReturned, Ends, Row, Goto, Untouched
    <2>3. StagesInv'
      BY <1>a, <1>c, <1>d, <1>f, <2>2 DEF Inv, StagesInv, Early, Admission, SlotStages, CloudStages, Rendering
    <2> QED
      BY <1>1, <1>2, <1>d, <1>e, <2>2, <2>3 DEF Inv
  <1>9. CASE CloudActivated
    <2>2. /\ pc = "cloudActivate" /\ rows' = [rows EXCEPT !["cloud"] = "active"] /\ faults' = faults
          /\ rows["cloud"] = "acquiring" /\ pc' = "browser" /\ held' = held
      BY <1>9 DEF CloudActivated, Row, Goto
    <2>3. StagesInv'
      BY <1>a, <1>c, <1>d, <1>f, <2>2 DEF Inv, StagesInv, Early, Admission, SlotStages, CloudStages, Rendering
    <2> QED
      BY <1>1, <1>2, <1>d, <1>e, <2>2, <2>3 DEF Inv
  <1> QED
    BY <1>3, <1>4, <1>5, <1>6, <1>7, <1>8, <1>9

\* A refusal, a conflict, a failure or a timeout of a tier.
LEMMA RaiseSteps ==
    ASSUME TypeOK, Inv,
           \/ SlotRefused \/ NoTimeForSlot \/ AcquisitionFails \/ CloudRefused
           \/ CloudConflict \/ RenderTimesOut
           \/ \E kind \in {"busy", "broken"} : SlotConflict(kind)
           \/ \E kind \in {"notPassed", "busy", "broken"} : BrowserRaises(kind)
    PROVE  TypeOK' /\ Inv'
  <1>1. /\ pc \in Rendering /\ UNCHANGED <<given, evidence>> /\ UNCHANGED <<held, lost, stranded, given>>
        /\ \E kind \in {"notPassed", "busy", "broken", "timeout"} : Raises(kind)
    BY DEF SlotRefused, SlotConflict, NoTimeForSlot, AcquisitionFails, CloudRefused, CloudConflict,
           RenderTimesOut, BrowserRaises, Rendering, store
  <1>2. (UNCHANGED store) \/ Unwound
    BY DEF SlotRefused, SlotConflict, NoTimeForSlot, AcquisitionFails, CloudRefused, CloudConflict,
           RenderTimesOut, BrowserRaises
  <1>3. pc \in Capturing \ {"policy", "admit"}
    BY <1>1 DEF Rendering, Capturing
  <1>4. RowsSafe
    BY <1>1, <1>2, <1>3, UnchangedSafe, UnwoundSafe
  <1> QED
    BY <1>1, <1>4, RaisesInv, Domains

\* The browser answers.
LEMMA RenderedStep ==
    ASSUME TypeOK, Inv, NEW kind \in RenderedKinds, NEW seen \in Assessments(kind),
           Rendered(kind, seen)
    PROVE  TypeOK' /\ Inv'
  <1> DEFINE e == Attempt(tier, kind, seen, "accept")
             list == Append(attempts, e)
  <1>a. /\ pc = "browser" /\ pc \in Rendering /\ page' = page /\ pc \in Capturing \ {"policy", "admit"}
        /\ UNCHANGED given /\ UNCHANGED store /\ UNCHANGED evidence /\ UNCHANGED <<page, given>>
    BY DEF Rendered, Rendering, Capturing
  <1>b. MayRun(tier, attempts) /\ Gated(attempts) /\ attempts \in Seq(Evidences) /\ tier \in BrowserTiers
    BY <1>a DEF Inv, EvidenceInv, TypeOK, MayRun
  <1>c. allow' = allow /\ offered' = offered /\ cache' = cache /\ doubted' = doubted
    BY <1>a DEF given, evidence
  <1>d. e \in Evidences /\ e.tier = tier
    <2>1. tier \in {"direct"} \cup BrowserTiers
      BY <1>b
    <2> QED
      BY <2>1, AttemptType
  <1>e. result = NoResult
    BY <1>a DEF Inv, ResultInv
  <1>1. CASE kind \in Compared
    <2>1. pc' = "compare" /\ attempts' = list /\ UNCHANGED <<result, tier>>
      BY <1>1 DEF Rendered, Goto
    <2> HIDE DEF e
    <2>2. attempts' \in Seq(Evidences) /\ attempts' # <<>> /\ Gated(attempts')
      BY <1>b, <1>d, <2>1, GatedAppend
    <2>3. Gated(attempts)'
      BY <1>c, <2>2 DEF Gated
    <2>4. TypeOK'
      BY <1>a, <1>c, <2>1, <2>2 DEF TypeOK, store, Capturing
    <2>5. GrantsInv'
      BY <1>a, <2>1 DEF Inv, GrantsInv, store, Capturing, Ended
    <2>6. StagesInv'
      BY <1>a, <1>c, <2>1 DEF Inv, StagesInv, store, Early, Admission, SlotStages, CloudStages, Rendering
    <2>7. EvidenceInv'
      BY <2>1, <2>2, <2>3 DEF EvidenceInv, Admission, Rendering
    <2>8. ResultInv'
      BY <1>e, <2>1 DEF ResultInv, PlainNeedsEvidence, NoResult, Early, Admission
    <2> QED
      BY <2>4, <2>5, <2>6, <2>7, <2>8 DEF Inv
  <1>2. CASE kind \notin Compared
    <2>1. After(kind, list)
      BY <1>2 DEF Rendered, After
    <2>2. /\ kind \in {"challenge", "block"} => e.primary = "bot_challenge"
          /\ Limiting(e) => kind = "limited" \/ (kind \in DOMAIN FailedRender /\ ~e.read)
      BY <1>b, AttemptType, Domains DEF RenderedKinds, BrowserRefused, Compared
    <2> HIDE DEF e
    <2>3. /\ attempts' \in Seq(Evidences) /\ Gated(attempts)' /\ attempts' # <<>>
          /\ \/ Finishes /\ PlainNeedsEvidence'
             \/ /\ UNCHANGED result /\ MayRun(tier, attempts)'
                /\ \/ pc' = "cloudEnqueue" /\ tier' = "challenge_resolution"
                   \/ /\ kind \in {"challenge", "block"} /\ tier # "challenge_resolution"
                      /\ tier' = "local_resolution"
                      /\ pc' = IF "slot" \in held THEN "browser" ELSE "slotEnqueue"
      BY <1>2, <1>a, <1>d, <2>1, <2>2, AfterLeads
    <2>4. RowsSafe
      BY <1>a, UnchangedSafe
    <2>5. CASE Finishes /\ PlainNeedsEvidence'
      BY <1>a, <1>c, <2>3, <2>4, <2>5, FinishInv DEF EvidenceSafe, TypeOK
    <2>6. ASSUME UNCHANGED result
          PROVE  PlainNeedsEvidence'
      BY <1>e, <2>6 DEF PlainNeedsEvidence, NoResult
    <2>7. CASE /\ UNCHANGED result /\ MayRun(tier, attempts)'
               /\ pc' = "cloudEnqueue" /\ tier' = "challenge_resolution"
      BY <1>a, <1>c, <2>3, <2>4, <2>6, <2>7, CloudInv DEF EvidenceSafe, TypeOK
    <2>8. CASE /\ UNCHANGED result /\ MayRun(tier, attempts)' /\ tier # "challenge_resolution"
               /\ tier' = "local_resolution" /\ pc' = IF "slot" \in held THEN "browser" ELSE "slotEnqueue"
      <3>1. "slot" \in held /\ pc' = "browser"
        BY <1>a, <2>8 DEF Inv, StagesInv
      <3>2. TypeOK'
        BY <1>a, <1>c, <2>3, <3>1 DEF TypeOK, store, Capturing
      <3>3. GrantsInv'
        BY <1>a, <3>1 DEF Inv, GrantsInv, store
      <3>4. StagesInv'
        BY <1>a, <1>c, <2>8, <3>1
           DEF Inv, StagesInv, store, Early, Admission, SlotStages, CloudStages, Rendering
      <3>5. EvidenceInv'
        BY <2>3, <2>8, <3>1 DEF EvidenceInv, Admission, Rendering
      <3>6. ResultInv'
        BY <1>e, <2>6, <2>8, <3>1 DEF ResultInv, Early, Admission
      <3> QED
        BY <3>2, <3>3, <3>4, <3>5, <3>6 DEF Inv
    <2> QED
      BY <2>3, <2>5, <2>7, <2>8
  <1> QED
    BY <1>1, <1>2

\* A comparison leaves the entries well formed, and a contradiction in them.
LEMMA ComparisonType ==
    ASSUME NEW entry \in Entries, NEW sufficient \in BOOLEAN
    PROVE  /\ RecordComparison(entry, sufficient) \in Entries
           /\ entry.contradictions > 0 \/ ~sufficient =>
                 RecordComparison(entry, sufficient).contradictions > 0
  <1>1. entry.sufficient \in Nat /\ entry.contradictions \in Nat
    BY DEF Entries
  <1>2. /\ entry.sufficient + (IF sufficient THEN 1 ELSE 0) \in Nat
        /\ entry.contradictions + (IF sufficient THEN 0 ELSE 1) \in Nat
        /\ entry.contradictions > 0 \/ ~sufficient =>
              entry.contradictions + (IF sufficient THEN 0 ELSE 1) > 0
    BY <1>1
  <1> QED
    BY <1>2 DEF RecordComparison, Entries

\* The comparison of the plain answer with the render.
LEMMA CompareStep ==
    ASSUME TypeOK, Inv, Compare
    PROVE  TypeOK' /\ Inv'
  <1> DEFINE sufficient == Sufficient(Last(attempts).primary, Usable)
  <1>a. /\ pc = "compare" /\ UNCHANGED <<page, tier, attempts, given, store, facts, doubted>>
        /\ UNCHANGED store /\ UNCHANGED given
        /\ result' = Captured(IF sufficient THEN "plain" ELSE "rendered")
        /\ cache' = [url |-> RecordComparison(cache.url, sufficient),
                     pattern |-> RecordComparison(cache.pattern, sufficient)]
    BY DEF Compare, Recorded
  <1>b. Finishes
    BY DEF Compare, Finally, Goto, Finishes
  <1>c. sufficient \in BOOLEAN
    BY DEF Sufficient, Usable
  <1>d. cache.url \in Entries /\ cache.pattern \in Entries
    BY DEF TypeOK
  <1>1. PlainNeedsEvidence'
    BY <1>a DEF PlainNeedsEvidence, Captured, Sufficient, Usable
  <1> HIDE DEF sufficient
  <1>2. cache' \in [url : Entries, pattern : Entries]
    BY <1>a, <1>c, <1>d, ComparisonType
  <1>3. attempts' \in Seq(Evidences) /\ Gated(attempts)'
    <2>1. attempts \in Seq(Evidences) /\ Gated(attempts)
      BY DEF TypeOK, Inv, EvidenceInv
    <2>2. attempts' = attempts /\ allow' = allow
      BY <1>a DEF given
    <2> QED
      BY <2>1, <2>2 DEF Gated
  <1> QED
    BY <1>a, <1>b, <1>1, <1>2, <1>3, UnchangedSafe, FinishInv DEF EvidenceSafe, Capturing

\* Before the capture has its session, an interruption leaves at most a session:
\* one whose withdrawal failed, or one that was lost.
LEMMA RefusedInv ==
    ASSUME TypeOK, Inv, pc \in {"policy", "admit"}, UNCHANGED <<held, lost, given, evidence>>,
           \/ UNCHANGED stranded /\ (Unwound \/ UNCHANGED <<rows, faults>>)
           \/ Row("session", "active") /\ UNCHANGED faults /\ stranded' = TRUE /\ pc' # "raised",
           attempts' = <<>>, result' = NoResult, pc' \in {"refused", "abandoned", "raised"}
    PROVE  TypeOK' /\ Inv'
  <1>a. /\ rows \in [Resources -> RowStates] /\ held \subseteq Resources /\ faults \in Nat
        /\ ~stranded /\ \A r \in Resources : rows[r] = "none"
    BY DEF TypeOK, Inv, GrantsInv
  <1>1. \/ UNCHANGED <<rows, faults, stranded>>
        \/ rows' = [rows EXCEPT !["session"] = "acquiring"] /\ faults' = faults + 1 /\ UNCHANGED stranded
        \/ /\ rows' = [rows EXCEPT !["session"] = "active"] /\ faults' = faults
           /\ stranded' = TRUE /\ pc' # "raised"
    <2>1. CASE UNCHANGED stranded /\ Unwound /\ pc = "policy"
      BY <2>1 DEF Unwound, Untouched
    <2>2. CASE UNCHANGED stranded /\ Unwound /\ pc = "admit"
      <3>1. Withdrawn("session", TRUE)
        BY <2>2 DEF Unwound, Withdrawn, Row
      <3> QED
        BY <1>a, <2>2, <3>1 DEF Withdrawn, Row, Live, Resources
    <2> QED
      BY <2>1, <2>2 DEF Row
  <1>2. /\ rows' \in [Resources -> RowStates] /\ faults' \in Nat
        /\ (faults' = 0 => rows' = rows \/ stranded')
        /\ rows'["slot"] = "none" /\ rows'["cloud"] = "none" /\ rows'["lease"] = "none"
    BY <1>a, <1>1 DEF Resources, RowStates, Live
  <1>3. allow' = allow /\ offered' = offered /\ cache' = cache
    BY DEF given, evidence
  <1>4. TypeOK'
    BY <1>2, <1>3 DEF TypeOK, Ended
  <1>5. GrantsInv'
    <2>1. stranded' => pc' \in {"refused", "abandoned"}
      BY <1>a, <1>1
    <2> QED
      BY <1>a, <1>2, <2>1 DEF GrantsInv, Live, Resources
  <1>6. StagesInv'
    BY <1>2 DEF StagesInv, Early, Admission, SlotStages, CloudStages, Rendering
  <1>7. EvidenceInv'
    BY DEF EvidenceInv, Gated, Admission, Rendering
  <1>8. ResultInv'
    BY DEF ResultInv, PlainNeedsEvidence, NoResult, Early, Admission, Capturing
  <1> QED
    BY <1>4, <1>5, <1>6, <1>7, <1>8 DEF Inv

\* The deadline of a capture that is not cleaned up yet.
LEMMA DeadlineSteps ==
    ASSUME TypeOK, Inv, ExpiresBeforeFetch \/ DeadlineExpires
    PROVE  TypeOK' /\ Inv'
  <1>a. /\ pc \in Capturing /\ Unwound /\ UNCHANGED <<held, lost, given, evidence>>
        /\ UNCHANGED <<held, lost, stranded, given>> /\ UNCHANGED <<page, tier>>
    BY DEF ExpiresBeforeFetch, DeadlineExpires, Bounded, Serving, Capturing, Rendering
  <1>b. Serving \cap {"policy", "admit"} = {}
    BY DEF Serving, Rendering
  <1>c. cache' \in [url : Entries, pattern : Entries] /\ allow' = allow /\ offered' = offered
    BY <1>a DEF TypeOK, evidence, given
  <1>1. CASE pc \in {"policy", "admit"}
    <2>1. pc' = "refused" /\ UNCHANGED <<attempts, result>>
      BY <1>1, <1>b DEF ExpiresBeforeFetch, DeadlineExpires, Goto
    <2>2. attempts = <<>> /\ result = NoResult
      BY <1>1, <1>a DEF Inv, EvidenceInv, ResultInv, Admission
    <2> QED
      BY <1>1, <1>a, <2>1, <2>2, RefusedInv
  <1>2. CASE pc \notin {"policy", "admit"}
    <2>1. RowsSafe
      BY <1>2, <1>a, UnwoundSafe
    <2>2. Finishes
      BY <1>2 DEF ExpiresBeforeFetch, DeadlineExpires, Finally, Goto, Finishes
    <2>3. \/ UNCHANGED attempts
          \/ attempts' = Decide(attempts, "fail")
      BY DEF ExpiresBeforeFetch, DeadlineExpires
    <2>4. attempts' \in Seq(Evidences) /\ Gated(attempts')
      <3>1. attempts \in Seq(Evidences) /\ Gated(attempts)
        BY DEF TypeOK, Inv, EvidenceInv
      <3>2. Decide(attempts, "fail") \in Seq(Evidences) /\ Gated(Decide(attempts, "fail"))
        BY <3>1, DecideKeeps, GatedDecide
      <3> QED
        BY <2>3, <3>1, <3>2
    <2>5. Gated(attempts)'
      BY <1>c, <2>4 DEF Gated
    <2>6. \E document : result' = Failed("deadline_exceeded", document)
      BY <1>2 DEF ExpiresBeforeFetch, DeadlineExpires
    <2>7. PlainNeedsEvidence'
      BY <2>6 DEF PlainNeedsEvidence, Failed
    <2> QED
      BY <1>2, <1>a, <1>c, <2>1, <2>2, <2>4, <2>5, <2>7, FinishInv DEF EvidenceSafe
  <1> QED
    BY <1>1, <1>2

\* A cancellation, a lost admission or a database error of a capture that is not
\* cleaned up yet: it forgets its evidence.
LEMMA ForgettingSteps ==
    ASSUME TypeOK, Inv, (Cancelled /\ pc \in Capturing) \/ DatabaseFails \/ AdmissionLost
    PROVE  TypeOK' /\ Inv'
  <1>a. /\ pc \in Capturing /\ pc \notin Cleaning /\ UNCHANGED <<held, lost, given, evidence>>
        /\ AdmissionLost \/ ((Unwound \/ UNCHANGED <<rows, faults>>) /\ UNCHANGED stranded)
    BY DEF Cancelled, DatabaseFails, AdmissionLost, Capturing, Cleaning, store
  <1>b. attempts' = <<>> /\ result' = NoResult
    BY DEF Cancelled, DatabaseFails, AdmissionLost, Forgotten, Inv, EvidenceInv, ResultInv, Admission, Capturing
  <1>1. CASE pc \in {"policy", "admit"}
    <2>1. /\ pc' \in {"refused", "abandoned", "raised"}
          /\ AdmissionLost =>
                Row("session", "active") /\ UNCHANGED faults /\ stranded' = TRUE /\ pc' # "raised"
      BY <1>1, <1>a DEF Cancelled, DatabaseFails, AdmissionLost, Goto
    <2> QED
      BY <1>1, <1>a, <1>b, <2>1, RefusedInv
  <1>2. CASE pc \notin {"policy", "admit"}
    <2>1. Finishes /\ ~AdmissionLost
      BY <1>2, <1>a DEF Cancelled, DatabaseFails, AdmissionLost, Finally, Goto, Finishes
    <2>2. RowsSafe
      <3>1. CASE Unwound /\ UNCHANGED stranded
        BY <1>2, <1>a, <3>1, UnwoundSafe
      <3>2. CASE UNCHANGED <<rows, faults>> /\ UNCHANGED stranded
        BY <1>a, <3>2, UnchangedSafe DEF store
      <3> QED
        BY <1>a, <2>1, <3>1, <3>2
    <2>3. EvidenceSafe
      BY <1>a, <1>b DEF EvidenceSafe, TypeOK, evidence, Gated, PlainNeedsEvidence, NoResult
    <2> QED
      BY <1>2, <1>a, <2>1, <2>2, <2>3, FinishInv
  <1> QED
    BY <1>1, <1>2

\* A cancellation cuts the cleanup: its rows stay as they are.
LEMMA CutStep ==
    ASSUME TypeOK, Inv, Cancelled, pc \in Cleaning
    PROVE  TypeOK' /\ Inv'
  <1>1. /\ pc' = "cut" /\ UNCHANGED <<rows, faults, held, stranded, allow, offered, cache>>
        /\ attempts' = <<>> /\ result' = NoResult
    BY DEF Cancelled, Forgotten, Goto, Unwound, Untouched, Cleaning, given, evidence
  <1>2. ~stranded
    BY DEF Inv, GrantsInv, Cleaning
  <1>3. TypeOK'
    BY <1>1 DEF TypeOK, Ended
  <1>4. GrantsInv'
    BY <1>1, <1>2 DEF Inv, GrantsInv
  <1>5. StagesInv'
    BY <1>1 DEF Inv, StagesInv, Early, Admission, SlotStages, CloudStages, Rendering
  <1>6. EvidenceInv' /\ ResultInv'
    BY <1>1 DEF EvidenceInv, Gated, ResultInv, PlainNeedsEvidence, NoResult, Early, Admission, Rendering, Capturing
  <1> QED
    BY <1>3, <1>4, <1>5, <1>6 DEF Inv

\* The cleanup, whether it is done in time or runs out of time.
LEMMA CleanupSteps ==
    ASSUME TypeOK, Inv, Cleanup
    PROVE  TypeOK' /\ Inv'
  <1>a. /\ pc \in Cleaning /\ UNCHANGED <<page, tier, attempts, result, given, held, lost, stranded, evidence>>
    BY DEF Cleanup, DropLease, Record, DropCloud, DropSlot, DropSession, Cleaning
  <1>b. allow' = allow /\ offered' = offered /\ cache' = cache /\ doubted' = doubted
    BY <1>a DEF given, evidence
  <1>c. pc' \in Cleaning \cup Ended /\ Capturing \cap (Cleaning \cup Ended) = {}
    BY DEF Cleanup, DropLease, Record, DropCloud, DropSlot, DropSession, Goto,
           AfterLease, AfterRecord, AfterCloud, Cleaning, Ended, Capturing
  <1>d. rows \in [Resources -> RowStates] /\ faults \in Nat /\ held \subseteq Resources
    BY DEF TypeOK
  <1>e. /\ rows["session"] \notin Live => rows["slot"] \notin Live /\ rows["cloud"] \notin Live
        /\ faults = 0 /\ rows["lease"] \in Live => pc = "dropLease"
        /\ rows["cloud"] # "none" => allow /\ offered
        /\ ~stranded
    BY <1>a, <1>c DEF Inv, GrantsInv, StagesInv, Cleaning
  <1>1. /\ rows' \in [Resources -> RowStates] /\ faults' \in Nat
        /\ rows'["session"] \notin Live => rows'["slot"] \notin Live /\ rows'["cloud"] \notin Live
        /\ rows'["cloud"] # "none" => allow /\ offered
        /\ faults' = 0 /\ pc' # "cut" => /\ rows'["lease"] \notin Live
                                         /\ rows'["session"] \in Live => pc' \notin Ended
    <2> USE DEF Resources, RowStates, Live
    <2>1. CASE DropLease
      <3>1. /\ pc = "dropLease" /\ pc' \in {"record", "dropCloud", "dropSlot", "dropSession"}
            /\ \/ rows' = [rows EXCEPT !["lease"] = IF rows["lease"] \in Live THEN "ended" ELSE rows["lease"]]
                    /\ faults' = faults
               \/ rows' = rows /\ faults' = faults + 1
        BY <2>1 DEF DropLease, Ends, Row, Goto, AfterLease, AfterRecord, AfterCloud
      <3> QED
        BY <1>d, <1>e, <3>1 DEF Ended
    <2>2. CASE Record
      BY <2>2, <1>d, <1>e DEF Record, Goto, AfterRecord, AfterCloud, Ended
    <2>3. CASE DropCloud
      <3>1. /\ pc = "dropCloud" /\ pc' \in {"dropSlot", "dropSession"}
            /\ \/ rows' = [rows EXCEPT !["cloud"] = IF rows["cloud"] \in Live THEN "ended" ELSE rows["cloud"]]
                    /\ faults' = faults
               \/ rows' = rows /\ faults' = faults + 1
        BY <2>3 DEF DropCloud, Ends, Row, Goto, AfterCloud
      <3> QED
        BY <1>d, <1>e, <3>1 DEF Ended
    <2>4. CASE DropSlot
      <3>1. /\ pc = "dropSlot" /\ pc' = "dropSession"
            /\ \/ rows' = [rows EXCEPT !["slot"] = IF rows["slot"] \in Live THEN "ended" ELSE rows["slot"]]
                    /\ faults' = faults
               \/ rows' = rows /\ faults' = faults + 1
        BY <2>4 DEF DropSlot, Ends, Row, Goto
      <3> QED
        BY <1>d, <1>e, <3>1 DEF Ended
    <2>5. CASE DropSession
      <3>1. /\ pc = "dropSession"
            /\ \/ rows' = SessionEnds /\ faults' = faults
               \/ rows' = rows /\ faults' = faults + 1
        BY <2>5 DEF DropSession
      <3> QED
        BY <1>d, <1>e, <3>1 DEF SessionEnds
    <2> QED
      BY <2>1, <2>2, <2>3, <2>4, <2>5 DEF Cleanup
  <1>2. TypeOK'
    BY <1>a, <1>b, <1>c, <1>1 DEF TypeOK
  <1>3. GrantsInv'
    BY <1>a, <1>c, <1>e, <1>1 DEF GrantsInv, Capturing
  <1>4. StagesInv'
    BY <1>a, <1>b, <1>c, <1>1
       DEF StagesInv, Early, Admission, SlotStages, CloudStages, Rendering, Cleaning, Ended
  <1>5. EvidenceInv'
    BY <1>a, <1>b, <1>c DEF Inv, EvidenceInv, Gated, Admission, Rendering, Cleaning, Ended
  <1>6. ResultInv'
    BY <1>a, <1>b, <1>c DEF Inv, ResultInv, PlainNeedsEvidence, Early, Admission, Cleaning, Ended
  <1> QED
    BY <1>2, <1>3, <1>4, <1>5, <1>6 DEF Inv

\* The world around the capture, and the clock.
LEMMA WorldSteps ==
    ASSUME TypeOK, Inv,
           \/ \E sibling, sufficient \in BOOLEAN : OthersRecord(sibling, sufficient)
           \/ \E key \in {"url", "pattern"} : EntryExpires(key)
           \/ LeaseExpires \/ Tick \/ UNCHANGED vars
    PROVE  TypeOK' /\ Inv'
  <1>a. UNCHANGED <<pc, page, tier, attempts, result>> /\ UNCHANGED given /\ UNCHANGED <<held, faults, stranded>>
    BY DEF OthersRecord, EntryExpires, LeaseExpires, Tick, vars, flow, store, given
  <1>b. allow' = allow /\ offered' = offered
    BY <1>a DEF given
  <1>c. cache.url \in Entries /\ cache.pattern \in Entries /\ NoEntry \in Entries
        /\ cache = [url |-> cache.url, pattern |-> cache.pattern]
    BY DEF TypeOK, NoEntry, Entries
  <1>1. cache' \in [url : Entries, pattern : Entries] /\ ResultInv'
    <2>1. ASSUME NEW sibling \in BOOLEAN, NEW sufficient \in BOOLEAN, OthersRecord(sibling, sufficient)
          PROVE  cache' \in [url : Entries, pattern : Entries] /\ ResultInv'
      <3>1. /\ pc \in {"exact", "pattern"}
            /\ cache' = [url |-> IF sibling THEN cache.url ELSE RecordComparison(cache.url, sufficient),
                         pattern |-> RecordComparison(cache.pattern, sufficient)]
            /\ doubted' = (doubted \/ (pc = "exact" /\ ~sibling /\ ~sufficient))
        BY <2>1 DEF OthersRecord
      <3>2. cache' \in [url : Entries, pattern : Entries]
        BY <1>c, <3>1, ComparisonType
      <3>3. cache.url.contradictions > 0 \/ (~sibling /\ ~sufficient) => cache'.url.contradictions > 0
        BY <1>c, <3>1, ComparisonType
      <3>4. result = NoResult
        BY <3>1 DEF Inv, ResultInv, Capturing
      <3> QED
        BY <1>a, <3>1, <3>2, <3>3, <3>4
           DEF Inv, ResultInv, PlainNeedsEvidence, NoResult, Early, Admission
    <2>2. ASSUME NEW key \in {"url", "pattern"}, EntryExpires(key)
          PROVE  cache' \in [url : Entries, pattern : Entries] /\ ResultInv'
      <3>1. /\ pc \in {"exact", "pattern"} /\ cache' = [cache EXCEPT ![key] = NoEntry]
            /\ doubted' = (doubted /\ key # "url")
        BY <2>2 DEF EntryExpires
      <3>2. cache' \in [url : Entries, pattern : Entries] /\ (key # "url" => cache'.url = cache.url)
        BY <1>c, <3>1
      <3>3. result = NoResult
        BY <3>1 DEF Inv, ResultInv, Capturing
      <3> QED
        BY <1>a, <3>1, <3>2, <3>3
           DEF Inv, ResultInv, PlainNeedsEvidence, NoResult, Early, Admission
    <2>3. CASE LeaseExpires \/ Tick \/ UNCHANGED vars
      <3>1. cache' = cache /\ doubted' = doubted
        BY <2>3 DEF LeaseExpires, Tick, vars, evidence
      <3> QED
        BY <1>a, <3>1 DEF TypeOK, Inv, ResultInv, PlainNeedsEvidence
    <2> QED
      BY <2>1, <2>2, <2>3
  <1>2. EvidenceInv'
    BY <1>a, <1>b DEF Inv, EvidenceInv, Gated, MayRun
  <1>3. CASE LeaseExpires
    <2>1. rows' = SessionEnds /\ lost' = TRUE /\ rows["session"] = "active"
      BY <1>3 DEF LeaseExpires
    <2>2. /\ rows' \in [Resources -> RowStates] /\ rows'["lease"] = rows["lease"]
          /\ \A r \in Resources : rows[r] = "none" <=> rows'[r] = "none"
          /\ rows'["session"] \notin Live /\ rows'["slot"] \notin Live /\ rows'["cloud"] \notin Live
      BY <2>1 DEF SessionEnds, TypeOK, Resources, RowStates, Live
    <2>3. TypeOK'
      BY <1>a, <1>1, <2>2 DEF TypeOK
    <2>4. GrantsInv'
      BY <1>a, <2>1, <2>2 DEF Inv, GrantsInv, Resources, Live
    <2>5. StagesInv'
      BY <1>a, <1>b, <2>1, <2>2 DEF Inv, StagesInv, Resources
    <2> QED
      BY <1>1, <1>2, <2>3, <2>4, <2>5 DEF Inv
  <1>4. CASE ~LeaseExpires
    <2>1. rows' = rows /\ lost' = lost
      BY <1>4 DEF OthersRecord, EntryExpires, Tick, vars, store
    <2>2. TypeOK' /\ GrantsInv'
      BY <1>a, <1>1, <2>1 DEF TypeOK, Inv, GrantsInv
    <2>3. StagesInv'
      BY <1>a, <1>b, <2>1 DEF Inv, StagesInv
    <2> QED
      BY <1>1, <1>2, <2>2, <2>3 DEF Inv
  <1> QED
    BY <1>3, <1>4

-----------------------------------------------------------------------------
(* The theorems.                                                           *)

\* The invariant holds before the capture begins.
LEMMA Initially == Init => TypeOK /\ Inv
  <1> SUFFICES ASSUME Init PROVE TypeOK /\ Inv
    OBVIOUS
  <1>1. TypeOK
    BY DEF Init, TypeOK, Capturing, RowStates, NoEntry, Entries
  <1>2. GrantsInv /\ StagesInv
    BY DEF Init, GrantsInv, StagesInv, Resources, Live, Early, SlotStages, CloudStages, Rendering, Ended
  <1>3. EvidenceInv
    BY DEF Init, EvidenceInv, Gated, Rendering
  <1>4. ResultInv
    BY DEF Init, ResultInv, PlainNeedsEvidence, NoResult
  <1> QED
    BY <1>1, <1>2, <1>3, <1>4 DEF Inv

\* Every step keeps the invariant.
LEMMA Invariance == TypeOK /\ Inv /\ [Next]_vars => TypeOK' /\ Inv'
  <1> SUFFICES ASSUME TypeOK, Inv, [Next]_vars PROVE TypeOK' /\ Inv'
    OBVIOUS
  <1>1. Cancelled => pc \in Capturing \/ pc \in Cleaning
    BY DEF Cancelled
  <1> QED
    BY <1>1, AdmissionSteps, FetchStep, VerdictSteps, GrantSteps, RaiseSteps, RenderedStep,
       CompareStep, DeadlineSteps, ForgettingSteps, CutStep, CleanupSteps, WorldSteps, Zenon DEF Next

\* The invariant holds throughout a capture.
LEMMA Always == Spec => [](TypeOK /\ Inv)
  BY Initially, Invariance, PTL DEF Spec

\* However a capture ends, and wherever it was interrupted: only a cleanup that
\* ran out of its budget or was itself cancelled leaves a row, and never a
\* browser without its session; and without such a fault all that can be left is
\* a session whose admission was cancelled around its commit.
THEOREM CaptureReturnsCapacity == Spec => []CapacityReturned
  <1>1. TypeOK /\ Inv => CapacityReturned
    BY DEF CapacityReturned, Inv, GrantsInv, Resources, Ended, Capturing
  <1> QED
    BY <1>1, Always, PTL

\* A tier renders only on active capacity of its own.
THEOREM CaptureRendersOnItsOwn == Spec => []RendersOnlyWhatItHolds
  <1>1. TypeOK /\ Inv => RendersOnlyWhatItHolds
    BY DEF RendersOnlyWhatItHolds, TypeOK, Inv, StagesInv, Live, Rendering
  <1> QED
    BY <1>1, Always, PTL

\* Resolvers run only where the caller allowed them, on bot protection, in
\* order and once each; and after an answer that limits the client only the paid
\* one, where that answer was a local render of which no page could be read.
THEOREM CaptureResolversGated == Spec => []ResolversGated
  <1>1. TypeOK /\ Inv => ResolversGated
    BY DEF ResolversGated, Inv, EvidenceInv, StagesInv, Gated, Resolvers
  <1> QED
    BY <1>1, Always, PTL

\* The bytes of plain HTTP are the answer only where a render confirmed them,
\* or where the method cache, uncontradicted for the URL, vouched for them.
THEOREM CapturePlainOnEvidence == Spec => []PlainNeedsEvidence
  <1>1. TypeOK /\ Inv => PlainNeedsEvidence
    BY DEF Inv, ResultInv
  <1> QED
    BY <1>1, Always, PTL

-----------------------------------------------------------------------------
(* The reports.                                                            *)

\* Decide sets the decision of the last attempt and keeps the others, and what
\* every one of them met.
LEMMA DecideReports ==
    ASSUME NEW list \in Seq(Evidences), list # <<>>, NEW d \in {"accept", "escalate", "fail"}
    PROVE  /\ Len(Decide(list, d)) = Len(list)
           /\ Decide(list, d)[Len(list)].decision = d
           /\ \A i \in 1..Len(list) : /\ Decide(list, d)[i].tier = list[i].tier
                                      /\ Limited(Decide(list, d)[i]) <=> Limited(list[i])
           /\ \A i \in 1..(Len(list) - 1) : Decide(list, d)[i].decision = list[i].decision
  <1>1. Len(list) \in Nat \ {0}
    OBVIOUS
  <1>2. \A i \in 1..Len(list) : list[i] \in Evidences
    OBVIOUS
  <1>3. Decide(list, d) = [list EXCEPT ![Len(list)].decision = d]
    BY DEF Decide
  <1>4. /\ Decide(list, d)[Len(list)] = [list[Len(list)] EXCEPT !.decision = d]
        /\ \A i \in 1..(Len(list) - 1) : Decide(list, d)[i] = list[i]
    BY <1>1, <1>3
  <1>5. Len(Decide(list, d)) = Len(list)
    BY DecideKeeps
  <1>6. [list[Len(list)] EXCEPT !.decision = d].decision = d
    BY <1>1, <1>2 DEF Evidences
  <1>7. \A i \in 1..Len(list) : /\ Decide(list, d)[i].tier = list[i].tier
                                /\ Limited(Decide(list, d)[i]) <=> Limited(list[i])
    BY DecideKeeps DEF Limited, Limiting
  <1>8. Decide(list, d)[Len(list)].decision = d
    BY <1>4, <1>6
  <1>9. \A i \in 1..(Len(list) - 1) : Decide(list, d)[i].decision = list[i].decision
    BY <1>4
  <1> QED
    BY <1>5, <1>7, <1>8, <1>9

\* The evidence of a tier that ended, appended and decided.
LEMMA AppendReports ==
    ASSUME NEW list \in Seq(Evidences), Undecided(list), NEW e \in Evidences,
           NEW d \in {"accept", "escalate", "fail"}, NEW new, new = Decide(Append(list, e), d)
    PROVE  /\ Len(new) = Len(list) + 1 /\ new[Len(new)].tier = e.tier
           /\ d = "accept" => AcceptedLast(new)
           /\ d # "accept" => Undecided(new)
           /\ Limited(e) => EndsLimited(new)
  <1> DEFINE long == Append(list, e)
  <1>1. /\ long \in Seq(Evidences) /\ long # <<>> /\ Len(list) \in Nat
        /\ Len(long) = Len(list) + 1 /\ long[Len(list) + 1] = e
        /\ \A i \in 1..Len(list) : long[i] = list[i]
    OBVIOUS
  <1> HIDE DEF long
  <1>2. /\ Len(new) = Len(long) /\ new[Len(long)].decision = d
        /\ \A i \in 1..Len(long) : new[i].tier = long[i].tier /\ (Limited(new[i]) <=> Limited(long[i]))
        /\ \A i \in 1..(Len(long) - 1) : new[i].decision = long[i].decision
    BY <1>1, DecideReports DEF long
  <1>3. Len(list) + 1 \in 1..Len(new) /\ Len(new) = Len(list) + 1
    BY <1>1, <1>2
  <1>4. \A i \in 1..Len(list) : new[i].decision # "accept"
    BY <1>1, <1>2 DEF Undecided
  <1> QED
    BY <1>1, <1>2, <1>3, <1>4 DEF AcceptedLast, Undecided, EndsLimited

\* Rows are never forgotten, and a cloud row is only made for the paid tier.
RowsGrow ==
    /\ \A r \in Resources : rows[r] # "none" => rows'[r] # "none"
    /\ rows'["cloud"] # "none" => rows["cloud"] # "none" \/ tier = "challenge_resolution"

\* One row that is made or moved on.
LEMMA OneRowGrows ==
    ASSUME TypeOK, NEW r \in Resources, NEW s, rows' = [rows EXCEPT ![r] = s],
           s = "none" => rows[r] = "none",
           r = "cloud" /\ s # "none" => rows["cloud"] # "none" \/ tier = "challenge_resolution"
    PROVE  RowsGrow
  BY DEF TypeOK, RowsGrow, Resources

\* The session's end forgets no row either.
LEMMA SessionEndsGrows ==
    ASSUME TypeOK, rows' = SessionEnds
    PROVE  RowsGrow
  BY DEF TypeOK, RowsGrow, SessionEnds, Resources, Live

\* A cleanup forgets no row.
LEMMA EndsGrows ==
    ASSUME TypeOK, NEW r \in Resources, Ends(r)
    PROVE  RowsGrow
  <1>1. CASE UNCHANGED rows
    BY <1>1 DEF RowsGrow
  <1>2. CASE Row(r, IF rows[r] \in Live THEN "ended" ELSE rows[r])
    <2>1. PICK s : s = IF rows[r] \in Live THEN "ended" ELSE rows[r]
      OBVIOUS
    <2>2. rows' = [rows EXCEPT ![r] = s] /\ (s = "none" => rows[r] = "none")
          /\ (s # "none" => rows[r] # "none")
      BY <1>2, <2>1 DEF Row, Live
    <2> QED
      BY <2>2, OneRowGrows
  <1> QED
    BY <1>1, <1>2 DEF Ends

\* An interruption forgets no row.
LEMMA UnwoundGrows ==
    ASSUME TypeOK, Inv, pc \in Capturing \cup Cleaning, Unwound
    PROVE  RowsGrow
  <1>1. CASE UNCHANGED rows
    BY <1>1 DEF RowsGrow
  <1>2. ASSUME NEW r \in Resources, NEW admissible, Withdrawn(r, admissible),
               r = "cloud" => tier = "challenge_resolution"
        PROVE  RowsGrow
    <2> DEFINE ended == IF rows[r] \in Live THEN "ended" ELSE rows[r]
               late == IF rows[r] \in Live THEN rows[r] ELSE "acquiring"
    <2>1. (ended = "none" => rows[r] = "none") /\ (late = "none" => rows[r] = "none")
      OBVIOUS
    <2> HIDE DEF ended, late
    <2>2. PICK s : rows' = [rows EXCEPT ![r] = s] /\ (s = "none" => rows[r] = "none")
      <3>1. rows' = [rows EXCEPT ![r] = ended] \/ rows' = [rows EXCEPT ![r] = late]
        BY <1>2 DEF Withdrawn, Row, ended, late
      <3> QED
        BY <2>1, <3>1
    <2> QED
      BY <1>2, <2>2, OneRowGrows
  <1>3. ASSUME NEW r \in Resources, Committed(r)
        PROVE  RowsGrow
    BY <1>3, OneRowGrows DEF Committed, Row
  <1>4. pc \in {"cloudEnqueue", "cloudWait"} => tier = "challenge_resolution"
    BY DEF Inv, StagesInv, CloudStages
  <1>5. \/ UNCHANGED rows
        \/ Withdrawn("session", TRUE) \/ Withdrawn("lease", TRUE)
        \/ Withdrawn("slot", SlotAdmissible)
        \/ pc \in {"cloudEnqueue", "cloudWait"} /\ Withdrawn("cloud", CloudAdmissible)
        \/ Committed("slot") \/ Committed("cloud")
    BY DEF Unwound, Untouched
  <1> QED
    BY <1>1, <1>2, <1>3, <1>4, <1>5 DEF Resources

\* A step that decides nothing keeps what the capture used.
LEMMA QuietUse ==
    ASSUME TypeOK, UseInv, UNCHANGED <<attempts, result, tier, paid>>,
           RowsGrow, "slot" \in held' => "slot" \in held \/ rows'["slot"] # "none",
           pc' \in Early => pc \in Early, pc' \in Rendering => pc \in Rendering,
           pc' = "browser" =>
               pc = "browser" \/ rows'[IF tier = "challenge_resolution" THEN "cloud" ELSE "slot"] # "none",
           pc' = "compare" => pc' = pc, pc' \in Capturing => pc \in Capturing
    PROVE  UseInv'
  <1>1. /\ rows["slot"] # "none" => rows'["slot"] # "none"
        /\ rows["cloud"] # "none" => rows'["cloud"] # "none"
        /\ rows'["cloud"] # "none" => rows["cloud"] # "none" \/ tier = "challenge_resolution"
    BY DEF RowsGrow, Resources
  <1>2. RenderUsed => RenderUsed'
    BY <1>1 DEF RenderUsed, AcceptedLast
  <1> QED
    BY <1>1, <1>2 DEF UseInv, Undecided, RenderedPage

\* A step that neither decides nor reports anything.
LEMMA QuietReports ==
    ASSUME TypeOK, UseInv, ReportInv, UNCHANGED <<page, attempts, result, tier, paid, recorded, observed>>,
           RowsGrow, "slot" \in held' => "slot" \in held \/ rows'["slot"] # "none",
           pc' \in Early => pc \in Early, pc' \in Rendering => pc \in Rendering,
           pc' = "browser" =>
               pc = "browser" \/ rows'[IF tier = "challenge_resolution" THEN "cloud" ELSE "slot"] # "none",
           pc' = "compare" => pc' = pc,
           pc = "cut" \/ pc' = "cut" => pc' = pc /\ \A r \in Resources : rows'[r] = "none" <=> rows[r] = "none",
           pc' \in Capturing => pc \in Capturing,
           pc' = "dropLease" => pc \in Capturing \cup {"dropLease"},
           pc' = "record" => pc \in Capturing \cup {"dropLease", "record"}
    PROVE  UseInv' /\ ReportInv'
  <1>1. UseInv'
    BY QuietUse
  <1>2. pc' = "cut" => FactsMatchUse'
    BY DEF ReportInv, FactsMatchUse, Resources
  <1>3. ThrottleReported'
    BY DEF ReportInv, ThrottleReported
  <1>4. ReportInv'
    BY <1>2, <1>3 DEF ReportInv
  <1> QED
    BY <1>1, <1>4

\* A step that ends the capture proper.
LEMMA FinishReports ==
    ASSUME TypeOK, Inv, UseInv, ReportInv, pc \in Capturing, pc' \notin Capturing, pc' # "cut", RowsGrow,
           UNCHANGED <<held, recorded, observed>>, paid' \in BOOLEAN,
           result' # NoResult => tier' = tier /\ (paid' => paid \/ tier = "challenge_resolution"),
           result'.failure = "rate_limited" => EndsLimited(attempts'),
           RenderedPage(result') => RenderUsed'
    PROVE  UseInv' /\ ReportInv'
  <1>1. /\ rows["slot"] # "none" => rows'["slot"] # "none"
        /\ rows'["cloud"] # "none" => rows["cloud"] # "none" \/ tier = "challenge_resolution"
    BY DEF RowsGrow, Resources
  <1>2. /\ pc' \notin Early /\ pc' \notin Rendering
        /\ pc' # "browser" /\ pc' # "compare"
    BY DEF Capturing, Early, Admission, Rendering
  <1>3. UseInv'
    BY <1>1, <1>2 DEF UseInv, RenderedPage
  <1>4. recorded' = {} /\ observed' = "none"
    BY DEF ReportInv
  <1>5. ReportInv'
    BY <1>2, <1>4 DEF ReportInv, ThrottleReported
  <1> QED
    BY <1>3, <1>5

\* A step that goes on to render a tier.
LEMMA RenderReports ==
    ASSUME TypeOK, Inv, UseInv, ReportInv, pc \in Capturing, pc' \in Rendering, RowsGrow,
           UNCHANGED <<held, result, recorded, observed>>, Undecided(attempts'),
           paid' \in BOOLEAN, paid' => paid \/ tier = "challenge_resolution",
           tier = "challenge_resolution" => tier' = "challenge_resolution",
           pc' = "browser" => tier' # "challenge_resolution" /\ "slot" \in held
    PROVE  UseInv' /\ ReportInv'
  <1>1. /\ rows["slot"] # "none" => rows'["slot"] # "none"
        /\ rows'["cloud"] # "none" => rows["cloud"] # "none" \/ tier = "challenge_resolution"
    BY DEF RowsGrow, Resources
  <1>2. pc' \notin Early /\ pc' # "compare" /\ pc' # "cut" /\ pc' \in Capturing
    BY DEF Capturing, Early, Admission, Rendering
  <1>3. result' = NoResult
    BY DEF Inv, ResultInv
  <1>4. ~RenderedPage(result') /\ result'.failure # "rate_limited"
    BY <1>3 DEF RenderedPage, NoResult, NoFailure
  <1>5. UseInv'
    BY <1>1, <1>2, <1>4 DEF UseInv, RenderedPage, Undecided
  <1>6. recorded' = {} /\ observed' = "none"
    BY DEF ReportInv
  <1>7. ReportInv'
    BY <1>2, <1>4, <1>6 DEF ReportInv, ThrottleReported
  <1> QED
    BY <1>5, <1>7

\* What the service returns is what it decided, up to a document it drops.
LEMMA ReturnedReports ==
    ASSUME NEW code, NEW document, NEW kind, NEW r, r \in {Failed(code, document), Captured(document)}
    PROVE  /\ Returned(r, kind).failure = r.failure /\ Returned(r, kind).outcome = r.outcome
           /\ RenderedPage(Returned(r, kind)) => RenderedPage(r)
  <1>1. r = [outcome |-> r.outcome, failure |-> r.failure, document |-> r.document]
    BY DEF Failed, Captured
  <1> QED
    BY <1>1 DEF Returned, RenderedPage

\* Renders, from wherever it is called with decided evidence.
LEMMA RendersReports ==
    ASSUME TypeOK, Inv, UseInv, ReportInv, pc \in Capturing, NEW next \in BrowserTiers, Renders(next),
           RowsGrow, UNCHANGED <<held, recorded, observed>>, Undecided(attempts'),
           paid' \in BOOLEAN, paid' => paid \/ tier = "challenge_resolution",
           tier = "challenge_resolution" => next = "challenge_resolution"
    PROVE  UseInv' /\ ReportInv'
  <1>1. CASE left < 2
    <2>1. /\ result' = Returned(Failed("deadline_exceeded", Kept(page')), page')
          /\ UNCHANGED tier /\ Finishes
      BY <1>1 DEF Renders, Answers, Finally, Goto, Finishes
    <2>2. result'.failure = "deadline_exceeded" /\ result'.outcome = "failed"
      BY <2>1, ReturnedReports DEF Failed
    <2>3. /\ ~RenderedPage(result') /\ result'.failure # "rate_limited"
          /\ pc' \notin Capturing /\ pc' # "cut"
      BY <2>1, <2>2, FinishesIn DEF RenderedPage, Ended
    <2> QED
      BY <2>1, <2>3, FinishReports
  <1>2. CASE ~(left < 2)
    <2>1. /\ tier' = next /\ UNCHANGED result
          /\ pc' = (CASE next = "challenge_resolution" -> "cloudEnqueue"
                      [] next # "challenge_resolution" /\ "slot" \in held -> "browser"
                      [] OTHER -> "slotEnqueue")
      BY <1>2 DEF Renders, Goto
    <2>2. pc' \in Rendering /\ (pc' = "browser" => next # "challenge_resolution" /\ "slot" \in held)
      BY <2>1 DEF Rendering
    <2> QED
      BY <2>1, <2>2, RenderReports
  <1> QED
    BY <1>1, <1>2

\* Answers, with a result that the evidence bears out.
LEMMA AnswersReports ==
    ASSUME TypeOK, Inv, UseInv, ReportInv, pc \in Capturing, NEW code, NEW document,
           NEW r \in {Failed(code, document), Captured(document)}, Answers(r),
           RowsGrow, UNCHANGED <<held, tier, recorded, observed>>,
           paid' \in BOOLEAN, paid' => paid \/ tier = "challenge_resolution",
           r.failure = "rate_limited" => EndsLimited(attempts'),
           RenderedPage(r) => RenderUsed'
    PROVE  UseInv' /\ ReportInv'
  <1>1. result' = Returned(r, page') /\ Finishes
    BY DEF Answers, Finally, Goto, Finishes
  <1>2. result'.failure = r.failure /\ (RenderedPage(result') => RenderedPage(r))
    BY <1>1, ReturnedReports
  <1>3. pc' \notin Capturing /\ pc' # "cut"
    BY <1>1, FinishesIn DEF Ended
  <1> QED
    BY <1>2, <1>3, FinishReports

\* How plain HTTP alone may end a capture: never with a rendered page, and as
\* rate limited only on an answer that limits the client.
LEMMA PlainEndings ==
    ASSUME NEW kind \in DOMAIN PlainEnding
    PROVE  /\ \E code, document : PlainEnding[kind] \in {Failed(code, document), Captured(document)}
           /\ ~RenderedPage(PlainEnding[kind])
           /\ PlainEnding[kind].failure = "rate_limited" =>
                 kind \in {"limited", "largeLimited", "jsonLimited"}
  <1>1. \/ PlainEnding[kind] = Captured("plain")
        \/ /\ PlainEnding[kind] = Failed("rate_limited", "none") \/ PlainEnding[kind] = Failed("rate_limited", "plain")
           /\ kind \in {"limited", "largeLimited", "jsonLimited"}
        \/ \E code, document : code # "rate_limited" /\ PlainEnding[kind] = Failed(code, document)
    BY Domains DEF PlainEnding
  <1> QED
    BY <1>1 DEF Failed, Captured, RenderedPage, NoFailure

\* The plain answer arrives.
LEMMA FetchReports ==
    ASSUME TypeOK, Inv, UseInv, ReportInv, NEW kind \in HttpKinds, NEW seen \in Assessments(kind),
           Fetched(kind, seen)
    PROVE  UseInv' /\ ReportInv'
  <1>a. /\ pc = "fetch" /\ page' = kind /\ UNCHANGED <<paid, rows, held, recorded, observed>>
        /\ pc \in Capturing /\ pc \in Early
    BY DEF Fetched, store, facts, Capturing, Early, Admission
  <1>b. RowsGrow
    BY <1>a DEF RowsGrow
  <1>c. paid' \in BOOLEAN /\ (paid' => paid) /\ tier # "challenge_resolution"
    BY <1>a DEF UseInv
  <1>1. CASE kind \in DOMAIN FetchFailure
    <2>1. Answers(Failed(FetchFailure[kind], "none")) /\ UNCHANGED tier
      BY <1>1 DEF Fetched
    <2>2. FetchFailure[kind] # "rate_limited"
      BY <1>1, Domains DEF FetchFailure
    <2>3. PICK r : r = Failed(FetchFailure[kind], "none")
      OBVIOUS
    <2>4. r.failure # "rate_limited" /\ ~RenderedPage(r)
      BY <2>2, <2>3 DEF Failed, RenderedPage
    <2> QED
      BY <1>a, <1>b, <1>c, <2>1, <2>3, <2>4, AnswersReports
  <1>2. CASE kind = "large"
    <2> DEFINE e == Attempt("direct", kind, seen, "escalate")
    <2>1. attempts' = <<e>> /\ Renders("managed")
      BY <1>2, Domains DEF Fetched
    <2>2. e.decision = "escalate"
      BY DEF Attempt
    <2> HIDE DEF e
    <2>3. Undecided(attempts')
      BY <2>1, <2>2 DEF Undecided
    <2> QED
      BY <1>a, <1>b, <1>c, <2>1, <2>3, RendersReports DEF BrowserTiers
  <1>3. CASE kind \notin DOMAIN FetchFailure /\ kind # "large" /\ kind \notin Classified
    <2> DEFINE d == IF PlainEnding[kind].outcome = "captured" THEN "accept" ELSE "fail"
               e == Attempt("direct", kind, seen, d)
    <2>1. attempts' = <<e>> /\ Answers(PlainEnding[kind]) /\ UNCHANGED tier
      BY <1>3 DEF Fetched
    <2>2. kind \in DOMAIN PlainEnding
      BY <1>3 DEF HttpKinds, Classified, Escalating
    <2>3. kind \in {"limited", "largeLimited", "jsonLimited"} => Limited(e)
      BY AttemptType
    <2> HIDE DEF e
    <2>4. Limited(e) => EndsLimited(attempts')
      BY <2>1 DEF EndsLimited
    <2>5. PICK code, document : PlainEnding[kind] \in {Failed(code, document), Captured(document)}
      BY <2>2, PlainEndings
    <2>6. PICK r : r = PlainEnding[kind]
      OBVIOUS
    <2>7. /\ r \in {Failed(code, document), Captured(document)} /\ Answers(r)
          /\ (r.failure = "rate_limited" => EndsLimited(attempts')) /\ ~RenderedPage(r)
      BY <2>1, <2>2, <2>3, <2>4, <2>5, <2>6, PlainEndings
    <2> QED
      BY <1>a, <1>b, <1>c, <2>1, <2>7, AnswersReports
  <1>4. CASE kind \notin DOMAIN FetchFailure /\ kind # "large" /\ kind \in Classified
    <2>1. pc' = "classify" /\ UNCHANGED <<attempts, tier, result>>
      BY <1>4 DEF Fetched, Goto
    <2>4. result = NoResult /\ result' = NoResult /\ recorded' = {} /\ observed' = "none"
      BY <1>a, <2>1 DEF Inv, ResultInv, ReportInv
    <2>5. ~RenderedPage(result') /\ result'.failure # "rate_limited"
      BY <2>4 DEF RenderedPage, NoResult, NoFailure
    <2>6. UseInv'
      BY <1>a, <1>c, <2>1, <2>5 DEF UseInv, RenderedPage, Early, Admission, Rendering
    <2>7. ReportInv'
      BY <1>a, <2>1, <2>4, <2>5 DEF ReportInv, ThrottleReported
    <2> QED
      BY <2>6, <2>7
  <1> QED
    BY <1>1, <1>2, <1>3, <1>4

\* The verdict on the plain answer: the classifier's, or the method cache's.
LEMMA VerdictReports ==
    ASSUME TypeOK, Inv, UseInv, ReportInv,
           \/ \E seen \in Assessments(page) : Classify(seen)
           \/ \E usual, canary \in BOOLEAN : LookUpExact(usual, canary) \/ LookUpPattern(usual, canary)
    PROVE  UseInv' /\ ReportInv'
  <1>a. /\ pc \in {"classify", "exact", "pattern"}
        /\ UNCHANGED <<page, paid, rows, held, recorded, observed>>
    BY DEF Classify, LookUpExact, LookUpPattern, store, facts
  <1>b. pc \in Capturing /\ pc \in Early /\ result = NoResult
    BY <1>a DEF Capturing, Early, Inv, ResultInv
  <1>c. RowsGrow
    BY <1>a DEF RowsGrow
  <1>d. paid' \in BOOLEAN /\ (paid' => paid) /\ tier # "challenge_resolution"
    BY <1>a, <1>b DEF UseInv
  <1>f. ASSUME NEW e \in Evidences, NEW d \in {"accept", "escalate", "fail"}, attempts' = Decide(<<e>>, d)
        PROVE  (d = "escalate" => Undecided(attempts')) /\ (Limited(e) => EndsLimited(attempts'))
    <2>0. <<e>> \in Seq(Evidences) /\ <<e>> # <<>> /\ Len(<<e>>) = 1 /\ <<e>>[1] = e
      OBVIOUS
    <2>1. /\ Len(attempts') = 1 /\ attempts'[1].decision = d
          /\ \A i \in 1..1 : Limited(attempts'[i]) <=> Limited(<<e>>[i])
      BY <1>f, <2>0, DecideReports
    <2>2. \A i : i \in 1..1 <=> i = 1
      OBVIOUS
    <2> QED
      BY <2>0, <2>1, <2>2 DEF Undecided, EndsLimited
  <1>g. ASSUME NEW next \in BrowserTiers, NEW e \in Evidences, attempts' = Decide(<<e>>, "escalate"),
               Renders(next)
        PROVE  UseInv' /\ ReportInv'
    BY <1>a, <1>b, <1>c, <1>d, <1>f, <1>g, RendersReports
  <1>h. ASSUME NEW label \in {"exact", "pattern"}, pc' = label, UNCHANGED <<result, tier>>
        PROVE  UseInv' /\ ReportInv'
    <2>1. /\ pc' \in Early /\ pc' \in Capturing /\ pc' \notin Rendering
          /\ pc' # "browser" /\ pc' # "compare" /\ pc' # "cut"
      BY <1>h DEF Early, Capturing, Rendering
    <2>2. recorded' = {} /\ observed' = "none" /\ result' = NoResult
      BY <1>a, <1>b, <1>h DEF ReportInv
    <2>3. ~RenderedPage(result') /\ result'.failure # "rate_limited"
      BY <2>2 DEF RenderedPage, NoResult, NoFailure
    <2>4. UseInv'
      BY <1>a, <1>b, <1>d, <1>h, <2>1, <2>3 DEF UseInv, RenderedPage
    <2>5. ReportInv'
      BY <2>1, <2>2, <2>3 DEF ReportInv, ThrottleReported
    <2> QED
      BY <2>4, <2>5
  <1>i. ASSUME NEW says, NEW canary \in BOOLEAN, Settled(says, canary), pc \in {"exact", "pattern"}
        PROVE  UseInv' /\ ReportInv'
    <2>0. PICK e \in Evidences : attempts = <<e>>
      BY <1>i DEF Inv, EvidenceInv
    <2>1. CASE attempts' = Decide(attempts, "escalate") /\ Renders("managed")
      BY <1>g, <2>0, <2>1 DEF BrowserTiers
    <2>2. CASE Answers(Captured("plain")) /\ UNCHANGED tier
      <3>1. PICK r : r = Captured("plain")
        OBVIOUS
      <3>2. r.failure # "rate_limited" /\ ~RenderedPage(r)
        BY <3>1 DEF Captured, RenderedPage, NoFailure
      <3> QED
        BY <1>a, <1>b, <1>c, <1>d, <2>2, <3>1, <3>2, AnswersReports
    <2> QED
      BY <1>i, <2>1, <2>2 DEF Settled
  <1>1. ASSUME NEW seen \in Assessments(page), Classify(seen)
        PROVE  UseInv' /\ ReportInv'
    <2> DEFINE e == Attempt("direct", page, seen, "accept")
    <2>1. pc = "classify" /\ page \in Classified /\ attempts = <<>>
      BY <1>1 DEF Classify, Inv, EvidenceInv
    <2>a. e \in Evidences /\ (page = "limited" => Limited(e))
      BY <1>1, AttemptType
    <2>b. Append(attempts, e) = <<e>>
      BY <2>1, <2>a
    <2>2. CASE page \in DOMAIN PlainEnding
      <3> DEFINE d == IF PlainEnding[page].outcome = "captured" THEN "accept" ELSE "fail"
      <3>1. attempts' = Decide(<<e>>, d) /\ Answers(PlainEnding[page]) /\ UNCHANGED tier
        <4>1. page \notin {"usable", "shell", "challenge", "block"}
          BY <2>2, Domains
        <4> QED
          BY <1>1, <2>2, <2>b, <4>1 DEF Classify
      <3>2. d \in {"accept", "escalate", "fail"}
        OBVIOUS
      <3> HIDE DEF e
      <3>3. page = "limited" => EndsLimited(attempts')
        BY <1>f, <2>a, <3>1, <3>2
      <3>4. PICK code, document : PlainEnding[page] \in {Failed(code, document), Captured(document)}
        BY <2>2, PlainEndings
      <3>5. PICK r : r = PlainEnding[page]
        OBVIOUS
      <3>6. page \notin {"largeLimited", "jsonLimited"}
        BY <2>1 DEF Classified, Escalating
      <3>7. /\ r \in {Failed(code, document), Captured(document)} /\ Answers(r)
            /\ (r.failure = "rate_limited" => page = "limited") /\ ~RenderedPage(r)
        BY <2>2, <3>1, <3>4, <3>5, <3>6, PlainEndings
      <3>8. r.failure = "rate_limited" => EndsLimited(attempts')
        BY <3>3, <3>7
      <3> QED
        BY <1>a, <1>b, <1>c, <1>d, <3>1, <3>7, <3>8, AnswersReports
    <2>3. CASE page = "usable"
      BY <1>1, <1>h, <2>3, Domains DEF Classify, Goto
    <2>4. CASE page = "shell"
      <3>1. attempts' = Decide(<<e>>, "escalate") /\ Renders("managed")
        BY <1>1, <2>4, <2>b, Domains DEF Classify
      <3> HIDE DEF e
      <3> QED
        BY <1>g, <2>a, <3>1 DEF BrowserTiers
    <2>5. CASE page \in {"challenge", "block"}
      <3> DEFINE next == NextResolution(allow, offered, <<e>>)
                 block == page = "block"
      <3>1. Challenged(<<e>>, block, next)
        BY <1>1, <2>5, <2>b, Domains DEF Classify
      <3> HIDE DEF e
      <3>2. CASE next # "none"
        <4>1. next \in BrowserTiers
          <5>1. <<e>> \in Seq(Evidences)
            BY <2>a
          <5> QED
            BY <3>2, <5>1, NextMayRun DEF BrowserTiers
        <4> HIDE DEF next
        <4> QED
          BY <1>g, <2>a, <3>1, <3>2, <4>1 DEF Challenged
      <3>3. CASE next = "none"
        <4>1. PICK r : r = Failed(BotFailure(block), "plain")
          OBVIOUS
        <4>2. r.failure # "rate_limited" /\ ~RenderedPage(r)
          BY <4>1 DEF Failed, BotFailure, RenderedPage
        <4> HIDE DEF next
        <4>3. Answers(r) /\ UNCHANGED tier
          BY <3>1, <3>3, <4>1 DEF Challenged
        <4> QED
          BY <1>a, <1>b, <1>c, <1>d, <4>1, <4>2, <4>3, AnswersReports
      <3> QED
        BY <3>2, <3>3
    <2> QED
      BY <2>1, <2>2, <2>3, <2>4, <2>5, Domains DEF Classified, Escalating
  <1>2. ASSUME NEW usual \in BOOLEAN, NEW canary \in BOOLEAN, LookUpExact(usual, canary)
        PROVE  UseInv' /\ ReportInv'
    BY <1>2, <1>h, <1>i DEF LookUpExact, Goto
  <1>3. ASSUME NEW usual \in BOOLEAN, NEW canary \in BOOLEAN, LookUpPattern(usual, canary)
        PROVE  UseInv' /\ ReportInv'
    BY <1>3, <1>i DEF LookUpPattern
  <1> QED
    BY <1>1, <1>2, <1>3

\* How a render may end a capture: as captured only with a page that is small
\* but rendered, and as rate limited only on a render that says so.
LEMMA RenderEndings ==
    ASSUME NEW t, NEW plain, NEW usable \in BOOLEAN, NEW blocked \in BOOLEAN,
           NEW kind \in (RenderedKinds \ Compared) \cup DOMAIN RaisedFailure \cup {"notPassed"},
           NEW r, r = RenderEnding(t, kind, plain, usable, blocked)
    PROVE  /\ \E code, document : r \in {Failed(code, document), Captured(document)}
           /\ r.failure = "rate_limited" => kind = "limited"
           /\ r.outcome = "captured" => kind = "emptySmall"
  <1>1. \/ \E code, document : (code = "rate_limited" => kind = "limited") /\ r = Failed(code, document)
        \/ r = Captured("rendered") /\ kind = "emptySmall"
    <2>1. CASE kind \in {"excluded", "challenge", "block", "emptyText", "emptySmall", "empty", "notPassed"}
      BY <2>1, Domains DEF RenderEnding, BrowserRefused, BotFailure
    <2>2. CASE kind \in DOMAIN FailedRender
      BY <2>2, Domains DEF RenderEnding, BrowserRefused, FailedRender
    <2>3. CASE kind \in DOMAIN RaisedFailure
      BY <2>3, Domains DEF RenderEnding, BrowserRefused, RaisedFailure
    <2>4. CASE kind \in BrowserRefused \cup {"notFound"}
      BY <2>4, Domains DEF RenderEnding, BrowserRefused, ReasonFailure
    <2> QED
      BY <2>1, <2>2, <2>3, <2>4 DEF RenderedKinds
  <1> QED
    BY <1>1 DEF Failed, Captured, NoFailure

\* A tier ends.
LEMMA AfterReports ==
    ASSUME TypeOK, Inv, UseInv, ReportInv, pc \in Rendering, UNCHANGED <<held, recorded, observed>>,
           RowsGrow, NEW e \in Evidences, e.tier = tier,
           NEW kind \in (RenderedKinds \ Compared) \cup DOMAIN RaisedFailure \cup {"notPassed"},
           kind = "limited" => Limited(e),
           kind = "emptySmall" => pc = "browser" /\ (tier = "challenge_resolution" => paid'),
           paid' \in BOOLEAN, paid' => paid \/ tier = "challenge_resolution",
           After(kind, Append(attempts, e))
    PROVE  UseInv' /\ ReportInv'
  <1> DEFINE list == Append(attempts, e)
             resolution == NextResolution(allow, offered, list)
             next == IF kind \in {"challenge", "block"} THEN resolution
                     ELSE IF kind \in DOMAIN FailedRender \cup DOMAIN RaisedFailure \cup {"notPassed"}
                     THEN FallbackOf(tier, resolution) ELSE "none"
             ending == RenderEnding(tier, kind, Plain, Usable, Blocked)
             d == IF ending.outcome = "captured" THEN "accept" ELSE "fail"
  <1>a. /\ attempts \in Seq(Evidences) /\ Undecided(attempts) /\ MayRun(tier, attempts)
        /\ pc \in Capturing
    BY DEF TypeOK, Inv, EvidenceInv, UseInv, Rendering, Capturing
  <1>b. /\ list \in Seq(Evidences) /\ Len(list) = Len(attempts) + 1 /\ Len(attempts) \in Nat
        /\ \A i \in 1..Len(attempts) : i \in 1..Len(list) /\ list[i] = attempts[i]
    BY <1>a
  <1>c. \/ next # "none" /\ attempts' = Decide(list, "escalate") /\ Renders(next)
        \/ next = "none" /\ attempts' = Decide(list, d) /\ Answers(ending) /\ UNCHANGED tier
    BY DEF After
  <1> HIDE DEF list
  <1>1. CASE next # "none"
    <2>1. next = resolution
      BY <1>1 DEF FallbackOf
    <2>2. next \in Resolvers /\ \A i \in 1..Len(list) : list[i].tier # next
      BY <1>1, <1>b, <2>1, NextMayRun
    <2>3. tier = "challenge_resolution" => next = "challenge_resolution"
      <3>1. tier = "challenge_resolution" => \E i \in 1..Len(list) : list[i].tier = "local_resolution"
        BY <1>a, <1>b DEF MayRun
      <3> QED
        BY <2>2, <3>1 DEF Resolvers
    <2>4. Undecided(attempts')
      BY <1>1, <1>a, <1>c, AppendReports DEF list
    <2>5. Renders(next) /\ next \in BrowserTiers
      BY <1>1, <1>c, <2>2 DEF BrowserTiers
    <2> HIDE DEF next
    <2> QED
      BY <1>a, <2>3, <2>4, <2>5, RendersReports
  <1>2. CASE next = "none"
    <2>1. attempts' = Decide(list, d) /\ Answers(ending) /\ UNCHANGED tier
      BY <1>2, <1>c
    <2>2. d \in {"accept", "escalate", "fail"} /\ Usable \in BOOLEAN /\ Blocked \in BOOLEAN
      BY DEF Usable, Blocked
    <2>3. /\ \E code, document : ending \in {Failed(code, document), Captured(document)}
          /\ ending.failure = "rate_limited" => kind = "limited"
          /\ ending.outcome = "captured" => kind = "emptySmall" /\ d = "accept"
      BY <2>2, RenderEndings
    <2>4. /\ attempts'[Len(attempts')].tier = tier
          /\ d = "accept" => AcceptedLast(attempts')
          /\ Limited(e) => EndsLimited(attempts')
      BY <1>a, <2>1, <2>2, AppendReports DEF list
    <2>5. PICK r : r = ending
      OBVIOUS
    <2> HIDE DEF ending, d, next
    <2>6. r.failure = "rate_limited" => EndsLimited(attempts')
      BY <2>3, <2>4, <2>5
    <2>7. RenderedPage(r) => RenderUsed'
      <3>1. SUFFICES ASSUME r.outcome = "captured"
                     PROVE  RenderUsed'
        BY DEF RenderedPage
      <3>2. kind = "emptySmall" /\ AcceptedLast(attempts') /\ pc = "browser"
        BY <2>3, <2>4, <2>5, <3>1
      <3>3. IF tier = "challenge_resolution" THEN rows'["cloud"] # "none" ELSE rows'["slot"] # "none"
        BY <3>2 DEF UseInv, RowsGrow, Resources
      <3>4. AcceptedLast(attempts)'
        BY <3>2 DEF AcceptedLast
      <3> QED
        BY <1>a, <2>1, <2>4, <3>2, <3>3, <3>4 DEF RenderUsed, MayRun
    <2> QED
      BY <1>a, <2>1, <2>3, <2>5, <2>6, <2>7, AnswersReports
  <1> QED
    BY <1>1, <1>2

\* tier.render raises.
LEMMA RaisesReports ==
    ASSUME TypeOK, Inv, UseInv, ReportInv, pc \in Rendering, UNCHANGED <<held, recorded, observed>>,
           RowsGrow, NEW kind \in DOMAIN RaisedFailure \cup {"notPassed"}, Raises(kind)
    PROVE  UseInv' /\ ReportInv'
  <1> DEFINE primary == IF kind = "notPassed" THEN "bot_challenge" ELSE "other"
             e == RaisedAttempt(tier, primary)
  <1>1. MayRun(tier, attempts)
    BY DEF Inv, EvidenceInv
  <1>2. e \in Evidences /\ e.tier = tier
    <2>1. tier \in {"direct"} \cup BrowserTiers /\ primary \in {"bot_challenge", "other"}
      BY <1>1 DEF MayRun
    <2> HIDE DEF primary
    <2> QED
      BY <2>1, RaisedType
  <1>3. kind # "limited" /\ kind # "emptySmall"
    BY Domains
  <1>4. After(kind, Append(attempts, e))
    BY DEF Raises
  <1>5. paid' \in BOOLEAN /\ (paid' => paid \/ tier = "challenge_resolution")
    BY DEF Raises, UseInv
  <1> HIDE DEF e
  <1> QED
    BY <1>2, <1>3, <1>4, <1>5, AfterReports

\* The capacity of a tier is refused, its acquisition fails, or its browser raises.
LEMMA RaiseStepsReport ==
    ASSUME TypeOK, Inv, UseInv, ReportInv,
           \/ SlotRefused \/ NoTimeForSlot \/ AcquisitionFails \/ CloudRefused
           \/ CloudConflict \/ RenderTimesOut
           \/ \E kind \in {"busy", "broken"} : SlotConflict(kind)
           \/ \E kind \in {"notPassed", "busy", "broken"} : BrowserRaises(kind)
    PROVE  UseInv' /\ ReportInv'
  <1>1. /\ pc \in Rendering /\ UNCHANGED <<held, recorded, observed>>
        /\ Unwound \/ UNCHANGED rows
        /\ \E kind \in DOMAIN RaisedFailure \cup {"notPassed"} : Raises(kind)
    BY Domains DEF SlotRefused, SlotConflict, NoTimeForSlot, AcquisitionFails, CloudRefused,
        CloudConflict, RenderTimesOut, BrowserRaises, Rendering, store, facts
  <1>2. RowsGrow
    BY <1>1, UnwoundGrows DEF RowsGrow, Rendering, Capturing
  <1> QED
    BY <1>1, <1>2, RaisesReports

\* The browser answers.
LEMMA RenderedReports ==
    ASSUME TypeOK, Inv, UseInv, ReportInv, NEW kind \in RenderedKinds, NEW seen \in Assessments(kind),
           Rendered(kind, seen)
    PROVE  UseInv' /\ ReportInv'
  <1> DEFINE e == Attempt(tier, kind, seen, "accept")
             list == Append(attempts, e)
  <1>a. /\ pc = "browser" /\ pc \in Rendering /\ pc \in Capturing
        /\ UNCHANGED <<page, rows, held, recorded, observed>>
        /\ paid' = (paid \/ tier = "challenge_resolution")
    BY DEF Rendered, store, facts, Rendering, Capturing
  <1>b. RowsGrow /\ paid' \in BOOLEAN
    BY <1>a DEF RowsGrow, UseInv
  <1>c. MayRun(tier, attempts) /\ attempts \in Seq(Evidences) /\ Undecided(attempts)
    BY <1>a DEF TypeOK, Inv, EvidenceInv, UseInv
  <1>d. e \in Evidences /\ e.tier = tier /\ e.decision = "accept" /\ (kind = "limited" => Limited(e))
    <2>1. tier \in {"direct"} \cup BrowserTiers
      BY <1>c DEF MayRun
    <2> QED
      BY <2>1, AttemptType
  <1> HIDE DEF e
  <1>1. CASE kind \in Compared
    <2>1. attempts' = list /\ pc' = "compare" /\ UNCHANGED <<result, tier>>
      BY <1>1 DEF Rendered, Goto, e
    <2>2. /\ Len(list) = Len(attempts) + 1 /\ Len(attempts) \in Nat /\ list[Len(list)] = e
          /\ \A i \in 1..(Len(list) - 1) : list[i] = attempts[i] /\ i \in 1..Len(attempts)
      BY <1>c, <1>d
    <2>3. AcceptedLast(list)
      BY <1>c, <1>d, <2>2 DEF AcceptedLast, Undecided
    <2> HIDE DEF list
    <2>4. AcceptedLast(attempts)'
      BY <2>1, <2>3 DEF AcceptedLast
    <2>5. RenderUsed'
      BY <1>a, <1>c, <1>d, <2>1, <2>2, <2>4 DEF RenderUsed, MayRun, UseInv
    <2>6. result' = NoResult /\ recorded' = {} /\ observed' = "none"
      BY <1>a, <2>1 DEF Inv, ResultInv, ReportInv
    <2>7. UseInv'
      BY <1>a, <1>b, <2>1, <2>5 DEF UseInv, Early, Admission, Rendering
    <2>8. ReportInv'
      BY <2>1, <2>6 DEF ReportInv, ThrottleReported, NoResult, NoFailure
    <2> QED
      BY <2>7, <2>8
  <1>2. CASE kind \notin Compared
    <2>1. After(kind, list)
      BY <1>2 DEF Rendered, e
    <2>2. kind \in (RenderedKinds \ Compared) \cup DOMAIN RaisedFailure \cup {"notPassed"}
      BY <1>2
    <2>3. (tier = "challenge_resolution" => paid') /\ (paid' => paid \/ tier = "challenge_resolution")
      BY <1>a
    <2> QED
      BY <1>a, <1>b, <1>d, <2>1, <2>2, <2>3, AfterReports
  <1> QED
    BY <1>1, <1>2

\* The comparison decides.
LEMMA CompareReports ==
    ASSUME TypeOK, Inv, UseInv, ReportInv, Compare
    PROVE  UseInv' /\ ReportInv'
  <1>1. /\ pc = "compare" /\ pc \in Capturing /\ Finishes
        /\ UNCHANGED <<tier, attempts, paid, rows, held, recorded, observed>>
        /\ result' \in {Captured("plain"), Captured("rendered")}
    BY DEF Compare, Finally, Goto, Finishes, store, facts, Capturing
  <1>2. result'.failure # "rate_limited" /\ pc' \notin Capturing /\ pc' # "cut" /\ RowsGrow
    BY <1>1, FinishesIn DEF Captured, NoFailure, Ended, RowsGrow
  <1>3. RenderUsed'
    BY <1>1 DEF UseInv, RenderUsed, AcceptedLast
  <1> QED
    BY <1>1, <1>2, <1>3, FinishReports DEF UseInv

\* The admission decides and reports nothing.
LEMMA AdmissionReports ==
    ASSUME TypeOK, UseInv, ReportInv,
           ReadPolicy \/ Admitted \/ Refused \/ Opened \/ Paced \/ Throttled \/ ChallengeTier
    PROVE  UseInv' /\ ReportInv'
  <1>1. /\ UNCHANGED <<page, attempts, result, tier, paid, recorded, observed>>
        /\ \/ UNCHANGED rows /\ UNCHANGED held
           \/ \E r \in {"session", "lease"} :
                 rows' = [rows EXCEPT ![r] = "active"] /\ held' = held \cup {r}
    BY DEF ReadPolicy, Admitted, Refused, Opened, Paced, Throttled, ChallengeTier,
           Row, given, store, facts
  <1>2. /\ pc \in Admission
        /\ pc' \in {"admit", "open", "pace", "offer", "fetch", "refused"} \/ Finishes
    BY DEF ReadPolicy, Admitted, Refused, Opened, Paced, Throttled, ChallengeTier,
           Goto, Finally, Finishes, Admission
  <1>3. RowsGrow /\ ("slot" \in held' => "slot" \in held)
    <2>1. CASE UNCHANGED rows /\ UNCHANGED held
      BY <2>1 DEF RowsGrow
    <2>2. ASSUME NEW r \in {"session", "lease"},
                 rows' = [rows EXCEPT ![r] = "active"], held' = held \cup {r}
          PROVE  RowsGrow /\ ("slot" \in held' => "slot" \in held)
      BY <2>2, OneRowGrows DEF Resources
    <2> QED
      BY <1>1, <2>1, <2>2
  <1>4. /\ pc \in Early /\ pc \in Capturing /\ pc' \notin Rendering
        /\ pc' # "browser" /\ pc' # "compare" /\ pc' # "cut" /\ pc # "cut"
    BY <1>2, FinishesIn DEF Admission, Early, Capturing, Rendering, Ended
  <1> QED
    BY <1>1, <1>3, <1>4, QuietReports

\* Capacity is asked for, granted and given back on the way to a browser.
LEMMA GrantReports ==
    ASSUME TypeOK, Inv, UseInv, ReportInv,
           \/ \E state \in {"queued", "acquiring"} : SlotEnqueued(state) \/ CloudEnqueued(state)
           \/ SlotClaimed \/ SlotActivated \/ CloudClaimed \/ SlotReturned \/ CloudActivated
    PROVE  UseInv' /\ ReportInv'
  <1>1. UNCHANGED <<page, attempts, result, tier, paid, recorded, observed>>
    BY DEF SlotEnqueued, CloudEnqueued, SlotClaimed, SlotActivated, CloudClaimed, SlotReturned,
           CloudActivated, facts
  <1>2. /\ pc \in Rendering /\ pc' \in Rendering
        /\ pc' = "browser" => SlotActivated \/ CloudActivated
    BY DEF SlotEnqueued, CloudEnqueued, SlotClaimed, SlotActivated, CloudClaimed, SlotReturned,
           CloudActivated, Goto, Rendering
  <1>3. pc \in Capturing /\ pc # "cut" /\ pc' \notin {"compare", "cut", "dropLease", "record"} /\ pc' \notin Early
    BY <1>2 DEF Rendering, Capturing, Early, Admission
  <1>4. /\ RowsGrow /\ ("slot" \in held' => "slot" \in held \/ rows'["slot"] # "none")
        /\ pc' = "browser" => rows'[IF tier = "challenge_resolution" THEN "cloud" ELSE "slot"] # "none"
    <2>1. ASSUME NEW state \in {"queued", "acquiring", "active"}, NEW r \in {"slot", "cloud"},
                 Row(r, state), held' \subseteq held \cup {r},
                 (r = "cloud") <=> (tier = "challenge_resolution")
          PROVE  /\ RowsGrow /\ ("slot" \in held' => "slot" \in held \/ rows'["slot"] # "none")
                 /\ rows'[IF tier = "challenge_resolution" THEN "cloud" ELSE "slot"] # "none"
      <3>1. RowsGrow
        BY <2>1, OneRowGrows DEF Row, Resources
      <3>2. rows'[r] = state
        BY <2>1 DEF TypeOK, Row, Resources
      <3> QED
        BY <2>1, <3>1, <3>2
    <2>2. /\ pc \in SlotStages => tier # "challenge_resolution"
          /\ pc \in CloudStages => tier = "challenge_resolution"
      BY DEF Inv, StagesInv
    <2>3. ASSUME NEW state \in {"queued", "acquiring"}, SlotEnqueued(state)
          PROVE  Row("slot", state) /\ held' \subseteq held \cup {"slot"} /\ tier # "challenge_resolution"
      BY <2>2, <2>3 DEF SlotEnqueued, SlotStages
    <2>4. ASSUME NEW state \in {"queued", "acquiring"}, CloudEnqueued(state)
          PROVE  Row("cloud", state) /\ held' \subseteq held \cup {"cloud"} /\ tier = "challenge_resolution"
      BY <2>2, <2>4 DEF CloudEnqueued, CloudStages
    <2>5. CASE SlotClaimed
      BY <2>1, <2>2, <2>5 DEF SlotClaimed, SlotStages
    <2>6. CASE SlotActivated
      BY <2>1, <2>2, <2>6 DEF SlotActivated, SlotStages
    <2>7. CASE CloudClaimed
      BY <2>1, <2>2, <2>7 DEF CloudClaimed, CloudStages
    <2>8. CASE CloudActivated
      BY <2>1, <2>2, <2>8 DEF CloudActivated, CloudStages
    <2>9. CASE SlotReturned
      <3>1. (Ends("slot") \/ UNCHANGED rows) /\ pc' # "browser" /\ UNCHANGED held
        BY <2>9 DEF SlotReturned, Untouched, Goto
      <3>2. RowsGrow
        BY <3>1, EndsGrows DEF RowsGrow, Resources
      <3> QED
        BY <3>1, <3>2
    <2> QED
      BY <2>1, <2>3, <2>4, <2>5, <2>6, <2>7, <2>8, <2>9
  <1> QED
    BY <1>1, <1>2, <1>3, <1>4, QuietReports

\* The deadline, a cancellation, a lost admission or a database error.
LEMMA InterruptionReports ==
    ASSUME TypeOK, Inv, UseInv, ReportInv,
           \/ ExpiresBeforeFetch \/ DeadlineExpires \/ AdmissionLost \/ DatabaseFails
           \/ Cancelled /\ pc \in Capturing
    PROVE  UseInv' /\ ReportInv'
  <1>1. /\ pc \in Capturing /\ UNCHANGED <<held, recorded, observed>>
        /\ Unwound \/ UNCHANGED rows \/ Row("session", "active")
    BY DEF ExpiresBeforeFetch, DeadlineExpires, AdmissionLost, DatabaseFails, Cancelled, Bounded,
           Serving, Capturing, Rendering, store, facts
  <1>2. pc' \notin Capturing /\ pc' # "cut"
    <2>1. pc' \in {"refused", "abandoned", "raised"} \/ Finishes
      <3>1. pc \notin Cleaning
        BY <1>1 DEF Cleaning, Capturing
      <3> QED
        BY <1>1, <3>1
           DEF ExpiresBeforeFetch, DeadlineExpires, AdmissionLost, DatabaseFails, Cancelled,
               Finally, Goto, Finishes
    <2> QED
      BY <2>1, FinishesIn DEF Capturing, Ended
  <1>3. result = NoResult
    BY <1>1 DEF Inv, ResultInv
  <1>4. \/ result' = NoResult
        \/ (\E document : result' = Failed("deadline_exceeded", document)) /\ UNCHANGED <<tier, paid>>
    BY <1>3 DEF ExpiresBeforeFetch, DeadlineExpires, AdmissionLost, DatabaseFails, Cancelled, Forgotten
  <1>5. result'.failure # "rate_limited" /\ ~RenderedPage(result')
    BY <1>4 DEF NoResult, NoFailure, Failed, RenderedPage
  <1>6. RowsGrow
    <2>1. UNCHANGED rows => RowsGrow
      BY DEF RowsGrow
    <2>2. Row("session", "active") => RowsGrow
      BY OneRowGrows DEF Row, Resources
    <2> QED
      BY <1>1, <2>1, <2>2, UnwoundGrows
  <1>7. paid' \in BOOLEAN
    BY DEF ExpiresBeforeFetch, DeadlineExpires, AdmissionLost, DatabaseFails, Cancelled, Forgotten, UseInv
  <1> QED
    BY <1>1, <1>2, <1>4, <1>5, <1>6, <1>7, FinishReports

\* pacing_observation: a 429 among the evidence is throttling; nothing but an
\* answer of this host that limits the client is; and a capture that ended on
\* another host is neither healthy nor an overload.
LEMMA ObservationIs ==
    ASSUME NEW list \in Seq(Evidences), NEW r, r.failure = "rate_limited" => EndsLimited(list),
           NEW seen, seen = PacingObservation(list, r)
    PROVE  /\ (\E i \in Named(list) : list[i].status = 429) => seen = "throttled"
           /\ seen = "throttled" =>
                 \E i \in Named(list) : list[i].status # Elsewhere /\ Limiting(list[i])
           /\ seen \in {"healthy", "overload"} =>
                 \A i \in Named(list) : (\A j \in Named(list) : j <= i) => list[i].status # Elsewhere
  <1> DEFINE named == {i \in DOMAIN list : list[i].status # Unnamed}
             latest == IF named = {} THEN Unnamed ELSE list[Max(named)].status
             category == Category(r.failure)
             met == \E i \in named : list[i].status = 429
  <1>1. seen = IF met THEN "throttled"
               ELSE IF latest = Elsewhere THEN "neutral"
               ELSE IF r.failure = NoFailure THEN "healthy"
               ELSE IF r.failure = "rate_limited" THEN "throttled"
               ELSE IF \/ category = "content" /\ latest = 403
                       \/ r.failure \in {"website_error", "access_denied", "bot_blocked"}
               THEN "overload" ELSE "neutral"
    BY Zenon DEF PacingObservation
  <1>0. named = Named(list)
    BY DEF Named
  <1>2. ASSUME NEW i \in named, \A j \in named : j <= i
        PROVE  latest = list[i].status
    <2>1. named \subseteq Nat
      OBVIOUS
    <2>2. Max(named) \in named /\ \A j \in named : Max(named) >= j
      BY <1>2, <2>1 DEF Max
    <2> HIDE DEF named
    <2>3. PICK m \in named : m = Max(named) /\ \A j \in named : m >= j
      BY <2>2
    <2>4. m \in Nat /\ i \in Nat
      BY <2>1
    <2>5. m <= i /\ m >= i
      BY <1>2, <2>3
    <2>6. m = i
      BY <2>4, <2>5
    <2> QED
      BY <2>3, <2>6
  <1>3. met => \E i \in named : list[i].status # Elsewhere /\ Limiting(list[i])
    BY DEF Elsewhere, Limiting
  <1>4. r.failure = "rate_limited" =>
           /\ Len(list) \in named /\ latest = list[Len(list)].status
           /\ latest # Elsewhere => Limiting(list[Len(list)])
    <2> SUFFICES ASSUME r.failure = "rate_limited"
                 PROVE  /\ Len(list) \in named /\ latest = list[Len(list)].status
                        /\ latest # Elsewhere => Limiting(list[Len(list)])
      OBVIOUS
    <2>1. Len(list) \in named /\ \A j \in named : j <= Len(list)
      BY DEF EndsLimited, Limited
    <2>2. latest = list[Len(list)].status
      BY <1>2, <2>1
    <2> HIDE DEF latest
    <2> QED
      BY <2>1, <2>2 DEF EndsLimited, Limited
  <1> HIDE DEF latest, met
  <1>5. seen = "throttled" => met \/ (r.failure = "rate_limited" /\ latest # Elsewhere)
    BY <1>1
  <1>6. seen \in {"healthy", "overload"} => latest # Elsewhere
    BY <1>1
  <1>7. met => seen = "throttled"
    BY <1>1
  <1>8. seen = "throttled" => \E i \in named : list[i].status # Elsewhere /\ Limiting(list[i])
    BY <1>3, <1>4, <1>5
  <1> HIDE DEF named
  <1>9. seen \in {"healthy", "overload"} =>
           \A i \in named : (\A j \in named : j <= i) => list[i].status # Elsewhere
    BY <1>2, <1>6
  <1>10. (\E i \in named : list[i].status = 429) => seen = "throttled"
    BY <1>7 DEF met
  <1> QED
    BY <1>0, <1>8, <1>9, <1>10

\* The facts of the evidence agree with what was used.
LEMMA FactsAgree ==
    ASSUME TypeOK, UseInv, NEW f, f = CaptureFacts(attempts, result, paid)
    PROVE  /\ f.outcome = "externally_resolved" => f.external /\ f.paid /\ rows["cloud"] # "none"
           /\ f.outcome = "internally_resolved" => f.local /\ ~f.paid /\ rows["cloud"] = "none"
           /\ f.outcome = "default" /\ result.document = "rendered" =>
                 rows["slot"] # "none" /\ ~f.paid
  <1> DEFINE outcome == AcquisitionOutcome(attempts, result)
             accepted == {i \in DOMAIN attempts : attempts[i].decision = "accept"}
             by == IF accepted = {} THEN "direct" ELSE attempts[Max(accepted)].tier
  <1>2. /\ f.outcome = outcome /\ f.paid = paid
        /\ f.local <=> "local_resolution" \in TiersOf(attempts)
        /\ f.external <=> "challenge_resolution" \in TiersOf(attempts)
    BY DEF CaptureFacts
  <1>3. outcome =
          CASE result.outcome # "captured" -> "total_failure"
            [] result.outcome = "captured" /\ result.document = "rendered"
                  /\ by = "local_resolution" -> "internally_resolved"
            [] result.outcome = "captured" /\ result.document = "rendered"
                  /\ by = "challenge_resolution" -> "externally_resolved"
            [] OTHER -> "default"
    BY Zenon DEF AcquisitionOutcome
  <1>4. CASE ~RenderedPage(result)
    <2>1. outcome \notin {"internally_resolved", "externally_resolved"}
      BY <1>3, <1>4 DEF RenderedPage
    <2>2. outcome = "default" => result.document # "rendered"
      BY <1>3, <1>4 DEF RenderedPage
    <2> QED
      BY <1>2, <2>1, <2>2
  <1>5. CASE RenderedPage(result)
    <2>1. RenderUsed /\ attempts \in Seq(Evidences)
      BY <1>5 DEF UseInv, TypeOK
    <2>2. accepted = {Len(attempts)} /\ Len(attempts) \in Nat
      BY <2>1 DEF RenderUsed, AcceptedLast
    <2>3. Max(accepted) = Len(attempts)
      BY <2>2 DEF Max
    <2>4. by = tier
      BY <2>1, <2>2, <2>3 DEF RenderUsed
    <2>5. tier \in TiersOf(attempts)
      BY <2>1, Tiers DEF RenderUsed, AcceptedLast
    <2> HIDE DEF by, outcome
    <2>6. /\ outcome = "internally_resolved" <=> tier = "local_resolution"
          /\ outcome = "externally_resolved" <=> tier = "challenge_resolution"
      BY <1>3, <1>5, <2>4 DEF RenderedPage
    <2>7. tier # "challenge_resolution" => ~paid /\ rows["cloud"] = "none" /\ rows["slot"] # "none"
      <3>1. result # NoResult
        BY <1>5 DEF RenderedPage, NoResult
      <3> QED
        BY <2>1, <3>1 DEF UseInv, RenderUsed
    <2>8. tier = "challenge_resolution" => paid /\ rows["cloud"] # "none"
      BY <2>1 DEF RenderUsed
    <2> QED
      BY <1>2, <2>5, <2>6, <2>7, <2>8
  <1> QED
    BY <1>4, <1>5

\* The cleanup.
LEMMA CleanupReports ==
    ASSUME TypeOK, Inv, UseInv, ReportInv, Cleanup
    PROVE  UseInv' /\ ReportInv'
  <1>a. pc \in Cleaning /\ UNCHANGED <<page, attempts, result, tier, paid, held>>
    BY DEF Cleanup, DropLease, Record, DropCloud, DropSlot, DropSession, Cleaning
  <1>b. pc' \in {"record", "dropCloud", "dropSlot", "dropSession", "answered", "abandoned", "raised"}
    BY DEF Cleanup, DropLease, Record, DropCloud, DropSlot, DropSession, Goto,
           AfterLease, AfterRecord, AfterCloud
  <1>c. /\ pc' \notin Early /\ pc' \notin Rendering /\ pc' \notin Capturing
        /\ pc' # "browser" /\ pc' # "compare" /\ pc' # "cut" /\ pc' # "dropLease"
        /\ pc \notin Capturing /\ pc # "cut"
    BY <1>a, <1>b DEF Early, Admission, Rendering, Capturing, Cleaning
  <1>d. RowsGrow => UseInv'
    BY <1>a, <1>c, QuietUse
  <1>2. CASE DropCloud \/ DropSlot \/ DropSession
    <2>1. /\ UNCHANGED <<recorded, observed>> /\ pc' # "record"
          /\ \/ UNCHANGED rows \/ Ends("cloud") \/ Ends("slot") \/ rows' = SessionEnds
      BY <1>2 DEF DropCloud, DropSlot, DropSession, facts, Goto, AfterCloud
    <2>2. RowsGrow
      <3>1. UNCHANGED rows => RowsGrow
        BY DEF RowsGrow
      <3> QED
        BY <2>1, <3>1, EndsGrows, SessionEndsGrows DEF Resources
    <2> QED
      BY <1>a, <1>c, <2>1, <2>2, QuietReports
  <1>3. CASE Record
    <2>1. /\ pc = "record" /\ pc' # "record" /\ UNCHANGED <<rows, observed>>
          /\ recorded' = {CaptureFacts(attempts, result, paid)} \/ recorded' = recorded
      BY <1>3 DEF Record, Goto, AfterRecord, AfterCloud
    <2>2. UseInv'
      BY <1>d, <2>1 DEF RowsGrow
    <2>3. recorded' \subseteq {CaptureFacts(attempts', result', paid')}
      BY <1>a, <1>c, <2>1 DEF ReportInv
    <2>4. ThrottleReported'
      BY <1>a, <2>1 DEF ReportInv, ThrottleReported
    <2>5. ReportInv'
      BY <1>a, <1>c, <2>1, <2>3, <2>4 DEF ReportInv
    <2> QED
      BY <2>2, <2>5
  <1>4. CASE DropLease
    <2>1. /\ pc = "dropLease" /\ Ends("lease") /\ UNCHANGED recorded
          /\ observed' \in {observed, "interrupted", PacingObservation(attempts, result)}
      BY <1>4 DEF DropLease
    <2>2. UseInv'
      BY <1>d, <2>1, EndsGrows DEF Resources
    <2>3. attempts \in Seq(Evidences) /\ recorded = {} /\ observed = "none"
      BY <2>1 DEF TypeOK, ReportInv
    <2>4. PICK seen : seen = PacingObservation(attempts, result)
      OBVIOUS
    <2>7. /\ (\E i \in Named(attempts) : attempts[i].status = 429) => seen = "throttled"
          /\ seen = "throttled" =>
                \E i \in Named(attempts) : attempts[i].status # Elsewhere /\ Limiting(attempts[i])
          /\ seen \in {"healthy", "overload"} =>
                \A i \in Named(attempts) :
                    (\A j \in Named(attempts) : j <= i) => attempts[i].status # Elsewhere
      <3>1. result.failure = "rate_limited" => EndsLimited(attempts)
        BY DEF ReportInv
      <3> QED
        BY <2>3, <2>4, <3>1, ObservationIs
    <2>8. Named(attempts') = Named(attempts) /\ observed' \in {"none", "interrupted", seen}
      BY <1>a, <2>1, <2>3, <2>4
    <2>5. ThrottleReported'
      <3> DEFINE named == {i \in 1..Len(attempts') : attempts'[i].status # Unnamed}
      <3>1. named = Named(attempts)
        BY <1>a DEF Named
      <3> HIDE DEF named
      <3> QED
        BY <1>a, <2>7, <2>8, <3>1 DEF ThrottleReported, named
    <2>6. ReportInv'
      BY <1>a, <1>c, <2>1, <2>3, <2>5 DEF ReportInv
    <2> QED
      BY <2>2, <2>6
  <1> QED
    BY <1>2, <1>3, <1>4 DEF Cleanup

\* A cut cleanup leaves its facts as they are recorded.
LEMMA CutReports ==
    ASSUME TypeOK, UseInv, ReportInv, Cancelled, pc \in Cleaning
    PROVE  UseInv' /\ ReportInv'
  <1>1. /\ pc' = "cut" /\ UNCHANGED <<rows, held, recorded>>
        /\ paid' = FALSE /\ result' = NoResult
    BY DEF Cancelled, Forgotten, Goto, Unwound, Untouched, Cleaning, facts
  <1>2. \A f \in recorded : f = CaptureFacts(attempts, result, paid)
    BY DEF ReportInv, Cleaning
  <1>3. FactsMatchUse
    BY <1>2, FactsAgree DEF FactsMatchUse
  <1>4. FactsMatchUse'
    BY <1>1, <1>3 DEF FactsMatchUse, NoResult
  <1>5. UseInv'
    BY <1>1 DEF UseInv, RenderedPage, NoResult, Capturing, Early, Admission, Rendering
  <1>6. ReportInv'
    BY <1>1, <1>4 DEF ReportInv, ThrottleReported, NoResult, NoFailure, Capturing
  <1> QED
    BY <1>5, <1>6

\* The world around the capture decides and reports nothing for it.
LEMMA WorldReports ==
    ASSUME TypeOK, Inv, UseInv, ReportInv,
           \/ \E sibling, sufficient \in BOOLEAN : OthersRecord(sibling, sufficient)
           \/ \E key \in {"url", "pattern"} : EntryExpires(key)
           \/ LeaseExpires \/ Tick \/ UNCHANGED vars
    PROVE  UseInv' /\ ReportInv'
  <1>1. /\ UNCHANGED <<pc, page, attempts, result, tier, paid, recorded, observed, held>>
        /\ rows' = rows \/ rows' = SessionEnds
    BY DEF OthersRecord, EntryExpires, LeaseExpires, Tick, vars, flow, facts, store
  <1>3. \A r \in Resources : rows'[r] = "none" <=> rows[r] = "none"
    BY <1>1 DEF SessionEnds, TypeOK, Live
  <1>2. RowsGrow
    BY <1>1, SessionEndsGrows DEF RowsGrow
  <1> QED
    BY <1>1, <1>2, <1>3, QuietReports

\* The invariant of what a capture used and reports holds at the start.
LEMMA ReportsInitially == Init => UseInv /\ ReportInv
  <1> SUFFICES ASSUME Init PROVE UseInv /\ ReportInv
    OBVIOUS
  <1>1. UseInv
    BY DEF Init, UseInv, NoResult, RenderedPage, Rendering, Resources
  <1>2. ReportInv
    BY DEF Init, ReportInv, ThrottleReported, NoResult, NoFailure
  <1> QED
    BY <1>1, <1>2

\* And every step keeps it.
LEMMA ReportsInvariance ==
    TypeOK /\ Inv /\ UseInv /\ ReportInv /\ [Next]_vars => UseInv' /\ ReportInv'
  <1> SUFFICES ASSUME TypeOK, Inv, UseInv, ReportInv, [Next]_vars PROVE UseInv' /\ ReportInv'
    OBVIOUS
  <1>1. Cancelled => pc \in Capturing \/ pc \in Cleaning
    BY DEF Cancelled
  <1> QED
    BY <1>1, AdmissionReports, FetchReports, VerdictReports, GrantReports, RaiseStepsReport,
       RenderedReports, CompareReports, InterruptionReports, CleanupReports, CutReports, WorldReports, Zenon
       DEF Next

\* What a capture reports about itself, the facts of its record and the
\* observation its pacing lease is released with, is what happened: a 429 of the
\* requested host is throttling, nothing but such an answer or the words of a
\* rate limit is, and what another host answered last counts for neither.
THEOREM CaptureReportsTruth == Spec => []ReportsTruthful
  <1>1. TypeOK /\ UseInv /\ ReportInv => ReportsTruthful
    <2> SUFFICES ASSUME TypeOK, UseInv, ReportInv PROVE FactsMatchUse
      BY DEF ReportsTruthful, ReportInv
    <2>1. CASE pc = "cut"
      BY <2>1 DEF ReportInv
    <2>2. CASE pc # "cut"
      <3>1. \A f \in recorded : f = CaptureFacts(attempts, result, paid)
        BY <2>2 DEF ReportInv
      <3> QED
        BY <3>1, FactsAgree DEF FactsMatchUse
    <2> QED
      BY <2>1, <2>2
  <1>2. Spec => [](TypeOK /\ Inv /\ UseInv /\ ReportInv)
    BY Initially, Invariance, ReportsInitially, ReportsInvariance, PTL DEF Spec
  <1> QED
    BY <1>1, <1>2, PTL

=============================================================================

------------------------------- MODULE Gateway -------------------------------
(***************************************************************************)
(* One connection through Gateway.connect (proxy/gateway.py): the policy   *)
(* it reads from a replica's cache, its admission and preparation tasks,   *)
(* the client's disconnect, the loss of the lease and the admission budget *)
(* that race with them, and the cleanup that must give everything back.    *)
(* A step is what a task does between two awaits; a cancelled database     *)
(* call has committed or not.                                              *)
(*                                                                         *)
(* The rows are those of one session.  Other owners only appear as the     *)
(* expiry of its lease: how they compete for capacity is Admission.        *)
(***************************************************************************)
EXTENDS Naturals

CONSTANT MaxPolicy      \* bound on the versions of the network policy

ASSUME PolicyAssumption == MaxPolicy \in Nat

VARIABLES
    pc,          \* where Gateway.connect is
    exit,        \* why it is leaving, "none" before
    failed,      \* what is passed on to attempt.release and session.release
    client,      \* "there" | "left"
    budget,      \* the admission budget: "running" | "over"
    adm,         \* the admission task
    prep,        \* the preparation task
    holds,       \* what connect has: a subset of {"session","attempt","provider"}
    heartbeat,   \* the heartbeat task of the SessionLease runs
    lost,        \* _lost of the SessionLease
    sessionRow,  \* "none" | "admitted" | "open" | "ended" | "expired"
    attemptRow,  \* "none" | "queued" | "acquiring" | "active" | "ended" | "expired"
    socket,      \* the provider's: "none" | "open" | "closing" | "closed"
    stranded,    \* a row was left to the lease
    policyRow,   \* configuration_version in PostgreSQL
    cache,       \* the cached version, 0 when there is none
    fresh,       \* the cached version has not reached its TTL
    lock,        \* _cache_lock: "free" | "reader" | "writer" | "saved"
    read,        \* the version a reader has read under the lock
    acked        \* the last version an update of this replica returned

policyVars == <<policyRow, cache, fresh, lock, read, acked>>
rowVars == <<sessionRow, attemptRow, socket, stranded>>
leaseVars == <<heartbeat, lost>>
mainVars == <<pc, exit, failed, holds>>
taskVars == <<adm, prep>>
connectVars == <<mainVars, taskVars, leaseVars, rowVars, policyVars, client, budget>>

ConnectInit ==
    /\ pc = "policy" /\ exit = "none" /\ failed = FALSE
    /\ client = "there" /\ budget = "running"
    /\ adm = "none" /\ prep = "none" /\ holds = {}
    /\ heartbeat = FALSE /\ lost = FALSE
    /\ sessionRow = "none" /\ attemptRow = "none"
    /\ socket = "none" /\ stranded = FALSE
    /\ policyRow = 1 /\ cache = 0 /\ fresh = FALSE
    /\ lock = "free" /\ read = 0 /\ acked = 0

Live(row) == row \notin {"none", "ended", "expired"}
Ended(row) == IF Live(row) THEN "ended" ELSE row

\* Leave the body of connect: an exception is rejected and counts as a
\* failure, a return or the client's disconnect does not.
Leave(reason) ==
    /\ pc' = "close" /\ exit' = reason
    /\ failed' = (reason # "client_disconnected")

-----------------------------------------------------------------------------
(* The network policy: NetworkPolicyRepository.                            *)

\* settings(): the cached value; otherwise, under the lock and checked again,
\* the value of the row.
ReadCachedPolicy ==
    /\ pc \in {"policy", "policy_lock"} /\ cache # 0 /\ fresh
    /\ pc = "policy_lock" => lock = "free"
    /\ pc' = "receive"
    /\ UNCHANGED <<exit, failed, holds, taskVars, leaseVars, rowVars, policyVars,
                   client, budget>>

MissCachedPolicy ==
    /\ pc = "policy" /\ ~(cache # 0 /\ fresh)
    /\ pc' = "policy_lock"
    /\ UNCHANGED <<exit, failed, holds, taskVars, leaseVars, rowVars, policyVars,
                   client, budget>>

ReadPolicyRow ==
    /\ pc = "policy_lock" /\ lock = "free" /\ ~(cache # 0 /\ fresh)
    /\ lock' = "reader" /\ read' = policyRow
    /\ pc' = "policy_read"
    /\ UNCHANGED <<exit, failed, holds, taskVars, leaseVars, rowVars, policyRow,
                   cache, fresh, acked, client, budget>>

CachePolicy ==
    /\ pc = "policy_read"
    /\ cache' = read /\ fresh' = TRUE /\ lock' = "free"
    /\ pc' = "receive"
    /\ UNCHANGED <<exit, failed, holds, taskVars, leaseVars, rowVars, policyRow,
                   read, acked, client, budget>>

\* Fault: update does not take the cache lock.
FaultUpdatePolicy ==
    /\ policyRow < MaxPolicy /\ lock # "saved"
    /\ policyRow' = policyRow + 1
    /\ acked' = policyRow + 1 /\ cache' = policyRow + 1 /\ fresh' = TRUE
    /\ UNCHANGED <<lock, read, mainVars, taskVars, leaseVars, rowVars, client, budget>>

\* update(): the row, then the cache, under the lock.
UpdatePolicy ==
    /\ policyRow < MaxPolicy /\ lock = "free"
    /\ lock' = "saved" /\ policyRow' = policyRow + 1
    /\ UNCHANGED <<cache, fresh, read, acked, mainVars, taskVars, leaseVars,
                   rowVars, client, budget>>

UpdateReturns ==
    /\ lock = "saved"
    /\ cache' = policyRow /\ fresh' = TRUE /\ acked' = policyRow
    /\ lock' = "free"
    /\ UNCHANGED <<policyRow, read, mainVars, taskVars, leaseVars, rowVars,
                   client, budget>>

CacheExpires ==
    /\ fresh /\ pc \in {"policy", "policy_lock"}
    /\ fresh' = FALSE
    /\ UNCHANGED <<policyRow, cache, lock, read, acked, mainVars, taskVars,
                   leaseVars, rowVars, client, budget>>

-----------------------------------------------------------------------------
(* The admission task: SessionAdmission.admit.                             *)

ReceiveInitial ==
    /\ pc = "receive"
    /\ \/ /\ client = "left"
          /\ Leave("client_disconnected")
          /\ UNCHANGED adm
       \/ /\ client = "there"
          /\ pc' = "admitting" /\ adm' = "running"
          /\ UNCHANGED <<exit, failed>>
    /\ UNCHANGED <<holds, prep, leaseVars, rowVars, policyVars, client, budget>>

AdmissionCommits ==
    /\ adm = "running"
    /\ \/ adm' = "committed" /\ sessionRow' = "admitted"
       \/ adm' = "refused" /\ UNCHANGED sessionRow
    /\ UNCHANGED <<mainVars, prep, leaseVars, attemptRow, socket, stranded,
                   policyVars, client, budget>>

\* The lease object exists from here on, and its heartbeat runs.
AdmissionReturns ==
    /\ adm = "committed"
    /\ adm' = "done" /\ heartbeat' = TRUE
    /\ UNCHANGED <<mainVars, prep, lost, rowVars, policyVars, client, budget>>

\* A cancelled admission that had committed leaves its row to the lease.
CancelAdmission ==
    /\ adm' = IF adm \in {"running", "committed"} THEN "cancelled" ELSE adm
    /\ stranded' = (stranded \/ adm = "committed")

\* Fault: a result that arrived with the cancellation is not picked up.
FaultLateSession == {}

\* The finally of the admission: a lease that is there after all is kept.
LateSession == IF adm = "done" THEN {"session"} ELSE {}

AdmissionSeen ==
    /\ pc = "admitting" /\ client = "there"
    /\ \/ /\ adm = "done"
          /\ holds' = {"session"}
          /\ pc' = "preparing" /\ prep' = "acquiring"
          /\ UNCHANGED <<exit, failed>>
       \/ /\ adm = "refused"
          /\ Leave("gateway_capacity_full")
          /\ UNCHANGED <<holds, prep>>
    /\ UNCHANGED <<adm, leaseVars, rowVars, policyVars, client, budget>>

DisconnectWhileAdmitting ==
    /\ pc = "admitting" /\ client = "left"
    /\ CancelAdmission
    /\ holds' = LateSession
    /\ Leave("client_disconnected")
    /\ UNCHANGED <<prep, leaseVars, sessionRow, attemptRow, socket, policyVars,
                   client, budget>>

-----------------------------------------------------------------------------
(* The preparation task: Gateway._prepare and AttemptAdmission.acquire.    *)

PrepareStep(next) ==
    /\ prep' = next
    /\ UNCHANGED <<mainVars, adm, leaseVars, policyVars, client, budget,
                   sessionRow, stranded>>

\* enqueue: at once a slot, a place in the queue, or a refusal.
PrepareEnqueues ==
    /\ prep = "acquiring" /\ attemptRow = "none"
    /\ \/ /\ Live(sessionRow)
          /\ attemptRow' \in {"queued", "acquiring"}
          /\ PrepareStep("acquiring")
       \/ PrepareStep("failed") /\ UNCHANGED attemptRow
    /\ UNCHANGED socket

\* claim, polled until the queue timeout.
PrepareClaims ==
    /\ prep = "acquiring" /\ attemptRow = "queued"
    /\ \/ attemptRow' = "acquiring" /\ PrepareStep("acquiring")
       \/ UNCHANGED attemptRow /\ PrepareStep("failing")
    /\ UNCHANGED socket

PrepareAcquired ==
    /\ prep = "acquiring"
    /\ \/ attemptRow = "acquiring" /\ PrepareStep("connecting")
       \/ attemptRow = "expired" /\ PrepareStep("failed")
    /\ UNCHANGED <<attemptRow, socket>>

PrepareConnects ==
    /\ prep = "connecting"
    /\ \/ socket' = "open" /\ PrepareStep("binding")
       \/ UNCHANGED socket /\ PrepareStep("releasing")
    /\ UNCHANGED attemptRow

PrepareBinds ==
    /\ prep = "binding"
    /\ PrepareStep("done") \/ PrepareStep("closing")
    /\ UNCHANGED <<attemptRow, socket>>

\* _cleanup_preparation: each step within its budget, whatever it did.
PrepareCloses ==
    /\ prep = "closing"
    /\ socket' \in {"closing", "closed"}
    /\ PrepareStep("releasing")
    /\ UNCHANGED attemptRow

\* attempt.release, or AttemptAdmission._fail
PrepareReleases ==
    /\ prep \in {"releasing", "failing"}
    /\ attemptRow' \in {attemptRow, Ended(attemptRow)}
    /\ PrepareStep("failed")
    /\ UNCHANGED socket

\* task.cancel(): the first one starts the cleanup of what there is, one
\* that arrives during the cleanup aborts it.
Cancelled ==
    CASE prep = "acquiring"  -> "failing"
      [] prep = "connecting" -> "releasing"
      [] prep = "binding"    -> "closing"
      [] prep \in {"failing", "closing", "releasing"} -> "failed"
      [] OTHER -> prep

CancelPreparation ==
    /\ prep' = Cancelled
    /\ socket' = IF prep = "closing" THEN "closing" ELSE socket

-----------------------------------------------------------------------------
(* connect waits for the preparation, the client and the lease.            *)

\* The result of a preparation that is done.
Prepared == IF prep = "done" THEN {"attempt", "provider"} ELSE {}

\* Cancel what is still running and wait for it, to leave with this reason.
Abandon(reason) ==
    /\ CancelPreparation
    /\ \/ /\ prep \in {"done", "failed"}
          /\ holds' = holds \cup Prepared
          /\ Leave(reason)
       \/ /\ prep \notin {"done", "failed"}
          /\ pc' = "abandoning" /\ exit' = reason
          /\ UNCHANGED <<failed, holds>>

PreparationSeen ==
    /\ pc = "preparing" /\ client = "there" /\ ~lost
    /\ \/ /\ prep = "done"
          /\ holds' = holds \cup Prepared
          /\ pc' = "opening"
          /\ UNCHANGED <<exit, failed>>
       \/ /\ prep = "failed"
          /\ Leave("provider_unavailable")
          /\ UNCHANGED holds
    /\ UNCHANGED <<taskVars, leaseVars, rowVars, policyVars, client, budget>>

PreparationOvertaken ==
    /\ pc = "preparing"
    /\ \/ client = "left" /\ Abandon("client_disconnected")
       \/ client = "there" /\ lost /\ Abandon("session_lease_lost")
    /\ UNCHANGED <<adm, leaseVars, sessionRow, attemptRow, stranded, policyVars,
                   client, budget>>

\* The cancelled preparation has ended; a result it still had is kept.
Abandoned ==
    /\ pc = "abandoning" /\ prep \in {"done", "failed"}
    /\ holds' = holds \cup Prepared
    /\ Leave(exit)
    /\ UNCHANGED <<taskVars, leaseVars, rowVars, policyVars, client, budget>>

-----------------------------------------------------------------------------
(* Opening, relaying, and the admission budget.                            *)

OpenSession ==
    /\ pc = "opening"
    /\ \/ /\ sessionRow = "admitted"
          /\ sessionRow' = "open" /\ pc' = "activating"
          /\ UNCHANGED <<exit, failed>>
       \/ Leave("session_lease_lost") /\ UNCHANGED sessionRow
    /\ UNCHANGED <<holds, taskVars, leaseVars, attemptRow, socket, stranded,
                   policyVars, client, budget>>

ActivateAttempt ==
    /\ pc = "activating"
    /\ \/ /\ attemptRow = "acquiring"
          /\ attemptRow' = "active" /\ pc' = "accepting"
          /\ UNCHANGED <<exit, failed>>
       \/ Leave("provider_unavailable") /\ UNCHANGED attemptRow
    /\ UNCHANGED <<holds, taskVars, leaseVars, sessionRow, socket, stranded,
                   policyVars, client, budget>>

\* A disconnect that was consumed after the last wait surfaces as an error
\* of the socket, and not always as a disconnect.
Accept ==
    /\ pc = "accepting"
    /\ \/ /\ client = "there"
          /\ pc' = "relaying" /\ budget' = "over"
          /\ UNCHANGED <<exit, failed>>
       \/ /\ client = "left"
          /\ Leave("client_disconnected") \/ Leave("provider_connection_lost")
          /\ UNCHANGED budget
    /\ UNCHANGED <<holds, taskVars, leaseVars, rowVars, policyVars, client>>

\* relay_cdp returns or raises (CdpRelay), or the lease is lost.
RelayEnds ==
    /\ pc = "relaying"
    /\ \/ client = "left" /\ Leave("client_disconnected")
       \/ Leave("provider_connection_lost")
       \/ lost /\ Leave("session_lease_lost")
    /\ UNCHANGED <<holds, taskVars, leaseVars, rowVars, policyVars, client, budget>>

\* asyncio.timeout cancels connect once, wherever it waits.
BudgetExpires ==
    /\ budget = "running" /\ budget' = "over"
    /\ \/ /\ pc \in {"policy", "policy_lock", "policy_read", "receive"}
          /\ Leave("session_admission_timeout")
          /\ lock' = IF pc = "policy_read" THEN "free" ELSE lock
          /\ UNCHANGED <<holds, taskVars, rowVars>>
       \/ /\ pc = "admitting"
          /\ CancelAdmission
          /\ holds' = LateSession
          /\ Leave("session_admission_timeout")
          /\ UNCHANGED <<prep, sessionRow, attemptRow, socket, lock>>
       \/ /\ pc \in {"preparing", "abandoning"}
          /\ Abandon("session_admission_timeout")
          /\ UNCHANGED <<adm, sessionRow, attemptRow, stranded, lock>>
       \/ /\ pc \in {"opening", "activating", "accepting"}
          /\ Leave("session_admission_timeout")
          /\ sessionRow' \in IF pc = "opening" /\ sessionRow = "admitted"
                             THEN {"admitted", "open"} ELSE {sessionRow}
          /\ UNCHANGED <<holds, taskVars, attemptRow, socket, stranded, lock>>
    /\ UNCHANGED <<leaseVars, policyRow, cache, fresh, read, acked, client>>

-----------------------------------------------------------------------------
(* The finally of connect: each step within its own budget, in this order. *)

CleanupStep(next) ==
    /\ pc' = next
    /\ UNCHANGED <<exit, failed, holds, taskVars, lost, policyVars, client, budget>>

\* Fault: the attempt is released before its browser is closed.
FaultCloseProvider ==
    /\ pc = "close"
    /\ attemptRow' = IF "attempt" \in holds THEN Ended(attemptRow) ELSE attemptRow
    /\ CleanupStep("release_attempt")
    /\ UNCHANGED <<heartbeat, sessionRow, socket, stranded>>

CloseProvider ==
    /\ pc = "close"
    /\ socket' \in IF "provider" \in holds /\ socket = "open"
                   THEN {"closing", "closed"} ELSE {socket}
    /\ CleanupStep("release_attempt")
    /\ UNCHANGED <<heartbeat, sessionRow, attemptRow, stranded>>

\* record_provider_usage, then attempt.release
ReleaseAttempt ==
    /\ pc = "release_attempt"
    /\ attemptRow' \in IF "attempt" \in holds
                       THEN {attemptRow, Ended(attemptRow)} ELSE {attemptRow}
    /\ CleanupStep("release_session")
    /\ UNCHANGED <<heartbeat, sessionRow, socket, stranded>>

\* session.release stops the heartbeat, then ends the session's row and the
\* live attempts it still has.
ReleaseSession ==
    /\ pc = "release_session"
    /\ \/ "session" \notin holds /\ UNCHANGED <<heartbeat, rowVars>>
       \/ /\ "session" \in holds
          /\ heartbeat' = FALSE
          /\ sessionRow' = Ended(sessionRow) /\ attemptRow' = Ended(attemptRow)
          /\ UNCHANGED <<socket, stranded>>
       \/ /\ "session" \in holds
          /\ heartbeat' = FALSE /\ stranded' = TRUE
          /\ UNCHANGED <<sessionRow, attemptRow, socket>>
    /\ CleanupStep("finished")

-----------------------------------------------------------------------------
(* The client, the heartbeat, other owners and the provider's socket.      *)

ClientLeaves ==
    /\ client = "there"
    /\ client' = "left"
    /\ UNCHANGED <<mainVars, taskVars, leaseVars, rowVars, policyVars, budget>>

\* A renewal finds the row gone, or fails.
HeartbeatFails ==
    /\ heartbeat
    /\ heartbeat' = FALSE /\ lost' = TRUE
    /\ UNCHANGED <<mainVars, taskVars, rowVars, policyVars, client, budget>>

\* Fault: only sessions that were opened are found expired.
FaultLeaseExpires ==
    /\ sessionRow = "open"
    /\ sessionRow' = "expired"
    /\ attemptRow' = IF Live(attemptRow) THEN "expired" ELSE attemptRow
    /\ UNCHANGED <<mainVars, taskVars, leaseVars, socket, stranded, policyVars,
                   client, budget>>

\* Another owner finds the lease expired: nobody renewed it, or too late.
LeaseExpires ==
    /\ Live(sessionRow)
    /\ sessionRow' = "expired"
    /\ attemptRow' = IF Live(attemptRow) THEN "expired" ELSE attemptRow
    /\ UNCHANGED <<mainVars, taskVars, leaseVars, socket, stranded, policyVars,
                   client, budget>>

\* A closing handshake ends within the library's own timeout.
SocketCloses ==
    /\ socket = "closing"
    /\ socket' = "closed"
    /\ UNCHANGED <<mainVars, taskVars, leaseVars, sessionRow, attemptRow,
                   stranded, policyVars, client, budget>>

-----------------------------------------------------------------------------
Policy ==
    \/ ReadCachedPolicy \/ MissCachedPolicy \/ ReadPolicyRow \/ CachePolicy

Preparation ==
    \/ PrepareEnqueues \/ PrepareClaims \/ PrepareAcquired
    \/ PrepareConnects \/ PrepareBinds \/ PrepareCloses \/ PrepareReleases

Connect ==
    \/ ReceiveInitial \/ AdmissionSeen \/ DisconnectWhileAdmitting
    \/ PreparationSeen \/ PreparationOvertaken \/ Abandoned
    \/ OpenSession \/ ActivateAttempt \/ Accept
    \/ CloseProvider \/ ReleaseAttempt \/ ReleaseSession

Done ==
    /\ pc = "finished"
    /\ UNCHANGED connectVars

ConnectNext ==
    \/ Policy \/ UpdatePolicy \/ UpdateReturns \/ CacheExpires
    \/ AdmissionCommits \/ AdmissionReturns
    \/ Preparation \/ Connect
    \/ RelayEnds \/ BudgetExpires
    \/ ClientLeaves \/ HeartbeatFails \/ LeaseExpires \/ SocketCloses
    \/ Done

\* Tasks that can run do run; every wait for the database or the provider
\* has a timeout; a session nobody renews is found expired.
ConnectFairness ==
    /\ WF_connectVars(Policy) /\ WF_connectVars(UpdateReturns)
    /\ WF_connectVars(AdmissionCommits) /\ WF_connectVars(AdmissionReturns)
    /\ WF_connectVars(Preparation) /\ WF_connectVars(Connect)
    /\ WF_connectVars(pc = "relaying" /\ (client = "left" \/ lost) /\ RelayEnds)
    /\ WF_connectVars(~heartbeat /\ adm # "committed" /\ LeaseExpires)
    /\ WF_connectVars(SocketCloses)

ConnectSpec == ConnectInit /\ [][ConnectNext]_connectVars /\ ConnectFairness

-----------------------------------------------------------------------------
(* Properties.                                                             *)

\* When connect has returned no task renews the session's lease any more: a
\* lease that arrived together with a disconnect or the end of the budget
\* would otherwise hold its place for as long as the process lives
\* (gateway.py:88-95, 134-143).
NoImmortalSession == pc = "finished" => ~heartbeat

\* When connect has returned, nothing of the connection is left: the rows are
\* terminal and the provider's socket is closed or closing, except for rows
\* explicitly left to the lease by a release that failed or an admission that
\* was cancelled after its commit.
CleanEnding ==
    pc = "finished" =>
        /\ socket # "open"
        /\ ~stranded => ~Live(sessionRow) /\ ~Live(attemptRow)

\* A connection that has ended leaves nothing behind: no heartbeat, no row and no socket but
\* the ones left to the lease.
NothingLeftBehind == NoImmortalSession /\ CleanEnding

\* The owner never gives a slot back while its browser connection is open
\* (the order of the cleanup, also after a cancelled preparation).
FreedAfterClose ==
    [][(Live(attemptRow) /\ attemptRow' = "ended") => socket # "open"]_connectVars

\* A client that has left, or a lost lease, ends the connection, and in the
\* end its capacity is free again, whatever failed on the way.
CapacityReturns ==
    (client = "left" \/ lost) ~>
        (pc = "finished" /\ ~Live(sessionRow) /\ ~Live(attemptRow)
         /\ socket \notin {"open", "closing"})

\* The cache of a replica is never behind an update that the same replica
\* has acknowledged.
PolicyNotBehind == (lock = "free" /\ cache # 0) => cache >= acked
=============================================================================

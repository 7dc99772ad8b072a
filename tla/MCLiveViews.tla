---------------------------- MODULE MCLiveViews ----------------------------
(* One viewer of either kind over a short stream. *)
EXTENDS LiveViews

Lifecycle == {1, LastEvent}

Event(family, type, payload, attempt) ==
    [family |-> family, type |-> type, payload |-> payload, attempt |-> attempt]

OneSession ==
    <<Event("attempt", "attempt.connected", None, "a1"),
      Event("console", "console.message", None, "a1"),
      Event("capture", "capture.completed", "captured", "a1"),
      Event("session", "session.closed", None, None)>>

SomeFilters ==
    {[NoFilter EXCEPT !.outcomes = {"success"}],
     [NoFilter EXCEPT !.outcomes = {"failure"}, !.families = {"capture", "session"}],
     [NoFilter EXCEPT !.attempt = "a1", !.types = {"console.message", "capture.completed"}]}
=============================================================================

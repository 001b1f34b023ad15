----------------------------- MODULE MCCompletion -----------------------------
(***************************************************************************)
(* Small instances of CompletionService.                                   *)
(***************************************************************************)
EXTENDS CompletionService, SchedulerScan

Upstream == INSTANCE UpstreamErrors

(* The failures of a call are those of gateway/errors.py: by the status of *)
(* the answer or by an error event in its body.                            *)
Unavailable  == Upstream!FromUpstreamStatus(503, 0)
BadRequest   == Upstream!FromUpstreamStatus(400, 0)
RateLimited  == Upstream!FromErrorEvent({}, "rate limit")
RetryAfter   == Upstream!FromUpstreamStatus(429, Upstream!RetryAfter(Upstream!Seconds(0)))
Unauthorized == Upstream!FromErrorEvent({401}, "none")

AllFaults  == {Unavailable, BadRequest, RateLimited, Unauthorized, NoFault}
SlowFaults == {RateLimited, RetryAfter, Unauthorized}
OneFault   == {Unavailable}

(* Rows an earlier run of the process may have left: never used, written   *)
(* with another key, twice rejected with its cooldown over, and invalid.   *)
Fresh      == FreshRow(0)
Unreadable == [Fresh EXCEPT !.readable = FALSE]
Rejected   == [Fresh EXCEPT !.status = "degraded", !.failures = 2, !.cooldown = 1]
Invalid    == [Rejected EXCEPT !.status = "invalid", !.failures = 3]
Expiring   == FreshRow(2)

FreshRows    == {Fresh}
ColdRows     == {Fresh, Unreadable}
UsedRows     == {Rejected, Invalid, Expiring, Unreadable}
=============================================================================

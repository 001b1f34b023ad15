---------------------------- MODULE UpstreamErrors ----------------------------
(***************************************************************************)
(* gateway/errors.py: what became of a call upstream, as the error that    *)
(* the completion service acts on.  An error is its category, whether      *)
(* another credential may help, and the seconds of its Retry-After (0 for  *)
(* None); messages, codes and the status shown to the client are left out. *)
(***************************************************************************)
EXTENDS Naturals

GatewayError(category, retryable, retryAfter) ==
    [category |-> category, retryable |-> retryable, retryAfter |-> retryAfter]

Unavailable          == GatewayError("upstream", TRUE, 0)
Refused              == GatewayError("upstream", FALSE, 0)
TimedOut             == GatewayError("timeout", TRUE, 0)
Unreachable          == GatewayError("network", TRUE, 0)
InvalidCredential    == GatewayError("authentication", TRUE, 0)
Forbidden            == GatewayError("permission", TRUE, 0)
ParseError           == GatewayError("parse", TRUE, 0)
Internal             == GatewayError("internal", FALSE, 0)
RateLimited(seconds) == GatewayError("rate_limit", TRUE, seconds)

-----------------------------------------------------------------------------
(* A wrong variant: the request is blamed for every 4xx but a 429.         *)
BlamesTheRequest(code, retryAfter) ==
    CASE code = 429 -> RateLimited(retryAfter)
      [] code \in 400 .. 499 \ {429} -> Refused
      [] OTHER -> Unavailable

FromUpstreamStatus(code, retryAfter) ==
    CASE code \in {401, 498} -> InvalidCredential
      [] code = 403          -> Forbidden
      [] code \in {408, 504} -> TimedOut
      [] code = 429          -> RateLimited(retryAfter)
      [] code \in {400, 404} -> Refused
      [] OTHER               -> Unavailable

(* The exceptions that reach from_exception, by class.  Each branch of the *)
(* code tests a class with those below it, so TimeoutError, an OSError     *)
(* since Python 3.3, never comes to the branch that names it.              *)
HttpxTimeouts == {"ConnectTimeout", "ReadTimeout", "WriteTimeout", "PoolTimeout"}
HttpxErrors   == HttpxTimeouts \union {"RemoteProtocolError", "ConnectError", "ReadError"}
OSErrors      == {"OSError", "TimeoutError"}

FromException(exc) ==
    CASE exc \in HttpxTimeouts           -> TimedOut
      [] exc = "RemoteProtocolError"     -> ParseError
      [] exc \in {"ConnectError", "ReadError"} \union OSErrors -> Unreachable
      [] OTHER                           -> Internal

(* _error_event_to_gateway_error: an error told in the body of an answer,   *)
(* by the status it names, as a set of at most one, and by what its code   *)
(* or message hints at.                                                    *)
FromErrorEvent(status, hint) ==
    CASE status # {}           -> FromUpstreamStatus(CHOOSE code \in status : TRUE, 0)
      [] hint = "rate limit"   -> RateLimited(0)
      [] hint = "unauthorized" -> InvalidCredential
      [] hint = "forbidden"    -> Forbidden
      [] OTHER                 -> Unavailable

(* A Retry-After header: absent or no number, such as a date; a number of  *)
(* whole seconds; or what float() reads as infinite, such as "inf" or 1e999. *)
Header(kind, seconds) == [kind |-> kind, seconds |-> seconds]
NoHeader         == Header("none", 0)
Seconds(seconds) == Header("number", seconds)
Endless          == Header("endless", 0)
HeaderSet        == [kind : {"none", "number", "endless"}, seconds : Nat]

(* _retry_after of a header that is not endless.  What is below one second *)
(* counts as one, so that 0 is left to mean None.                          *)
RetryAfter(header) ==
    CASE header.kind # "number" -> 0
      [] header.seconds = 0     -> 1
      [] OTHER                  -> header.seconds

(* The error that a refusing answer becomes: int() of an infinite number   *)
(* raises what no handler on the way names.                                *)
Refusal(code, header) ==
    IF header.kind = "endless" THEN FromException("OverflowError")
    ELSE FromUpstreamStatus(code, RetryAfter(header))
=============================================================================

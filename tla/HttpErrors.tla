----------------------------- MODULE HttpErrors -----------------------------
(***************************************************************************)
(* How an exception becomes an answer: the tables and functions of the     *)
(* exception filter, the Prisma mapping, the problem documents and the     *)
(* onSend hook.  An exception is a record with a class: a problem document *)
(* somebody already built, a DomainException, an HttpException, an error   *)
(* of the Prisma client, or anything else.  Wording and locale are left    *)
(* out; "" stands for a code a response does not carry.                    *)
(***************************************************************************)
EXTENDS Naturals

STATUS_BY_KIND == [malformed |-> 400, validation |-> 422, not_found |-> 404,
                   conflict |-> 409, forbidden |-> 403]

BY_PRISMA_CODE == [P2002 |-> <<409, "conflict">>, P2003 |-> <<409, "conflict">>,
                   P2025 |-> <<404, "not_found">>, P2023 |-> <<400, "malformed_request">>,
                   P2024 |-> <<503, "service_unavailable">>, P2028 |-> <<503, "service_unavailable">>]

CODE_BY_STATUS(status) ==
  CASE status = 401 -> "unauthenticated"        [] status = 403 -> "forbidden"
    [] status = 404 -> "not_found"              [] status = 409 -> "conflict"
    [] status = 429 -> "rate_limited"           [] status = 413 -> "payload_too_large"
    [] status = 415 -> "unsupported_media_type" [] status = 408 -> "request_timeout"
    [] status = 422 -> "validation_failed"      [] OTHER -> "malformed_request"

\* The onSend hook's own table knows fewer statuses.
codeForClientStatus(status) ==
  IF status \in {401, 403, 404, 413, 415, 429} THEN CODE_BY_STATUS(status) ELSE "malformed_request"

Domain(kind, code) == [class |-> "domain", kind |-> kind, code |-> code]
Http(status)       == [class |-> "http", status |-> status, code |-> ""]
Prisma(code)       == [class |-> "prisma", code |-> code]
Unknown            == [class |-> "unknown"]

\* A problem document: what the properties tell apart of it.
buildProblemDetails(status, code, id) == [status |-> status, code |-> code, id |-> id]

Prebuilt(problem) == [class |-> "problem", problem |-> problem]

genericServerError(status, id) ==
  buildProblemDetails(status, IF status = 503 THEN "service_unavailable" ELSE "internal_error", id)

readCode(e) == IF e.code # "" THEN e.code ELSE CODE_BY_STATUS(e.status)

fromHttpException(e, id) ==
  IF e.status >= 500 THEN genericServerError(e.status, id)
  ELSE buildProblemDetails(e.status, readCode(e), id)

mapPrismaError(code) ==
  IF code \in DOMAIN BY_PRISMA_CODE THEN BY_PRISMA_CODE[code] ELSE <<500, "internal_error">>

\* DomainExceptionFilter.toProblem.
toProblem(e, id) ==
  CASE e.class = "problem" -> e.problem
    [] e.class = "domain"  -> buildProblemDetails(STATUS_BY_KIND[e.kind], e.code, id)
    [] e.class = "http"    -> fromHttpException(e, id)
    [] e.class = "prisma"  -> buildProblemDetails(mapPrismaError(e.code)[1], mapPrismaError(e.code)[2], id)
    [] OTHER               -> genericServerError(500, id)

\* What a handler may throw.
Throwable(e) ==
  \/ e.class = "domain" /\ e.kind \in DOMAIN STATUS_BY_KIND /\ e.code # "service_unavailable"
  \/ \E status \in {400, 401, 403, 404, 409, 500, 503} : e = Http(status)
  \/ e.class = "prisma"
  \/ e = Unknown

\* The statuses retryAfterSecondsFor has a value for.
RETRY_AFTER_SECONDS == {429, 503}

=============================================================================

------------------------------ MODULE Vendors ------------------------------
(***************************************************************************)
(* What a request to a vendor may come to, the class of error that the     *)
(* adapter of each vendor makes of it (src/gateway/providers), and the     *)
(* HTTP status that a caller gets for a class (src/gateway/errors.py,      *)
(* src/gateway/router.py and src/gateway/app.py).                          *)
(***************************************************************************)

Provider == {"openai", "anthropic", "google"}

\* By status code, or by what came instead of one.  "garbled" is a success whose
\* body the SDK cannot decode, "empty" one that holds no answer, as when Google
\* blocks a prompt.  "no_status" is an error of the API with a status below 400, or
\* in Google's SDK with none.
VendorFault == {"429", "5xx", "no_connection", "too_late", "garbled", "empty"}
Rejection == {"400", "401", "403", "other_4xx", "filtered"}
Unclear == {"no_status"}
Response == VendorFault \cup Rejection \cup Unclear \cup {"answer"}

Retryable == {"RateLimited", "Transient5xx", "Timeout"}
NonRetryable == {"BadRequest", "AuthError", "ContentFiltered"}
ErrorClass == Retryable \cup NonRetryable

NoError == "no_error"
Uncaught == "uncaught"     \* an exception that is no ProviderError

\* Mutant of OpenAIError: without the clauses for 5xx, the last one takes them.
OpenAIErrorBroad(response) ==
    CASE response = "too_late" -> "Timeout"
      [] response = "429" -> "RateLimited"
      [] response = "401" -> "AuthError"
      [] response \in {"400", "403", "other_4xx", "no_status", "5xx"} -> "BadRequest"
      [] response = "no_connection" -> "Transient5xx"
      [] response = "filtered" -> "ContentFiltered"
      [] response \in {"garbled", "empty"} -> Uncaught
      [] OTHER -> NoError

\* The except clauses of chat, and the first choice, which there may not be.
OpenAIError(response) ==
    CASE response = "too_late" -> "Timeout"
      [] response = "429" -> "RateLimited"
      [] response = "401" -> "AuthError"
      [] response \in {"400", "403", "other_4xx", "no_status"} -> "BadRequest"
      [] response \in {"5xx", "no_connection"} -> "Transient5xx"
      [] response = "filtered" -> "ContentFiltered"
      [] response \in {"garbled", "empty"} -> Uncaught
      [] OTHER -> NoError

\* The same clauses; a refusal is what is filtered, and no content is a text.
AnthropicError(response) == IF response = "empty" THEN NoError ELSE OpenAIError(response)

\* 403 is an error of authentication, every other exception transient, and no
\* candidate a text.
GoogleError(response) ==
    CASE response = "too_late" -> "Timeout"
      [] response = "429" -> "RateLimited"
      [] response \in {"401", "403"} -> "AuthError"
      [] response \in {"400", "other_4xx", "no_status"} -> "BadRequest"
      [] response \in {"5xx", "no_connection", "garbled"} -> "Transient5xx"
      [] response = "filtered" -> "ContentFiltered"
      [] OTHER -> NoError

Adapter(provider, response) ==
    CASE provider = "openai" -> OpenAIError(response)
      [] provider = "anthropic" -> AnthropicError(response)
      [] provider = "google" -> GoogleError(response)

\* What the caller of a request that a fatal error ended is told.
RejectionStatus(class) == IF class = "AuthError" THEN 401 ELSE 400

\* What the caller is told when the router gives up: no candidate is left, or
\* no time.
GaveUpStatus == {503, 504}
=============================================================================

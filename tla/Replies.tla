------------------------------ MODULE Replies -------------------------------
(***************************************************************************)
(* What a backend makes of the answer to POST /chat/completions, for the   *)
(* five backends that forward a request over HTTP: _post_json,             *)
(* _map_http_error and _extract_text of each, and what the handler of      *)
(* app/main.py makes of the result.  Bodies and messages are reduced to    *)
(* the cases the code tells apart.                                         *)
(***************************************************************************)
EXTENDS Naturals

\* Ways in which the exchange itself fails.  "dropped": the connection is reset
\* or closed after the request was sent, while the answer is awaited or read.
Breaks == {"refused", "timeout", "dropped"}

\* One status for each class the code distinguishes.
Statuses == {304, 401, 404, 429, 500}

\* An answer with status 200.  shape: is it JSON, and does it have a choice with
\* a message?  content and reasoning: a text, white space only, or not a string.
Bodies ==
    [shape : {"message", "no_message", "no_json"}, content : {"text", "blank", "none"},
     reasoning : {"text", "none"}, finish : {"stop", "length"}]

\* Of the bodies without a message one of each shape is enough.
Replies ==
    [how : {"broken"}, why : Breaks] \cup [how : {"status"}, status : Statuses]
    \cup {[how |-> "body", body |-> b] : b \in {b \in Bodies :
              b.shape # "message" => b.content = "none" /\ b.reasoning = "none" /\ b.finish = "stop"}}

\* What the client gets.
Text(t) == [status |-> 200, code |-> "none", text |-> t]
Failure(s, c) == [status |-> s, code |-> c, text |-> "none"]

\* An exception that is none of those the handler knows: HTTP 500 from the server.
Unmapped == Failure(500, "unmapped")

-----------------------------------------------------------------------------
(* _map_http_error *)

VllmServeStatus(s) ==
    CASE s \in {401, 403}         -> Failure(502, "authentication_failure")
      [] s \in 400..499 \ {401, 403} -> Failure(502, "invalid_request")
      [] s >= 500                 -> Failure(502, "error")
      [] OTHER                    -> Failure(502, "http_error")

LlamaServerStatus(s) == VllmServeStatus(s)

SglangServeStatus(s) == VllmServeStatus(s)

\* No API key, hence no authentication failure.
TrtllmServeStatus(s) ==
    IF s \in 400..499 THEN Failure(502, "invalid_request") ELSE VllmServeStatus(s)

\* Variant: hands the status of the remote service to the client.
RemoteStatus_PassedOn(s) ==
    IF s \in 400..499 THEN Failure(s, "invalid_request") ELSE VllmServeStatus(s)

RemoteStatus(s) == IF s = 429 THEN Failure(429, "rate_limit") ELSE VllmServeStatus(s)

-----------------------------------------------------------------------------
(* _extract_text *)

ParseFailure == Failure(502, "response_parse_failure")

Stripped(content) == IF content = "blank" THEN "" ELSE content

ContentOnly(b) == IF b.content = "none" THEN ParseFailure ELSE Text(Stripped(b.content))

LlamaServerText(b) == ContentOnly(b)

RemoteText(b) == ContentOnly(b)

\* Asked to think, a model may use up its tokens before the answer begins.
VllmServeText(b, thinking) ==
    IF thinking /\ b.content = "none" /\ b.reasoning = "text" /\ b.finish = "length"
    THEN Text("") ELSE ContentOnly(b)

SglangServeText(b) ==
    IF b.content = "blank" /\ b.reasoning = "text"
    THEN Failure(502, "incomplete_response") ELSE ContentOnly(b)

TrtllmServeText(b) == SglangServeText(b)

-----------------------------------------------------------------------------
(* _post_json followed by the extraction *)

Posted(reply, OfStatus(_), OfBody(_)) ==
    CASE reply.how = "status" -> OfStatus(reply.status)
      [] reply.how = "broken" ->
            (CASE reply.why = "timeout" -> Failure(504, "timeout")
               [] reply.why = "refused" -> Failure(502, "connection_error")
               [] reply.why = "dropped" -> Unmapped)
      [] reply.how = "body" ->
            IF reply.body.shape = "message" THEN OfBody(reply.body) ELSE ParseFailure

VllmServeOutcome(reply, thinking) ==
    LET OfBody(b) == VllmServeText(b, thinking)
    IN  Posted(reply, VllmServeStatus, OfBody)

LlamaServerOutcome(reply) == Posted(reply, LlamaServerStatus, LlamaServerText)

SglangServeOutcome(reply) == Posted(reply, SglangServeStatus, SglangServeText)

TrtllmServeOutcome(reply) == Posted(reply, TrtllmServeStatus, TrtllmServeText)

RemoteOutcome(reply) == Posted(reply, RemoteStatus, RemoteText)

Outcome(backend, reply, thinking) ==
    CASE backend = "vllm_serve"    -> VllmServeOutcome(reply, thinking)
      [] backend = "llama_server"  -> LlamaServerOutcome(reply)
      [] backend = "sglang_serve"  -> SglangServeOutcome(reply)
      [] backend = "trtllm_serve"  -> TrtllmServeOutcome(reply)
      [] backend = "openai_remote" -> RemoteOutcome(reply)

\* A request of the file steps of openai_remote (_request_bytes): its answer is
\* used as it is.
RequestFailure(reply) ==
    Posted(reply, RemoteStatus, LAMBDA b : ParseFailure)
=============================================================================

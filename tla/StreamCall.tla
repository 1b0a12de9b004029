---------------------------- MODULE StreamCall ----------------------------
(***************************************************************************)
(* One streamed response, from the request's handler to the last byte: the *)
(* handler and the generator that answers the client (main.py), the routed *)
(* and the scheduled stream, the token that cancels it, and the worker     *)
(* that reads the stream of a vLLM server. A step is what one thread does  *)
(* under one lock, or one call that may block.                             *)
(*                                                                         *)
(* The queue and the slot are Executor's business: here a job waits until  *)
(* it is popped, taken back by its client or drained by a shutdown.        *)
(***************************************************************************)
EXTENDS Integers, Sequences

CONSTANT MaxChunks    \* bound on the chunks of text the server sends

ASSUME StreamAssumption == MaxChunks \in Nat

VARIABLES
  client,       \* where the handler, then the generator is
  got,          \* deltas sent to the client
  calls,        \* calls of cancel the response has still to make
  canceller,    \* where the present one is
  closer,       \* where the begin_shutdown that drains the job is
  worker,       \* where the job is: in the queue, or at which line of its worker
  outcome,      \* what stream returns or raises
  ended,        \* saw_done
  sent,         \* chunks read from the server
  sock,         \* the connection's socket
  events,       \* stream_events
  future,       \* result_future
  callbacks,    \* its done callbacks
  todo,         \* callbacks each thread has still to run
  finalized,    \* _finalized of the routed stream
  released,     \* number of calls of release_request
  logged,       \* log_stream_result has run
  cancelled,    \* the token's event
  callback,     \* whether the token holds the worker's callback
  aborting      \* threads that are about to run that callback

clientVars == <<client, got, calls, canceller>>
workerVars == <<worker, outcome, ended, sent>>
tokenVars  == <<cancelled, callback, aborting>>
futureVars == <<future, callbacks, todo>>
finalVars  == <<finalized, released, logged>>
vars == <<clientVars, closer, workerVars, sock, events, futureVars, finalVars, tokenVars>>

Threads == {"client", "worker", "closer"}

\* A thread runs the callbacks it owes before anything else.
Free(t) == todo[t] = <<>> /\ t \notin aborting

----------------------------------------------------------------------------

Init ==
  /\ client = "new" /\ got = <<>> /\ calls = 0 /\ canceller = "idle"
  /\ closer = "idle"
  /\ worker = "queued" /\ outcome = "none" /\ ended = FALSE /\ sent = 0
  /\ sock = "none" /\ events = <<>>
  /\ future = "pending" /\ callbacks = <<>> /\ todo = [t \in Threads |-> <<>>]
  /\ finalized = FALSE /\ released = 0 /\ logged = FALSE
  /\ cancelled = FALSE /\ callback = FALSE /\ aborting = {}

\* set_result, set_exception or cancel by t: a future that is done stays as it is.
Answer(t, value) ==
  IF future = "pending"
  THEN /\ future' = value
       /\ todo' = [todo EXCEPT ![t] = callbacks]
       /\ UNCHANGED callbacks
  ELSE UNCHANGED futureVars

\* Variant: a future that is done already loses the callback.
Register_Late(cb) ==
  /\ callbacks' = IF future = "pending" THEN Append(callbacks, cb) ELSE callbacks
  /\ UNCHANGED <<future, todo>>

\* add_done_callback, which runs the callback itself when the future is done.
Register(cb) ==
  /\ IF future = "pending"
     THEN callbacks' = Append(callbacks, cb) /\ UNCHANGED todo
     ELSE todo' = [todo EXCEPT !["client"] = Append(@, cb)] /\ UNCHANGED callbacks
  /\ UNCHANGED future

\* Variant: sets the event only.
Trip_Silently(t) == cancelled' = TRUE /\ UNCHANGED <<callback, aborting>>

\* CancellationToken.cancel, under the token's lock: the first call takes the callback.
Trip(t) ==
  /\ cancelled' = TRUE
  /\ callback' = FALSE
  /\ aborting' = IF ~cancelled /\ callback THEN aborting \cup {t} ELSE aborting

\* The callback: _abort_stream_socket.
Abort(t) ==
  /\ t \in aborting
  /\ sock' = IF sock = "open" THEN "shut" ELSE sock
  /\ aborting' = aborting \ {t}
  /\ UNCHANGED <<clientVars, closer, workerVars, events, futureVars, finalVars,
                 cancelled, callback>>

----------------------------------------------------------------------------
\* Done callbacks

Owes(t, cb) == todo[t] # <<>> /\ Head(todo[t]) = cb

Drop(t) == todo' = [todo EXCEPT ![t] = Tail(@)] /\ UNCHANGED <<future, callbacks>>

CallbackOnly ==
  UNCHANGED <<clientVars, closer, workerVars, sock, events, tokenVars>>

\* _finalize: release_request, then the event; whatever the result is.
Release(t) ==
  /\ Owes(t, "finalize")
  /\ released' = released + 1
  /\ todo' = [todo EXCEPT ![t] = <<"set">> \o Tail(@)]
  /\ UNCHANGED <<future, callbacks, finalized, logged>>
  /\ CallbackOnly

SetFinalized(t) ==
  /\ Owes(t, "set")
  /\ finalized' = TRUE
  /\ Drop(t)
  /\ UNCHANGED <<released, logged>>
  /\ CallbackOnly

\* log_stream_result, which waits until the stream is finalized.
Log(t) ==
  /\ Owes(t, "log")
  /\ finalized
  /\ logged' = TRUE
  /\ Drop(t)
  /\ UNCHANGED <<finalized, released>>
  /\ CallbackOnly

----------------------------------------------------------------------------
\* The handler and the generator

ClientOnly ==
  UNCHANGED <<closer, workerVars, sock, finalVars, tokenVars>>

At(pc) == client = pc /\ Free("client")

\* _RoutedStream is built, and then create_response adds its own callback.
Route ==
  /\ At("new")
  /\ Register("finalize")
  /\ client' = "routed"
  /\ UNCHANGED <<got, calls, canceller, events>>
  /\ ClientOnly

Respond ==
  /\ At("routed")
  /\ Register("log")
  /\ client' = "start"
  /\ UNCHANGED <<got, calls, canceller, events>>
  /\ ClientOnly

\* The generator's first event, response.created.
Created ==
  /\ At("start")
  /\ client' = "poll"
  /\ UNCHANGED <<got, calls, canceller, events, futureVars>>
  /\ ClientOnly

Poll ==
  /\ At("poll")
  /\ IF events = <<>>
     THEN client' = "check" /\ UNCHANGED <<got, events>>
     ELSE got' = Append(got, Head(events)) /\ events' = Tail(events) /\ UNCHANGED client
  /\ UNCHANGED <<calls, canceller, futureVars>>
  /\ ClientOnly

\* Variant: does not look at the queue again.
QueueEmpty_Assumed == TRUE

QueueEmpty == events = <<>>

\* Variant: does not wait for _finalize.
Finalized_Assumed == TRUE

Finalized == finalized

\* done reads the future, the queue and the event one after the other; when one
\* of them says no, the generator sleeps and polls again.
Done ==
  /\ \/ At("check") /\ client' = IF future # "pending" THEN "empty" ELSE "poll"
     \/ At("empty") /\ client' = IF QueueEmpty THEN "final" ELSE "poll"
     \/ At("final") /\ client' = IF Finalized THEN "result" ELSE "poll"
  /\ UNCHANGED <<got, calls, canceller, events, futureVars>>
  /\ ClientOnly

\* result, and response.completed or response.failed. The response calls cancel
\* when it is over, and the generator does so before unless it has completed.
Result ==
  /\ At("result")
  /\ IF future \in {"full", "partial"}
     THEN client' = "completed" /\ calls' = 1
     ELSE client' = "failed" /\ calls' = 2
  /\ UNCHANGED <<got, canceller, events, futureVars>>
  /\ ClientOnly

\* The client disconnects. A generator that was not started has no finally.
Leave ==
  /\ client \in {"start", "poll", "check", "empty", "final", "result"} /\ Free("client")
  /\ client' = "left"
  /\ calls' = IF client = "start" THEN 1 ELSE 2
  /\ UNCHANGED <<got, canceller, events, futureVars>>
  /\ ClientOnly

----------------------------------------------------------------------------
\* cancel, as the response calls it: LoadedModelExecutor.cancel

Canceller(pc) == canceller = pc /\ Free("client")

TakeBack ==
  /\ Canceller("idle") /\ calls > 0
  /\ calls' = calls - 1
  /\ IF worker = "queued"
     THEN worker' = "taken" /\ canceller' = "token of the job taken"
     ELSE canceller' = "token" /\ UNCHANGED worker
  /\ UNCHANGED <<client, got, closer, outcome, ended, sent, sock, events, futureVars,
                 finalVars, tokenVars>>

Cancel ==
  /\ canceller \in {"token", "token of the job taken"} /\ Free("client")
  /\ Trip("client")
  /\ canceller' = IF canceller = "token" THEN "idle" ELSE "future"
  /\ UNCHANGED <<client, got, calls, closer, workerVars, sock, events, futureVars, finalVars>>

CancelFuture ==
  /\ Canceller("future")
  /\ Answer("client", "cancelled")
  /\ canceller' = "idle"
  /\ UNCHANGED <<client, got, calls, closer, workerVars, sock, events, finalVars, tokenVars>>

----------------------------------------------------------------------------
\* begin_shutdown, when it finds the job in the queue

Drain ==
  /\ closer = "idle"
  /\ worker = "queued"
  /\ worker' = "taken"
  /\ closer' = "token"
  /\ UNCHANGED <<clientVars, outcome, ended, sent, sock, events, futureVars, finalVars,
                 tokenVars>>

CancelDrained ==
  /\ closer = "token"
  /\ Trip("closer")
  /\ closer' = "future"
  /\ UNCHANGED <<clientVars, workerVars, sock, events, futureVars, finalVars>>

FailDrained ==
  /\ closer = "future" /\ Free("closer")
  /\ Answer("closer", "error")
  /\ closer' = "over"
  /\ UNCHANGED <<clientVars, workerVars, sock, events, finalVars, tokenVars>>

----------------------------------------------------------------------------
\* The worker: _run_job around VllmServeEngine.stream

Working(pc) == worker = pc /\ Free("worker")

Go(pc) == worker' = pc

WorkerOnly == UNCHANGED <<clientVars, closer, finalVars>>

Pop ==
  /\ worker = "queued"
  /\ Go("begin")
  /\ UNCHANGED <<outcome, ended, sent, sock, events, futureVars, tokenVars>>
  /\ WorkerOnly

Begin ==
  /\ Working("begin")
  /\ IF cancelled THEN Go("leave") /\ outcome' = "aborted"
                  ELSE Go("connect") /\ UNCHANGED outcome
  /\ UNCHANGED <<ended, sent, sock, events, futureVars, tokenVars>>
  /\ WorkerOnly

\* connect, within its timeout.
Connect ==
  /\ Working("connect")
  /\ \/ Go("arm") /\ sock' = "open"
     \/ Go("disconnect") /\ UNCHANGED sock
  /\ UNCHANGED <<outcome, ended, sent, events, futureVars, tokenVars>>
  /\ WorkerOnly

\* set_callback, which runs the callback itself when the token is set already.
SetCallback ==
  /\ Working("arm")
  /\ IF cancelled THEN aborting' = aborting \cup {"worker"} /\ UNCHANGED callback
                  ELSE callback' = TRUE /\ UNCHANGED aborting
  /\ Go("armed")
  /\ UNCHANGED <<outcome, ended, sent, sock, events, futureVars, cancelled>>
  /\ WorkerOnly

CheckCancelled ==
  /\ Working("armed")
  /\ Go(IF cancelled THEN "disarm" ELSE "request")
  /\ UNCHANGED <<outcome, ended, sent, sock, events, futureVars, tokenVars>>
  /\ WorkerOnly

\* The response's head comes, or it does not: an error status, a timeout, or a
\* socket that was shut down.
Request ==
  /\ Working("request")
  /\ \/ sock = "open" /\ Go("read")
     \/ Go("disarm")
  /\ UNCHANGED <<outcome, ended, sent, sock, events, futureVars, tokenVars>>
  /\ WorkerOnly

\* The next line of the response, what the server had sent before a shutdown
\* included: text, the end, or an error.
Read ==
  /\ Working("read")
  /\ \/ sent < MaxChunks /\ sent' = sent + 1 /\ Go("text") /\ UNCHANGED <<outcome, ended>>
     \/ /\ IF cancelled THEN UNCHANGED ended ELSE ended' = TRUE
        /\ Go("close") /\ UNCHANGED <<outcome, sent>>
     \/ Go("close") /\ UNCHANGED <<outcome, ended, sent>>
     \/ /\ outcome' = IF cancelled THEN "none" ELSE "error"
        /\ Go("close") /\ UNCHANGED <<ended, sent>>
  /\ UNCHANGED <<sock, events, futureVars, tokenVars>>
  /\ WorkerOnly

\* The loop and then emit look at the token, before the delta is put in the
\* queue and after it. The cancel that follows a refused emit changes nothing.
Emit ==
  /\ \/ Working("text") /\ Go(IF cancelled THEN "close" ELSE "emit") /\ UNCHANGED events
     \/ Working("emit") /\ Go(IF cancelled THEN "close" ELSE "put") /\ UNCHANGED events
     \/ Working("put") /\ Go("emitted") /\ events' = Append(events, sent)
     \/ Working("emitted") /\ Go(IF cancelled THEN "close" ELSE "read") /\ UNCHANGED events
  /\ UNCHANGED <<outcome, ended, sent, sock, futureVars, tokenVars>>
  /\ WorkerOnly

\* Variant: the token keeps the callback.
Cleared_Kept == callback

Cleared == FALSE

\* clear_callback, in the finally of stream or of _open_stream.
ClearCallback ==
  /\ \/ Working("close") /\ Go("disconnected")
     \/ Working("disarm") /\ Go("disconnect")
  /\ callback' = Cleared
  /\ UNCHANGED <<outcome, ended, sent, sock, events, futureVars, cancelled, aborting>>
  /\ WorkerOnly

Disconnect ==
  /\ \/ Working("disconnected") /\ Go("finish")
     \/ Working("disconnect") /\ Go("unopened")
  /\ sock' = IF sock = "none" THEN "none" ELSE "closed"
  /\ UNCHANGED <<outcome, ended, sent, events, futureVars, tokenVars>>
  /\ WorkerOnly

\* The result of a stream that was cancelled: the text so far.
CutShort == "partial"

\* What stream makes of it. A stream that ended may still lack its finish
\* reason or its text.
Finish ==
  /\ \/ /\ Working("finish") /\ outcome = "none"
        /\ \/ cancelled /\ outcome' = CutShort
           \/ ~cancelled /\ ended /\ outcome' \in {"full", "error"}
           \/ ~cancelled /\ ~ended /\ outcome' = "error"
     \/ Working("finish") /\ outcome # "none" /\ UNCHANGED outcome
     \/ Working("unopened") /\ outcome' = IF cancelled THEN CutShort ELSE "error"
  /\ Go("leave")
  /\ UNCHANGED <<ended, sent, sock, events, futureVars, tokenVars>>
  /\ WorkerOnly

\* The slot is given back.
LeaveSlot ==
  /\ Working("leave")
  /\ Go("resolve")
  /\ UNCHANGED <<outcome, ended, sent, sock, events, futureVars, tokenVars>>
  /\ WorkerOnly

Resolve ==
  /\ Working("resolve")
  /\ Answer("worker", outcome)
  /\ Go("over")
  /\ UNCHANGED <<outcome, ended, sent, sock, events, tokenVars>>
  /\ WorkerOnly

----------------------------------------------------------------------------

RunCallback(t) == Release(t) \/ SetFinalized(t) \/ Log(t) \/ Abort(t)

ClientStep ==
  \/ RunCallback("client")
  \/ Route \/ Respond \/ Created \/ Poll \/ Done \/ Result
  \/ TakeBack \/ Cancel \/ CancelFuture

CloserStep == RunCallback("closer") \/ CancelDrained \/ FailDrained

WorkerStep ==
  \/ RunCallback("worker")
  \/ Begin \/ Connect \/ SetCallback \/ CheckCancelled \/ Request \/ Read \/ Emit
  \/ ClearCallback \/ Disconnect \/ Finish \/ LeaveSlot \/ Resolve

Next == ClientStep \/ Leave \/ Drain \/ CloserStep \/ Pop \/ WorkerStep

Spec == Init /\ [][Next]_vars

\* The worker waits for a server that may never answer.
Blocked == Free("worker") /\ worker \in {"request", "read"} /\ sock = "open"

\* Threads that can go on do so. The server need not send anything, the client
\* need not leave, and the executor need not pop the job.
Fairness ==
  /\ WF_vars(ClientStep)
  /\ WF_vars(CloserStep)
  /\ WF_vars(~Blocked /\ WorkerStep)

FairSpec == Spec /\ Fairness

----------------------------------------------------------------------------
\* Properties

Clients == {"new", "routed", "start", "poll", "check", "empty", "final", "result",
            "completed", "failed", "left"}
Workers == {"queued", "taken", "begin", "connect", "arm", "armed", "request", "read",
            "text", "emit", "put", "emitted", "close", "disarm", "disconnected",
            "disconnect", "finish", "unopened", "leave", "resolve", "over"}
Outcomes == {"none", "full", "partial", "error", "aborted"}
Callbacks == {"finalize", "set", "log"}

\* Every variable has its type.
TypeOK ==
  /\ client \in Clients /\ got \in Seq(1..MaxChunks) /\ calls \in 0..2
  /\ canceller \in {"idle", "token", "token of the job taken", "future"}
  /\ closer \in {"idle", "token", "future", "over"}
  /\ worker \in Workers /\ outcome \in Outcomes /\ ended \in BOOLEAN
  /\ sent \in 0..MaxChunks
  /\ sock \in {"none", "open", "shut", "closed"}
  /\ events \in Seq(1..MaxChunks)
  /\ future \in {"pending", "cancelled"} \cup (Outcomes \ {"none"})
  /\ callbacks \in Seq(Callbacks) /\ todo \in [Threads -> Seq(Callbacks)]
  /\ finalized \in BOOLEAN /\ logged \in BOOLEAN /\ cancelled \in BOOLEAN
  /\ callback \in BOOLEAN
  /\ released \in Nat
  /\ aborting \subseteq Threads

Answered == client \in {"completed", "failed"}

\* A client that is told response.completed has had every chunk of a stream that
\* the server has finished, once and in order, although done looks at the future
\* and the queue at different times and the worker goes on in between.
CompletedMeansAll ==
  client = "completed" => future = "full" /\ got = [i \in 1..sent |-> i]

\* The router counts the request until its future is done, and no longer than
\* until the client is told so; and it counts it down once, whichever thread
\* answers the future before, while or after the callbacks are added.
ReleasedOnce ==
  /\ released <= 1
  /\ future = "pending" => released = 0
  /\ Answered => released = 1

\* Whatever fails or is cancelled at whatever time, a worker that gives back its
\* slot leaves neither an open connection nor a callback that would touch it.
NothingLeftOpen ==
  worker \in {"leave", "resolve", "over"} => sock \in {"none", "closed"} /\ ~callback

\* A client that goes away gets its slot back although the server stays silent:
\* the abort cannot fall between the worker's checks and its callback.
LeavingFreesSlot == client = "left" ~> worker \in {"taken", "resolve", "over"}

\* Once a stream is answered, its client is told, and the log and the router
\* are, even when that happens before or while the callbacks are added.
AnswerArrives ==
  future # "pending" ~> logged /\ released = 1 /\ (Answered \/ client = "left")

============================================================================

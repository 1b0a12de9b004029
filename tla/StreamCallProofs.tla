-------------------------- MODULE StreamCallProofs --------------------------
(***************************************************************************)
(* Proofs about StreamCall: one streamed response, however many chunks its *)
(* server sends, in every interleaving of the client's thread, the worker  *)
(* and a shutdown.                                                         *)
(***************************************************************************)
EXTENDS StreamCall, SequenceTheorems, TLAPS

\* The router's request: who has still to release it. The lists of callbacks are
\* written out, since release_request must appear in them at most once.
Lists == {<<>>, <<"finalize">>, <<"finalize", "log">>, <<"set">>, <<"set", "log">>, <<"log">>}

Counted ==
  /\ todo \in [Threads -> Lists]
  /\ callbacks \in {<<>>, <<"finalize">>, <<"finalize", "log">>}
  /\ released \in {0, 1}
  /\ future = "pending" => released = 0 /\ \A t \in Threads : todo[t] = <<>>
  /\ client = "new" => /\ released = 0 /\ callbacks = <<>>
                       /\ \A t \in Threads : todo[t] = <<>>
  /\ client = "routed" => callbacks \in {<<>>, <<"finalize">>}
  /\ future = "pending" /\ client = "routed" => callbacks = <<"finalize">>
  /\ \A t, u \in Threads : Owes(t, "finalize") /\ Owes(u, "finalize") => t = u
  /\ \A t \in Threads :
        /\ Owes(t, "finalize") => released = 0
        /\ Owes(t, "set") => released = 1
  /\ finalized => released = 1
  /\ client \in {"result", "completed", "failed"} => finalized

\* The connection and the callback that would shut its socket, along the worker.
Closed ==
  /\ worker \in {"queued", "taken", "begin", "connect"} => sock = "none"
  /\ worker \in {"finish", "unopened", "leave", "resolve", "over"} => sock \in {"none", "closed"}
  /\ worker \notin {"armed", "request", "read", "text", "emit", "put", "emitted", "close", "disarm"}
        => ~callback

\* Who has cancelled: a client that is through with the response, or a shutdown
\* that has taken the job from the queue.
Through == client \in {"completed", "failed", "left"}

Cut ==
  /\ calls > 0 \/ canceller # "idle" => Through
  /\ closer # "idle" => worker = "taken"
  /\ cancelled => Through \/ worker = "taken"

\* The first k chunks, in order: with the client, or in the queue.
InOrder(g, e, k) ==
  /\ Len(g) + Len(e) = k
  /\ \A i \in 1..Len(g) : g[i] = i
  /\ \A j \in 1..Len(e) : e[j] = Len(g) + j

Delivered(k) == InOrder(got, events, k)

\* Only a stream that was not cancelled before its end has a full result, and then
\* the worker is through with the queue. Once the future is done the client's look
\* at the queue is final.
Complete ==
  /\ worker \in {"queued", "taken", "begin", "connect", "arm", "armed", "request", "disarm",
                 "disconnect", "unopened"} => sent = 0 /\ outcome = "none"
  /\ worker \in {"read", "text", "emit", "put", "emitted"} => outcome = "none"
  /\ worker \in {"queued", "taken", "begin", "connect", "arm", "armed", "request", "read", "emitted"}
        => Delivered(sent)
  /\ worker \in {"text", "emit", "put"} => sent > 0 /\ Delivered(sent - 1)
  /\ worker \in {"close", "disconnected", "finish"} =>
        outcome \in {"none", "error"} /\ (cancelled \/ Delivered(sent))
  /\ worker \in {"leave", "resolve", "over"} => outcome # "none"
  /\ outcome = "full" => Delivered(sent)
  /\ outcome = "partial" => cancelled
  /\ future \in {"full", "partial"} => future = outcome /\ worker = "over"
  /\ client \in {"empty", "final", "result", "completed", "failed"} => future # "pending"
  /\ client \in {"final", "result", "completed"} /\ future = "full" => events = <<>>
  /\ client = "completed" => future = "full"

StreamInv == TypeOK /\ Counted /\ Closed /\ Cut /\ Complete

----------------------------------------------------------------------------
\* The kinds of steps

\* The steps of the threads, one by one.
LEMMA StepKinds ==
  ASSUME [Next]_vars
  PROVE  \/ \E t \in Threads : RunCallback(t)
         \/ Route \/ Respond
         \/ Created \/ Poll \/ Done \/ Result \/ Leave
         \/ TakeBack \/ Cancel \/ CancelFuture
         \/ Drain \/ CancelDrained \/ FailDrained
         \/ Pop \/ Begin \/ Connect \/ SetCallback \/ CheckCancelled \/ Request \/ Read
         \/ Emit
         \/ ClearCallback \/ Disconnect \/ Finish \/ LeaveSlot \/ Resolve
         \/ UNCHANGED vars
<1>1. "client" \in Threads /\ "closer" \in Threads /\ "worker" \in Threads
  BY DEF Threads
<1> QED
  BY <1>1 DEF Next, ClientStep, CloserStep, WorkerStep

\* What the steps of each thread leave alone, as far as the invariant looks at it.
LEMMA CallbackFrame ==
  ASSUME NEW t \in Threads, RunCallback(t)
  PROVE  /\ UNCHANGED <<client, got, calls, canceller, closer, worker, outcome, ended, sent, events,
                        future, callbacks, cancelled, callback>>
         /\ sock' = sock \/ (sock = "open" /\ sock' = "shut")
BY DEF RunCallback, Release, SetFinalized, Log, Abort, Drop, CallbackOnly, clientVars, workerVars,
       tokenVars, futureVars, finalVars

\* What the client's thread leaves alone.
LEMMA ClientFrame ==
  ASSUME Route \/ Respond \/ Created \/ Poll \/ Done \/ Result \/ Leave
  PROVE  UNCHANGED <<closer, worker, outcome, ended, sent, sock, cancelled, callback, future, finalized,
                     released, canceller>>
BY DEF Route, Respond, Created, Poll, Done, Result, Leave, Register, ClientOnly, workerVars, tokenVars,
       futureVars, finalVars

\* What a cancelling or closing thread leaves alone.
LEMMA CancelFrame ==
  ASSUME TakeBack \/ Cancel \/ CancelFuture \/ Drain \/ CancelDrained \/ FailDrained
  PROVE  /\ UNCHANGED <<client, got, outcome, ended, sent, sock, events, callbacks, finalized, released>>
         /\ (callback' => callback)
<1>1. UNCHANGED <<client, got, outcome, ended, sent, sock, events, callbacks, finalized, released>>
  BY DEF TakeBack, Cancel, CancelFuture, Drain, CancelDrained, FailDrained, Answer, clientVars,
         workerVars, futureVars, finalVars
<1>2. callback' = callback \/ callback' = FALSE
  BY DEF TakeBack, Cancel, CancelFuture, Drain, CancelDrained, FailDrained, Trip, tokenVars
<1> QED
  BY <1>1, <1>2

\* What the worker leaves alone.
LEMMA WorkerFrame ==
  ASSUME \/ Pop \/ Begin \/ Connect \/ SetCallback \/ CheckCancelled \/ Request \/ Read \/ Emit
         \/ ClearCallback \/ Disconnect \/ Finish \/ LeaveSlot \/ Resolve
  PROVE  /\ UNCHANGED <<client, got, calls, canceller, closer, finalized, released, cancelled,
                        callbacks>>
         /\ worker # "taken" /\ worker' # "taken"
BY DEF Pop, Begin, Connect, SetCallback, CheckCancelled, Request, Read, Emit, ClearCallback,
       Disconnect, Finish, LeaveSlot, Resolve, Answer, Working, Go, WorkerOnly, clientVars,
       tokenVars, futureVars, finalVars

----------------------------------------------------------------------------
\* The connection

\* The worker shuts its socket and clears the callback before it gives back its slot.
LEMMA ClosedKept ==
  ASSUME Closed, [Next]_vars
  PROVE  Closed'
<1>1. CASE \E t \in Threads : RunCallback(t)
  BY <1>1, CallbackFrame DEF Closed
<1>2. CASE Route \/ Respond \/ Created \/ Poll \/ Done \/ Result \/ Leave
  BY <1>2, ClientFrame DEF Closed
<1>3. CASE TakeBack \/ Cancel \/ CancelFuture \/ Drain \/ CancelDrained \/ FailDrained
  <2>1. worker' = worker \/ (worker = "queued" /\ worker' = "taken")
    BY <1>3 DEF TakeBack, Cancel, CancelFuture, Drain, CancelDrained, FailDrained, workerVars
  <2>2. sock' = sock /\ (callback' => callback)
    BY <1>3, CancelFrame
  <2> QED
    BY <2>1, <2>2 DEF Closed
<1>4. CASE Pop \/ Begin \/ Connect
  BY <1>4 DEF Pop, Begin, Connect, Working, Go, Closed, tokenVars
<1>5. CASE SetCallback \/ CheckCancelled \/ Request
  BY <1>5 DEF SetCallback, CheckCancelled, Request, Working, Go, Closed, tokenVars
<1>6. CASE Read \/ Emit
  <2>1. UNCHANGED <<sock, callback>>
    BY <1>6 DEF Read, Emit, tokenVars
  <2>2. /\ worker \in {"read", "text", "emit", "put", "emitted"}
        /\ worker' \in {"read", "text", "emit", "put", "emitted", "close"}
    BY <1>6 DEF Read, Emit, Working, Go
  <2> QED
    BY <2>1, <2>2 DEF Closed
<1>7. CASE ClearCallback \/ Disconnect
  BY <1>7 DEF ClearCallback, Disconnect, Cleared, Working, Go, Closed, tokenVars
<1>8. CASE Finish \/ LeaveSlot \/ Resolve
  BY <1>8 DEF Finish, LeaveSlot, Resolve, Working, Go, Closed, tokenVars
<1>9. CASE UNCHANGED vars
  BY <1>9 DEF vars, Closed, workerVars, tokenVars
<1> QED
  BY <1>1, <1>2, <1>3, <1>4, <1>5, <1>6, <1>7, <1>8, <1>9, StepKinds

----------------------------------------------------------------------------
\* Who cancels

\* Nobody cancels but a client that is through and a shutdown that has the job.
LEMMA CutKept ==
  ASSUME TypeOK, Cut, [Next]_vars
  PROVE  Cut'
<1>1. CASE \E t \in Threads : RunCallback(t)
  BY <1>1, CallbackFrame DEF Cut, Through
<1>2. CASE Route \/ Respond \/ Created \/ Poll \/ Done \/ Result \/ Leave
  <2>1. UNCHANGED calls \/ client' \in {"completed", "failed", "left"}
    BY <1>2 DEF Route, Respond, Created, Poll, Done, Result, Leave
  <2>2. Through => Through'
    BY <1>2 DEF Through, Route, Respond, Created, Poll, Done, Result, Leave, At
  <2> QED
    BY <1>2, <2>1, <2>2, ClientFrame DEF Cut, Through
<1>3. CASE TakeBack \/ Cancel \/ CancelFuture
  <2>1. Through /\ Through' /\ UNCHANGED closer
    BY <1>3 DEF Cut, TypeOK, TakeBack, Cancel, CancelFuture, Canceller, Through
  <2>2. worker = "taken" => worker' = "taken"
    BY <1>3 DEF TakeBack, Cancel, CancelFuture, workerVars
  <2> QED
    BY <2>1, <2>2 DEF Cut
<1>4. CASE Drain \/ CancelDrained \/ FailDrained
  <2>1. worker' = "taken" /\ UNCHANGED <<client, calls, canceller>>
    BY <1>4 DEF Cut, Drain, CancelDrained, FailDrained, clientVars, workerVars
  <2> QED
    BY <2>1 DEF Cut, Through
<1>5. CASE \/ Pop \/ Begin \/ Connect \/ SetCallback \/ CheckCancelled \/ Request \/ Read \/ Emit
           \/ ClearCallback \/ Disconnect \/ Finish \/ LeaveSlot \/ Resolve
  BY <1>5, WorkerFrame DEF Cut, Through
<1>6. CASE UNCHANGED vars
  BY <1>6 DEF vars, clientVars, workerVars, tokenVars, Cut, Through
<1> QED
  BY <1>1, <1>2, <1>3, <1>4, <1>5, <1>6, StepKinds

----------------------------------------------------------------------------
\* The router's request

\* The callbacks of a future, as they are run one after the other.
LEMMA ListFacts ==
  /\ \A l \in Lists : l # <<>> => Tail(l) \in Lists
  /\ \A l \in Lists : l # <<>> /\ Head(l) = "finalize" => <<"set">> \o Tail(l) \in Lists
  /\ \A l \in Lists : l # <<>> => Head(Tail(l)) # "finalize" \/ Tail(l) = <<>>
  /\ \A l \in Lists : l # <<>> => Head(Tail(l)) # "set" \/ Tail(l) = <<>>
  /\ \A l \in Lists : l # <<>> /\ Head(l) = "finalize" => Head(<<"set">> \o Tail(l)) = "set"
<1>1. /\ Tail(<<"finalize">>) = <<>> /\ Tail(<<"set">>) = <<>> /\ Tail(<<"log">>) = <<>>
      /\ Tail(<<"finalize", "log">>) = <<"log">> /\ Tail(<<"set", "log">>) = <<"log">>
  OBVIOUS
<1>2. <<"set">> \o <<>> = <<"set">> /\ <<"set">> \o <<"log">> = <<"set", "log">>
  <2>1. <<"set">> \o <<>> = <<"set">>
    OBVIOUS
  <2>2. <<"set">> \o <<"log">> = <<"set", "log">>
    <3> DEFINE left == <<"set">> \o <<"log">>
               right == <<"set", "log">>
    <3>1. left \in Seq({"set", "log"}) /\ Len(left) = 2 /\ left[1] = "set" /\ left[2] = "log"
      OBVIOUS
    <3>2. right \in Seq({"set", "log"}) /\ Len(right) = 2 /\ right[1] = "set" /\ right[2] = "log"
      OBVIOUS
    <3> HIDE DEF left, right
    <3>3. left = right
      BY <3>1, <3>2, SeqEqual
    <3> QED
      BY <3>3 DEF left, right
  <2> QED
    BY <2>1, <2>2
<1>3. /\ Head(<<"finalize">>) = "finalize" /\ Head(<<"set">>) = "set" /\ Head(<<"log">>) = "log"
      /\ Head(<<"finalize", "log">>) = "finalize" /\ Head(<<"set", "log">>) = "set"
  OBVIOUS
<1> QED
  BY <1>1, <1>2, <1>3 DEF Lists

\* The callbacks of a future, as they are added.
LEMMA AppendFacts ==
  /\ Append(<<>>, "finalize") = <<"finalize">>
  /\ Append(<<>>, "log") = <<"log">>
  /\ Append(<<"finalize">>, "log") = <<"finalize", "log">>
<1>1. Append(<<>>, "finalize") = <<"finalize">> /\ Append(<<>>, "log") = <<"log">>
  OBVIOUS
<1>2. Append(<<"finalize">>, "log") = <<"finalize", "log">>
  <2> DEFINE left == Append(<<"finalize">>, "log")
             right == <<"finalize", "log">>
  <2>1. /\ left \in Seq({"finalize", "log"}) /\ Len(left) = 2
        /\ left[1] = "finalize" /\ left[2] = "log"
    OBVIOUS
  <2>2. /\ right \in Seq({"finalize", "log"}) /\ Len(right) = 2
        /\ right[1] = "finalize" /\ right[2] = "log"
    OBVIOUS
  <2> HIDE DEF left, right
  <2>3. left = right
    BY <2>1, <2>2, SeqEqual
  <2> QED
    BY <2>3 DEF left, right
<1> QED
  BY <1>1, <1>2

\* A step that answers the future.
LEMMA AnswerCounts ==
  ASSUME Counted, NEW t \in Threads, NEW value, value # "pending", Answer(t, value),
         UNCHANGED <<client, finalized, released>>
  PROVE  Counted'
<1>1. CASE future # "pending"
  BY <1>1 DEF Answer, Counted, Owes, futureVars
<1>2. CASE future = "pending"
  <2>1. /\ future' = value /\ todo' = [todo EXCEPT ![t] = callbacks] /\ callbacks' = callbacks
    BY <1>2 DEF Answer
  <2>2. /\ todo' \in [Threads -> Lists] /\ todo'[t] = callbacks
        /\ \A u \in Threads : u # t => todo'[u] = <<>>
    BY <1>2, <2>1 DEF Counted, Lists
  <2>3. callbacks # <<>> => Head(callbacks) = "finalize"
    BY DEF Counted
  <2>4. \A u \in Threads : ~Owes(u, "set")' /\ (Owes(u, "finalize")' => u = t)
    BY <2>2, <2>3 DEF Owes
  <2> QED
    BY <1>2, <2>1, <2>2, <2>4 DEF Counted
<1> QED
  BY <1>1, <1>2

\* release_request is owed by one thread at most, and by none once it was called.
LEMMA CountedKept ==
  ASSUME TypeOK, Counted, [Next]_vars
  PROVE  Counted'
<1>1. ASSUME NEW t \in Threads, Release(t) PROVE Counted'
  <2>1. /\ todo[t] # <<>> /\ Head(todo[t]) = "finalize" /\ todo[t] \in Lists
        /\ released = 0 /\ future # "pending" /\ client # "new" /\ ~finalized
    BY <1>1 DEF Release, Owes, Counted
  <2>2. /\ released' = 1 /\ todo' = [todo EXCEPT ![t] = <<"set">> \o Tail(todo[t])]
        /\ UNCHANGED <<client, future, callbacks, finalized>>
    BY <1>1, <2>1 DEF Release, CallbackOnly, clientVars
  <2>3. <<"set">> \o Tail(todo[t]) \in Lists /\ Head(<<"set">> \o Tail(todo[t])) = "set"
    BY <2>1, ListFacts
  <2>4. /\ todo' \in [Threads -> Lists] /\ Head(todo'[t]) = "set"
        /\ \A u \in Threads : u # t => todo'[u] = todo[u]
    BY <2>2, <2>3 DEF Counted
  <2>5. \A u \in Threads : ~Owes(u, "finalize")'
    BY <1>1, <2>4 DEF Counted, Owes, Release
  <2> QED
    BY <2>1, <2>2, <2>4, <2>5 DEF Counted
<1>2. ASSUME NEW t \in Threads, SetFinalized(t) \/ Log(t) PROVE Counted'
  <2>1. /\ todo[t] # <<>> /\ todo[t] \in Lists
        /\ future # "pending" /\ client # "new"
    BY <1>2 DEF SetFinalized, Log, Owes, Counted
  <2>2. /\ todo' = [todo EXCEPT ![t] = Tail(todo[t])]
        /\ UNCHANGED <<client, future, callbacks, released>>
    BY <1>2 DEF SetFinalized, Log, Drop, CallbackOnly, clientVars
  <2>3. Tail(todo[t]) \in Lists /\ (Tail(todo[t]) = <<>> \/ Head(Tail(todo[t])) \notin {"set", "finalize"})
    BY <2>1, ListFacts
  <2>4. /\ todo' \in [Threads -> Lists]
        /\ todo'[t] = <<>> \/ Head(todo'[t]) \notin {"set", "finalize"}
        /\ \A u \in Threads : u # t => todo'[u] = todo[u]
    BY <2>2, <2>3 DEF Counted
  <2>5. \A u \in Threads, cb \in {"set", "finalize"} : Owes(u, cb)' => Owes(u, cb)
    BY <2>4 DEF Owes
  <2>6. (finalized' => released = 1) /\ (finalized => finalized')
    BY <1>2 DEF SetFinalized, Log, Counted
  <2> QED
    BY <2>1, <2>2, <2>4, <2>5, <2>6 DEF Counted
<1>3. ASSUME NEW t \in Threads, Abort(t) PROVE Counted'
  BY <1>3 DEF Abort, Counted, Owes, futureVars, finalVars, clientVars
<1>4. CASE Route
  <2>1. /\ client = "new" /\ client' = "routed" /\ UNCHANGED <<finalized, released, future>>
        /\ released = 0 /\ callbacks = <<>> /\ \A t \in Threads : todo[t] = <<>>
    BY <1>4 DEF Route, At, Counted, Register, ClientOnly, finalVars
  <2>2. CASE future = "pending"
    <3>1. callbacks' = <<"finalize">> /\ todo' = todo
      BY <1>4, <2>1, <2>2 DEF Route, Register
    <3> QED
      BY <2>1, <2>2, <3>1 DEF Counted, Owes
  <2>3. CASE future # "pending"
    <3>1. callbacks' = <<>> /\ todo' = [todo EXCEPT !["client"] = <<"finalize">>]
      BY <1>4, <2>1, <2>3, AppendFacts DEF Route, Register, Threads, Counted
    <3>2. /\ todo' \in [Threads -> Lists] /\ todo'["client"] = <<"finalize">>
          /\ \A u \in Threads : u # "client" => todo'[u] = <<>>
      BY <2>1, <3>1 DEF Counted, Lists, Threads
    <3>3. \A u \in Threads : ~Owes(u, "set")' /\ (Owes(u, "finalize")' => u = "client")
      BY <3>2 DEF Owes
    <3> QED
      BY <2>1, <2>3, <3>1, <3>2, <3>3 DEF Counted
  <2> QED
    BY <2>2, <2>3
<1>5. CASE Respond
  <2>1. /\ client = "routed" /\ client' = "start" /\ UNCHANGED <<finalized, released, future>>
        /\ callbacks \in {<<>>, <<"finalize">>} /\ todo["client"] = <<>>
    BY <1>5 DEF Respond, At, Free, Counted, Register, ClientOnly, finalVars
  <2>2. CASE future = "pending"
    <3>1. callbacks' = <<"finalize", "log">> /\ todo' = todo
      BY <1>5, <2>1, <2>2, AppendFacts DEF Respond, Register, Counted
    <3> QED
      BY <2>1, <2>2, <3>1 DEF Counted, Owes
  <2>3. CASE future # "pending"
    <3>1. callbacks' = callbacks /\ todo' = [todo EXCEPT !["client"] = <<"log">>]
      BY <1>5, <2>1, <2>3 DEF Respond, Register, Threads
    <3>2. /\ todo' \in [Threads -> Lists] /\ todo'["client"] = <<"log">>
          /\ \A u \in Threads : u # "client" => todo'[u] = todo[u]
      BY <3>1 DEF Counted, Lists, Threads
    <3>3. \A u \in Threads, cb \in {"set", "finalize"} : Owes(u, cb)' => Owes(u, cb)
      BY <3>2 DEF Owes
    <3> QED
      BY <2>1, <2>3, <3>1, <3>2, <3>3 DEF Counted
  <2> QED
    BY <2>2, <2>3
<1>6. CASE Created \/ Poll \/ Done \/ Result \/ Leave
  <2>1. UNCHANGED <<todo, callbacks, future, finalized, released>>
    BY <1>6 DEF Created, Poll, Done, Result, Leave, ClientOnly, futureVars, finalVars
  <2>2. /\ client \notin {"new", "routed"} /\ client' \notin {"new", "routed"}
        /\ client' \in {"result", "completed", "failed"} => finalized
    BY <1>6 DEF Created, Poll, Done, Result, Leave, At, Finalized, Counted
  <2> QED
    BY <2>1, <2>2 DEF Counted, Owes
<1>7. CASE CancelFuture \/ FailDrained \/ Resolve
  <2>1. PICK t \in Threads, value \in {"cancelled", "error", outcome} : Answer(t, value)
    BY <1>7 DEF CancelFuture, FailDrained, Resolve, Threads
  <2>2. value # "pending"
    BY DEF TypeOK, Outcomes
  <2>3. UNCHANGED <<client, finalized, released>>
    BY <1>7, CancelFrame, WorkerFrame
  <2> QED
    BY <2>1, <2>2, <2>3, AnswerCounts
<1>8. CASE \/ TakeBack \/ Cancel \/ Drain \/ CancelDrained
           \/ Pop \/ Begin \/ Connect \/ SetCallback \/ CheckCancelled \/ Request \/ Read
           \/ Emit \/ ClearCallback \/ Disconnect \/ Finish \/ LeaveSlot
  <2>1. UNCHANGED futureVars
    BY <1>8 DEF TakeBack, Cancel, Drain, CancelDrained, Pop, Begin, Connect, SetCallback,
                CheckCancelled, Request, Read, Emit, ClearCallback, Disconnect, Finish, LeaveSlot
  <2>2. UNCHANGED <<client, finalized, released>>
    BY <1>8, CancelFrame, WorkerFrame
  <2> QED
    BY <2>1, <2>2 DEF Counted, Owes, futureVars
<1>9. CASE UNCHANGED vars
  BY <1>9 DEF vars, Counted, Owes, futureVars, finalVars, clientVars
<1> QED
  BY <1>1, <1>2, <1>3, <1>4, <1>5, <1>6, <1>7, <1>8, <1>9, StepKinds DEF RunCallback

----------------------------------------------------------------------------
\* The chunks

\* A delta that is emitted goes behind those that are delivered or queued.
LEMMA PutInOrder ==
  ASSUME NEW g \in Seq(Int), NEW e \in Seq(Int), NEW k \in Int, InOrder(g, e, k - 1)
  PROVE  InOrder(g, Append(e, k), k)
<1> DEFINE now == Append(e, k)
<1>1. /\ Len(now) = Len(e) + 1 /\ now[Len(e) + 1] = k
      /\ \A j \in 1..Len(e) : now[j] = e[j]
  OBVIOUS
<1>2. Len(g) \in Nat /\ Len(e) \in Nat /\ Len(g) + Len(e) = k - 1
  BY DEF InOrder
<1> HIDE DEF now
<1>3. \A j \in 1..Len(now) : now[j] = Len(g) + j
  <2> SUFFICES ASSUME NEW j \in 1..Len(now) PROVE now[j] = Len(g) + j
    OBVIOUS
  <2>1. CASE j = Len(e) + 1
    BY <1>1, <1>2, <2>1
  <2>2. CASE j \in 1..Len(e)
    BY <1>1, <2>2 DEF InOrder
  <2> QED
    BY <1>1, <1>2, <2>1, <2>2
<1>4. InOrder(g, now, k)
  BY <1>1, <1>2, <1>3 DEF InOrder
<1> QED
  BY <1>4 DEF now

\* A delta that is polled moves from the queue to the client, in order.
LEMMA TakeInOrder ==
  ASSUME NEW g \in Seq(Int), NEW e \in Seq(Int), NEW k, InOrder(g, e, k), e # <<>>
  PROVE  InOrder(Append(g, Head(e)), Tail(e), k)
<1> DEFINE taken == Append(g, Head(e))
           left == Tail(e)
<1>1. Len(g) \in Nat /\ Len(e) \in Nat /\ Len(e) > 0 /\ Len(g) + Len(e) = k
  BY DEF InOrder
<1>2. Head(e) = Len(g) + 1
  BY <1>1 DEF InOrder
<1>3. /\ Len(taken) = Len(g) + 1 /\ taken[Len(g) + 1] = Len(g) + 1
      /\ \A i \in 1..Len(g) : taken[i] = g[i]
  BY <1>1, <1>2
<1>4. Len(left) = Len(e) - 1 /\ \A j \in 1..Len(left) : left[j] = e[j + 1]
  BY <1>1
<1> HIDE DEF taken, left
<1>5. \A i \in 1..Len(taken) : taken[i] = i
  BY <1>1, <1>3 DEF InOrder
<1>6. \A j \in 1..Len(left) : left[j] = Len(taken) + j
  BY <1>1, <1>3, <1>4 DEF InOrder
<1>7. InOrder(taken, left, k)
  BY <1>1, <1>3, <1>4, <1>5, <1>6 DEF InOrder
<1> QED
  BY <1>7 DEF taken, left

\* What the queue and the counter hold are numbers of chunks.
LEMMA ChunkTypes ==
  ASSUME TypeOK
  PROVE  sent \in Int /\ got \in Seq(Int) /\ events \in Seq(Int)
<1>1. sent \in 0..MaxChunks /\ got \in Seq(1..MaxChunks) /\ events \in Seq(1..MaxChunks)
  BY DEF TypeOK
<1>2. 1..MaxChunks \subseteq Int
  OBVIOUS
<1> QED
  BY <1>1, <1>2, StreamAssumption, SeqMonotonic

\* Nothing is lost between the server, the event queue and the client.
LEMMA CompleteKept ==
  ASSUME TypeOK, Cut, Complete, [Next]_vars
  PROVE  Complete'
<1>0. outcome # "cancelled" /\ outcome # "pending"
  BY DEF TypeOK, Outcomes
<1>1. CASE \E t \in Threads : RunCallback(t)
  BY <1>1, CallbackFrame DEF Complete, Delivered
<1>2. CASE Route \/ Respond \/ Created
  <2>1. UNCHANGED <<got, events>>
    BY <1>2 DEF Route, Respond, Created
  <2>2. client' \in {"routed", "start", "poll"}
    BY <1>2 DEF Route, Respond, Created
  <2> QED
    BY <1>2, <2>1, <2>2, ClientFrame DEF Complete, Delivered
<1>3. CASE Poll
  <2>1. client = "poll" /\ client' \in {"poll", "check"}
    BY <1>3 DEF Poll, At
  <2>2. \/ UNCHANGED <<got, events>>
        \/ events # <<>> /\ got' = Append(got, Head(events)) /\ events' = Tail(events)
    BY <1>3 DEF Poll
  <2>3. \A k : Delivered(k) => InOrder(got', events', k)
    BY <2>2, ChunkTypes, TakeInOrder DEF Delivered
  <2> QED
    BY <1>3, <2>1, <2>3, ClientFrame DEF Complete, Delivered
<1>4. CASE Done \/ Result \/ Leave
  <2>1. UNCHANGED <<got, events>>
    BY <1>4 DEF Done, Result, Leave
  <2>2. client' \in {"empty", "final", "result", "completed", "failed"} => future # "pending"
    BY <1>4 DEF Done, Result, Leave, At, Complete
  <2>3. client' \in {"final", "result"} /\ future = "full" => events = <<>>
    BY <1>4 DEF Done, Result, Leave, At, Complete, QueueEmpty
  <2>4. client' = "completed" => future = "full" /\ events = <<>>
    <3>1. SUFFICES ASSUME client' = "completed" PROVE future = "full" /\ events = <<>>
      OBVIOUS
    <3>2. client = "result" /\ future \in {"full", "partial"}
      BY <1>4, <3>1 DEF Done, Result, Leave, At
    <3>3. future # "partial"
      BY <3>2 DEF Complete, Cut, Through
    <3> QED
      BY <3>2, <3>3 DEF Complete
  <2> QED
    BY <1>4, <2>1, <2>2, <2>3, <2>4, ClientFrame DEF Complete, Delivered
<1>5. CASE TakeBack \/ Cancel \/ Drain \/ CancelDrained
  <2>1. UNCHANGED future
    BY <1>5 DEF TakeBack, Cancel, Drain, CancelDrained, futureVars
  <2>2. worker' = worker \/ (worker = "queued" /\ worker' = "taken")
    BY <1>5 DEF TakeBack, Cancel, Drain, CancelDrained, workerVars
  <2>3. cancelled => cancelled'
    BY <1>5 DEF TakeBack, Cancel, Drain, CancelDrained, Trip, tokenVars
  <2> QED
    BY <1>5, <2>1, <2>2, <2>3, CancelFrame DEF Complete, Delivered
<1>6. CASE CancelFuture \/ FailDrained
  <2>1. future' = future \/ (future = "pending" /\ future' \in {"cancelled", "error"})
    BY <1>6 DEF CancelFuture, FailDrained, Answer, futureVars
  <2>2. UNCHANGED <<worker, cancelled>>
    BY <1>6 DEF CancelFuture, FailDrained, workerVars, tokenVars
  <2> QED
    BY <1>6, <2>1, <2>2, CancelFrame DEF Complete, Delivered
<1>7. CASE Pop \/ Begin \/ Connect \/ SetCallback \/ CheckCancelled \/ Request
  <2>1. UNCHANGED <<events, sent, future>>
    BY <1>7 DEF Pop, Begin, Connect, SetCallback, CheckCancelled, Request, futureVars
  <2>2. worker \in {"queued", "begin", "connect", "arm", "armed", "request"}
    BY <1>7 DEF Pop, Begin, Connect, SetCallback, CheckCancelled, Request, Working
  <2>3. \/ /\ worker' \in {"begin", "connect", "arm", "armed", "request", "read", "disarm", "disconnect"}
           /\ UNCHANGED outcome
        \/ worker' = "leave" /\ outcome' = "aborted"
    BY <1>7 DEF Pop, Begin, Connect, SetCallback, CheckCancelled, Request, Working, Go
  <2> QED
    BY <1>7, <2>1, <2>2, <2>3, WorkerFrame DEF Complete, Delivered
<1>8. CASE Read
  <2>1. UNCHANGED <<events, future>> /\ worker = "read"
    BY <1>8 DEF Read, Working, futureVars
  <2>2. \/ worker' = "text" /\ sent' = sent + 1 /\ outcome' = outcome
        \/ worker' = "close" /\ sent' = sent /\ outcome' \in {outcome, "none", "error"}
    BY <1>8 DEF Read, Working, Go
  <2>3. Delivered(sent) /\ outcome = "none" /\ sent \in 0..MaxChunks
    BY <2>1 DEF Complete, TypeOK
  <2>4. CASE worker' = "text" /\ sent' = sent + 1 /\ outcome' = outcome
    <3>1. sent' > 0 /\ sent' - 1 = sent
      BY <2>3, <2>4, StreamAssumption
    <3> QED
      BY <1>8, <2>1, <2>3, <2>4, <3>1, WorkerFrame DEF Complete, Delivered
  <2>5. CASE worker' = "close" /\ sent' = sent /\ outcome' \in {outcome, "none", "error"}
    BY <1>8, <2>1, <2>3, <2>5, WorkerFrame DEF Complete, Delivered
  <2> QED
    BY <2>2, <2>4, <2>5
<1>9. CASE Emit
  <2>1. UNCHANGED <<future, sent, outcome>> /\ worker \in {"text", "emit", "put", "emitted"}
    BY <1>9 DEF Emit, Working, futureVars
  <2>2. outcome = "none" /\ future # "full" /\ future # "partial"
    BY <2>1 DEF Complete
  <2>3. CASE worker = "put"
    <3>1. worker' = "emitted" /\ events' = Append(events, sent)
      BY <1>9, <2>3 DEF Emit, Working, Go
    <3>2. InOrder(got, events', sent)
      BY <2>3, <3>1, ChunkTypes, PutInOrder DEF Complete, Delivered
    <3> QED
      BY <1>9, <2>1, <2>2, <3>1, <3>2, WorkerFrame DEF Complete, Delivered
  <2>4. CASE worker # "put"
    <3>1. /\ UNCHANGED events
          /\ \/ worker' = "close" /\ cancelled
             \/ worker = "text" /\ worker' = "emit"
             \/ worker = "emit" /\ worker' = "put"
             \/ worker = "emitted" /\ worker' = "read"
      BY <1>9, <2>4 DEF Emit, Working, Go
    <3> QED
      BY <1>9, <2>1, <2>2, <3>1, WorkerFrame DEF Complete, Delivered
  <2> QED
    BY <2>3, <2>4
<1>10. CASE ClearCallback \/ Disconnect \/ LeaveSlot
  <2>1. UNCHANGED <<events, sent, outcome, future>>
    BY <1>10 DEF ClearCallback, Disconnect, LeaveSlot, futureVars
  <2>2. \/ worker = "close" /\ worker' = "disconnected"
        \/ worker = "disarm" /\ worker' = "disconnect"
        \/ worker = "disconnected" /\ worker' = "finish"
        \/ worker = "disconnect" /\ worker' = "unopened"
        \/ worker = "leave" /\ worker' = "resolve"
    BY <1>10 DEF ClearCallback, Disconnect, LeaveSlot, Working, Go
  <2> QED
    BY <1>10, <2>1, <2>2, WorkerFrame DEF Complete, Delivered
<1>11. CASE Finish
  <2>1. UNCHANGED <<events, sent, future>> /\ worker' = "leave"
        /\ worker \in {"finish", "unopened"}
    BY <1>11 DEF Finish, Working, Go, futureVars
  <2>2. outcome' = "partial" => cancelled
    BY <1>11, <2>1 DEF Finish, CutShort, Complete
  <2>3. outcome' = "full" => worker = "finish" /\ ~cancelled
    <3>1. worker = "finish" => outcome \in {"none", "error"}
      BY DEF Complete
    <3>2. CASE worker = "finish"
      BY <1>11, <3>1, <3>2 DEF Finish, Working, CutShort
    <3>3. CASE worker = "unopened"
      BY <1>11, <3>3 DEF Finish, Working, CutShort
    <3> QED
      BY <2>1, <3>2, <3>3
  <2>4. outcome' = "full" => Delivered(sent)
    BY <2>3 DEF Complete
  <2>5. future # "full" /\ future # "partial"
    BY <2>1 DEF Complete
  <2>6. outcome' # "none"
    BY <1>11 DEF Finish, CutShort
  <2> QED
    BY <1>11, <2>1, <2>2, <2>4, <2>5, <2>6, WorkerFrame DEF Complete, Delivered
<1>12. CASE Resolve
  <2>1. UNCHANGED <<events, sent, outcome>> /\ worker = "resolve" /\ worker' = "over"
    BY <1>12 DEF Resolve, Working, Go
  <2>2. future' = future \/ (future = "pending" /\ future' = outcome)
    BY <1>12 DEF Resolve, Answer, futureVars
  <2> QED
    BY <1>0, <1>12, <2>1, <2>2, WorkerFrame DEF Complete, Delivered
<1>13. CASE UNCHANGED vars
  BY <1>13 DEF vars, clientVars, workerVars, tokenVars, futureVars, Complete, Delivered
<1> QED
  BY <1>1, <1>2, <1>3, <1>4, <1>5, <1>6, <1>7, <1>8, <1>9, <1>10, <1>11, <1>12, <1>13, StepKinds

----------------------------------------------------------------------------
\* Types

\* The variables of each thread have their types, in parts.
ClientTypes ==
  /\ client \in Clients /\ calls \in 0..2
  /\ canceller \in {"idle", "token", "token of the job taken", "future"}
  /\ closer \in {"idle", "token", "future", "over"}

WorkerTypes ==
  /\ worker \in Workers /\ outcome \in Outcomes /\ ended \in BOOLEAN
  /\ sent \in 0..MaxChunks
  /\ sock \in {"none", "open", "shut", "closed"}

ChunksTyped == got \in Seq(1..MaxChunks) /\ events \in Seq(1..MaxChunks)

FlagTypes ==
  /\ future \in {"pending", "cancelled"} \cup (Outcomes \ {"none"})
  /\ finalized \in BOOLEAN /\ logged \in BOOLEAN /\ cancelled \in BOOLEAN
  /\ callback \in BOOLEAN
  /\ aborting \subseteq Threads

\* What the counters of the bounded calls range over.
LEMMA ZeroToTwo == 0..2 = {0, 1, 2}
OBVIOUS

\* The variables of the client and of cancelling threads keep their types.
LEMMA ClientTypesKept ==
  ASSUME ClientTypes, [Next]_vars
  PROVE  ClientTypes'
<1>1. CASE \E t \in Threads : RunCallback(t)
  BY <1>1, CallbackFrame DEF ClientTypes
<1>2. CASE Route \/ Respond \/ Created \/ Poll \/ Done \/ Result \/ Leave
  <2>1. client' \in Clients
    BY <1>2 DEF Route, Respond, Created, Poll, Done, Result, Leave, ClientTypes, Clients
  <2>2. calls' = calls \/ calls' \in {1, 2}
    BY <1>2 DEF Route, Respond, Created, Poll, Done, Result, Leave
  <2>3. calls' \in 0..2
    <3>1. calls \in {0, 1, 2}
      BY ZeroToTwo DEF ClientTypes
    <3> QED
      BY <2>2, <3>1, ZeroToTwo
  <2>4. UNCHANGED <<canceller, closer>>
    BY <1>2, ClientFrame
  <2> QED
    BY <2>1, <2>3, <2>4 DEF ClientTypes
<1>3. CASE TakeBack \/ Cancel \/ CancelFuture
  <2>1. client' = client /\ closer' = closer
    BY <1>3 DEF TakeBack, Cancel, CancelFuture
  <2>2. canceller' \in {"idle", "token", "token of the job taken", "future"}
    BY <1>3 DEF TakeBack, Cancel, CancelFuture
  <2>3. calls' = calls \/ (calls > 0 /\ calls' = calls - 1)
    BY <1>3 DEF TakeBack, Cancel, CancelFuture
  <2>4. calls' \in 0..2
    <3>1. calls \in {0, 1, 2}
      BY ZeroToTwo DEF ClientTypes
    <3> QED
      BY <2>3, <3>1, ZeroToTwo
  <2> QED
    BY <2>1, <2>2, <2>4 DEF ClientTypes
<1>4. CASE Drain \/ CancelDrained \/ FailDrained
  BY <1>4 DEF Drain, CancelDrained, FailDrained, clientVars, ClientTypes
<1>5. CASE \/ Pop \/ Begin \/ Connect \/ SetCallback \/ CheckCancelled \/ Request \/ Read \/ Emit
           \/ ClearCallback \/ Disconnect \/ Finish \/ LeaveSlot \/ Resolve
  BY <1>5, WorkerFrame DEF ClientTypes
<1>6. CASE UNCHANGED vars
  BY <1>6 DEF vars, clientVars, ClientTypes
<1> QED
  BY <1>1, <1>2, <1>3, <1>4, <1>5, <1>6, StepKinds

\* The variables of the worker keep their types.
LEMMA WorkerTypesKept ==
  ASSUME WorkerTypes, [Next]_vars
  PROVE  WorkerTypes'
<1>1. CASE \E t \in Threads : RunCallback(t)
  BY <1>1, CallbackFrame DEF WorkerTypes
<1>2. CASE Route \/ Respond \/ Created \/ Poll \/ Done \/ Result \/ Leave
  BY <1>2, ClientFrame DEF WorkerTypes
<1>3. CASE TakeBack \/ Cancel \/ CancelFuture \/ Drain \/ CancelDrained \/ FailDrained
  <2>1. worker' \in {worker, "taken"}
    BY <1>3 DEF TakeBack, Cancel, CancelFuture, Drain, CancelDrained, FailDrained, workerVars
  <2> QED
    BY <1>3, <2>1, CancelFrame DEF WorkerTypes, Workers
<1>4. CASE \/ Pop \/ Begin \/ Connect \/ SetCallback \/ CheckCancelled \/ Request \/ Read \/ Emit
           \/ ClearCallback \/ Disconnect \/ Finish \/ LeaveSlot \/ Resolve
  <2>1. worker' \in Workers
    BY <1>4 DEF Pop, Begin, Connect, SetCallback, CheckCancelled, Request, Read, Emit,
                ClearCallback, Disconnect, Finish, LeaveSlot, Resolve, Go, Workers
  <2>2. outcome' \in Outcomes
    BY <1>4 DEF Pop, Begin, Connect, SetCallback, CheckCancelled, Request, Read, Emit,
                ClearCallback, Disconnect, Finish, LeaveSlot, Resolve, CutShort, WorkerTypes, Outcomes
  <2>3. ended' = ended \/ ended' = TRUE
    BY <1>4 DEF Pop, Begin, Connect, SetCallback, CheckCancelled, Request, Read, Emit,
                ClearCallback, Disconnect, Finish, LeaveSlot, Resolve
  <2>4. sent' = sent \/ (sent < MaxChunks /\ sent' = sent + 1)
    BY <1>4 DEF Pop, Begin, Connect, SetCallback, CheckCancelled, Request, Read, Emit,
                ClearCallback, Disconnect, Finish, LeaveSlot, Resolve
  <2>5. sock' \in {sock, "none", "open", "closed"}
    BY <1>4 DEF Pop, Begin, Connect, SetCallback, CheckCancelled, Request, Read, Emit,
                ClearCallback, Disconnect, Finish, LeaveSlot, Resolve
  <2>6. sent' \in 0..MaxChunks
    BY <2>4, StreamAssumption DEF WorkerTypes
  <2> QED
    BY <2>1, <2>2, <2>3, <2>5, <2>6 DEF WorkerTypes
<1>5. CASE UNCHANGED vars
  BY <1>5 DEF vars, workerVars, WorkerTypes
<1> QED
  BY <1>1, <1>2, <1>3, <1>4, <1>5, StepKinds

\* Chunks are numbered within the bound.
LEMMA ChunksKept ==
  ASSUME ChunksTyped, WorkerTypes, Complete, [Next]_vars
  PROVE  ChunksTyped'
<1>1. CASE Poll
  <2>1. \/ UNCHANGED <<got, events>>
        \/ events # <<>> /\ got' = Append(got, Head(events)) /\ events' = Tail(events)
    BY <1>1 DEF Poll
  <2>2. CASE UNCHANGED <<got, events>>
    BY <2>2 DEF ChunksTyped
  <2>3. CASE events # <<>> /\ got' = Append(got, Head(events)) /\ events' = Tail(events)
    <3> DEFINE S == 1..MaxChunks
    <3>1. got \in Seq(S) /\ events \in Seq(S)
      BY DEF ChunksTyped
    <3> HIDE DEF S
    <3>2. Head(events) \in S /\ Tail(events) \in Seq(S)
      BY <2>3, <3>1, HeadTailProperties
    <3>3. got' \in Seq(S) /\ events' \in Seq(S)
      BY <2>3, <3>1, <3>2, AppendProperties
    <3> QED
      BY <3>3 DEF S, ChunksTyped
  <2> QED
    BY <2>1, <2>2, <2>3
<1>2. CASE Emit
  <2>1. UNCHANGED got
    BY <1>2, WorkerFrame
  <2>2. events' = events \/ (worker = "put" /\ events' = Append(events, sent))
    BY <1>2 DEF Emit, Working
  <2>3. worker = "put" => sent \in 1..MaxChunks
    BY StreamAssumption DEF Complete, WorkerTypes
  <2>4. events' \in Seq(1..MaxChunks)
    <3> DEFINE S == 1..MaxChunks
    <3>1. events \in Seq(S) /\ (worker = "put" => sent \in S)
      BY <2>3 DEF ChunksTyped
    <3> HIDE DEF S
    <3>2. events' \in Seq(S)
      BY <2>2, <3>1, AppendProperties
    <3> QED
      BY <3>2 DEF S
  <2> QED
    BY <2>1, <2>4 DEF ChunksTyped
<1>3. CASE \/ \E t \in Threads : RunCallback(t)
           \/ Route \/ Respond \/ Created \/ Done \/ Result \/ Leave
           \/ TakeBack \/ Cancel \/ CancelFuture \/ Drain \/ CancelDrained \/ FailDrained
           \/ Pop \/ Begin \/ Connect \/ SetCallback \/ CheckCancelled \/ Request \/ Read
           \/ ClearCallback \/ Disconnect \/ Finish \/ LeaveSlot \/ Resolve
           \/ UNCHANGED vars
  <2>1. CASE \E t \in Threads : RunCallback(t)
    BY <2>1, CallbackFrame DEF ChunksTyped
  <2>2. CASE Route \/ Respond \/ Created \/ Done \/ Result \/ Leave
    BY <2>2 DEF Route, Respond, Created, Done, Result, Leave, ChunksTyped
  <2>3. CASE TakeBack \/ Cancel \/ CancelFuture \/ Drain \/ CancelDrained \/ FailDrained
    BY <2>3, CancelFrame DEF ChunksTyped
  <2>4. CASE \/ Pop \/ Begin \/ Connect \/ SetCallback \/ CheckCancelled \/ Request \/ Read
             \/ ClearCallback \/ Disconnect \/ Finish \/ LeaveSlot \/ Resolve
    <3>1. UNCHANGED events
      BY <2>4 DEF Pop, Begin, Connect, SetCallback, CheckCancelled, Request, Read,
                  ClearCallback, Disconnect, Finish, LeaveSlot, Resolve
    <3> QED
      BY <2>4, <3>1, WorkerFrame DEF ChunksTyped
  <2>5. CASE UNCHANGED vars
    BY <2>5 DEF vars, clientVars, ChunksTyped
  <2> QED
    BY <1>3, <2>1, <2>2, <2>3, <2>4, <2>5
<1> QED
  BY <1>1, <1>2, <1>3, StepKinds

\* The flags keep their types.
LEMMA FlagTypesKept ==
  ASSUME FlagTypes, WorkerTypes, Complete, [Next]_vars
  PROVE  FlagTypes'
<1>1. ASSUME NEW t \in Threads, RunCallback(t) PROVE FlagTypes'
  <2>1. finalized' \in {finalized, TRUE} /\ logged' \in {logged, TRUE}
    BY <1>1 DEF RunCallback, Release, SetFinalized, Log, Abort, finalVars
  <2>2. aborting' \in {aborting, aborting \ {t}}
    BY <1>1 DEF RunCallback, Release, SetFinalized, Log, Abort, CallbackOnly, tokenVars
  <2> QED
    BY <1>1, <2>1, <2>2, CallbackFrame DEF FlagTypes
<1>2. CASE Route \/ Respond \/ Created \/ Poll \/ Done \/ Result \/ Leave
  BY <1>2 DEF Route, Respond, Created, Poll, Done, Result, Leave, Register, ClientOnly, finalVars,
              tokenVars, futureVars, FlagTypes
<1>3. CASE TakeBack \/ Drain
  BY <1>3 DEF TakeBack, Drain, finalVars, tokenVars, futureVars, FlagTypes
<1>4. CASE Cancel \/ CancelDrained
  <2>1. UNCHANGED <<future, finalized, logged>>
    BY <1>4 DEF Cancel, CancelDrained, finalVars, futureVars
  <2>2. PICK t \in Threads : Trip(t)
    BY <1>4 DEF Cancel, CancelDrained, Threads
  <2> QED
    BY <2>1, <2>2 DEF Trip, FlagTypes
<1>5. CASE CancelFuture \/ FailDrained
  <2>1. future' \in {future, "cancelled", "error"} /\ UNCHANGED <<finalVars, tokenVars>>
    BY <1>5 DEF CancelFuture, FailDrained, Answer, futureVars
  <2> QED
    BY <2>1 DEF finalVars, tokenVars, FlagTypes, Outcomes
<1>6. CASE \/ Pop \/ Begin \/ Connect \/ CheckCancelled \/ Request \/ Read
           \/ Emit \/ Disconnect \/ Finish \/ LeaveSlot
  BY <1>6 DEF Pop, Begin, Connect, CheckCancelled, Request, Read, Emit, Disconnect, Finish, LeaveSlot,
              WorkerOnly, finalVars, tokenVars, futureVars, FlagTypes
<1>7. CASE SetCallback \/ ClearCallback
  BY <1>7 DEF SetCallback, ClearCallback, Cleared, Threads, WorkerOnly, finalVars, futureVars, FlagTypes
<1>8. CASE Resolve
  <2>1. future' \in {future, outcome} /\ UNCHANGED <<finalVars, tokenVars>>
    BY <1>8 DEF Resolve, Answer, WorkerOnly, futureVars
  <2>2. outcome \in Outcomes \ {"none"}
    BY <1>8 DEF Resolve, Working, WorkerTypes, Complete
  <2> QED
    BY <2>1, <2>2 DEF finalVars, tokenVars, FlagTypes
<1>9. CASE UNCHANGED vars
  BY <1>9 DEF vars, finalVars, tokenVars, futureVars, FlagTypes
<1> QED
  BY <1>1, <1>2, <1>3, <1>4, <1>5, <1>6, <1>7, <1>8, <1>9, StepKinds

\* The type invariant, by the threads that write the variables.
LEMMA TypesInParts ==
  TypeOK <=> /\ ClientTypes /\ WorkerTypes /\ ChunksTyped /\ FlagTypes
             /\ callbacks \in Seq(Callbacks) /\ todo \in [Threads -> Seq(Callbacks)]
             /\ released \in Nat
BY DEF TypeOK, ClientTypes, WorkerTypes, ChunksTyped, FlagTypes

\* The lists of callbacks are lists of callbacks.
LEMMA ListsTyped ==
  ASSUME Counted
  PROVE  /\ callbacks \in Seq(Callbacks) /\ todo \in [Threads -> Seq(Callbacks)]
         /\ released \in Nat
<1>1. \A l \in Lists : l \in Seq(Callbacks)
  <2>1. <<>> \in Seq(Callbacks)
    OBVIOUS
  <2>2. <<"finalize">> \in Seq(Callbacks) /\ <<"set">> \in Seq(Callbacks) /\ <<"log">> \in Seq(Callbacks)
    BY DEF Callbacks
  <2>3. <<"finalize", "log">> \in Seq(Callbacks)
    BY DEF Callbacks
  <2>4. <<"set", "log">> \in Seq(Callbacks)
    BY DEF Callbacks
  <2> QED
    BY <2>1, <2>2, <2>3, <2>4 DEF Lists
<1>2. callbacks \in Lists /\ todo \in [Threads -> Lists]
  BY DEF Counted, Lists
<1>3. released \in Nat
  BY DEF Counted
<1> QED
  BY <1>1, <1>2, <1>3

----------------------------------------------------------------------------
\* Every response

\* What the parts of a response rely on in every interleaving: types, one release, a
\* closed connection, who has cut the stream, and where each chunk is.
THEOREM StreamInvariance == Spec => []StreamInv
<1>1. Init => StreamInv
  <2> SUFFICES ASSUME Init PROVE StreamInv
    OBVIOUS
  <2>1. Counted
    BY DEF Init, Counted, Lists, Owes, Threads
  <2>2. Closed /\ Cut
    BY DEF Init, Closed, Cut
  <2>3. Complete
    BY DEF Init, Complete, Delivered, InOrder
  <2>4. ClientTypes
    BY DEF Init, ClientTypes, Clients
  <2>5. FlagTypes
    BY DEF Init, FlagTypes
  <2>6. WorkerTypes
    <3>1. 0 \in 0..MaxChunks
      BY StreamAssumption
    <3> QED
      BY <3>1 DEF Init, WorkerTypes, Workers, Outcomes
  <2>7. ChunksTyped
    BY DEF Init, ChunksTyped
  <2> QED
    BY <2>1, <2>2, <2>3, <2>4, <2>5, <2>6, <2>7, TypesInParts, ListsTyped DEF StreamInv
<1>2. StreamInv /\ [Next]_vars => StreamInv'
  <2> SUFFICES ASSUME StreamInv, [Next]_vars PROVE StreamInv'
    OBVIOUS
  <2>1. TypeOK /\ Counted /\ Closed /\ Cut /\ Complete
    BY DEF StreamInv
  <2>2. Counted' /\ Closed' /\ Cut' /\ Complete'
    BY <2>1, CountedKept, ClosedKept, CutKept, CompleteKept
  <2>3. ClientTypes' /\ WorkerTypes' /\ ChunksTyped' /\ FlagTypes'
    BY <2>1, TypesInParts, ClientTypesKept, WorkerTypesKept, ChunksKept, FlagTypesKept
  <2>4. Counted' => (callbacks \in Seq(Callbacks) /\ todo \in [Threads -> Seq(Callbacks)]
                     /\ released \in Nat)'
    BY ListsTyped, PTL
  <2>5. TypeOK'
    BY <2>2, <2>3, <2>4, TypesInParts, PTL
  <2> QED
    BY <2>2, <2>5 DEF StreamInv
<1> QED
  BY <1>1, <1>2, PTL DEF Spec

\* A client that is told response.completed has had every chunk of a stream that the
\* server has finished, once and in order.
THEOREM CompletedResponsesAreWhole == Spec => []CompletedMeansAll
<1>1. StreamInv => CompletedMeansAll
  <2> SUFFICES ASSUME StreamInv, client = "completed"
               PROVE  future = "full" /\ got = [i \in 1..sent |-> i]
    BY DEF CompletedMeansAll
  <2>1. future = "full" /\ events = <<>> /\ Delivered(sent)
    BY DEF StreamInv, Complete
  <2>2. got \in Seq(1..MaxChunks)
    BY DEF StreamInv, TypeOK
  <2>3. Len(got) = sent /\ \A i \in 1..Len(got) : got[i] = i
    BY <2>1, <2>2 DEF Delivered, InOrder
  <2>4. got = [i \in 1..Len(got) |-> got[i]]
    BY <2>2
  <2> QED
    BY <2>1, <2>3, <2>4
<1> QED
  BY <1>1, StreamInvariance, PTL

\* The router counts a request down once, not before its future is done and before its
\* client is told so.
THEOREM RequestIsReleasedOnce == Spec => []ReleasedOnce
<1>1. StreamInv => ReleasedOnce
  BY DEF StreamInv, Counted, ReleasedOnce, Answered
<1> QED
  BY <1>1, StreamInvariance, PTL

\* A worker that gives back its slot leaves neither a connection nor a callback.
THEOREM ConnectionIsClosed == Spec => []NothingLeftOpen
<1>1. StreamInv => NothingLeftOpen
  BY DEF StreamInv, Closed, NothingLeftOpen
<1> QED
  BY <1>1, StreamInvariance, PTL

============================================================================

------------------------------ MODULE Backend -------------------------------
(***************************************************************************)
(* The backends that forward requests over HTTP, with the calls that run   *)
(* on them.  Four of them own a server process (ServeProcess); the fifth,  *)
(* openai_remote, talks to a service elsewhere and may upload the files of *)
(* a request there, read back their text and delete them again before it   *)
(* asks for the completion.  A call is the thread of one request inside    *)
(* complete of the engine.                                                 *)
(***************************************************************************)
EXTENDS ServeProcess, Replies, FiniteSets

CONSTANTS
    Calls,         \* the requests
    MaxFiles,      \* files of a request, at most
    Backends,      \* the assignments of backends to runtimes that are looked at
    Served         \* which runtime requests are sent to: pairs of an assignment and it

VARIABLES
    call,          \* the calls
    stored         \* what has become of each file upstream

callVars == <<call, stored>>

vars == <<backend, procVars, callVars>>

Files == 1..MaxFiles

Nobody == 0

NoCall == [phase |-> "idle", on |-> Nobody, files |-> 0, file |-> 1, thinking |-> FALSE,
           server |-> Nobody, failure |-> Text("none"), outcome |-> Text("none"),
           cause |-> "none"]

Outcomes == [status : {200, 400, 429, 500, 502, 504}, code : STRING, text : {"text", "", "none"}]

\* stored: "absent", "held" (there, and the call knows its name), "lost" (there,
\* but the call never learned its name), "kept" (its deletion failed) or "gone".
TypeOK ==
    /\ backend \in [Runtimes -> ServeBackends \cup {"openai_remote", "unused"}]
    /\ ProcTypeOK
    /\ stored \in [Calls -> [Files -> {"absent", "held", "lost", "kept", "gone"}]]
    /\ \A c \in Calls :
        /\ DOMAIN call[c] = DOMAIN NoCall
        /\ call[c].phase \in {"idle", "upload", "fetch", "delete", "post", "waiting", "done"}
        /\ call[c].on \in Runtimes \cup {Nobody}
        /\ call[c].server \in Runtimes \cup {Nobody}
        /\ call[c].files \in 0..MaxFiles /\ call[c].file \in 1..MaxFiles + 1
        /\ call[c].outcome \in Outcomes /\ call[c].failure \in Outcomes

Init ==
    /\ backend \in Backends
    /\ ProcInit
    /\ call = [c \in Calls |-> NoCall]
    /\ stored = [c \in Calls |-> [f \in Files |-> "absent"]]

Update(c, fields) ==
    call' = [call EXCEPT ![c] = [x \in DOMAIN @ |-> IF x \in DOMAIN fields THEN fields[x] ELSE @[x]]]

\* The call returns or raises; its locals are dead.
EndCall(c, outcome, cause) ==
    call' = [call EXCEPT ![c] = [NoCall EXCEPT !.phase = "done", !.on = call[c].on,
                                 !.outcome = outcome, !.cause = cause]]

\* Was it a dropped connection that failed the call?
Cause(reply) ==
    IF reply.how = "broken" /\ reply.why = "dropped" THEN "dropped" ELSE "upstream"

SetFile(c, fate) == stored' = [stored EXCEPT ![c][call[c].file] = fate]

-----------------------------------------------------------------------------
(* openai_remote: activation, which needs no process, and files.           *)

Activate(r) ==
    /\ backend[r] = "openai_remote"
    /\ phase[r] = "absent"
    /\ Goto(r, "ready")
    /\ UNCHANGED <<port, leader, workers, listening, sent, wasRunning, log, config>>
    /\ UNCHANGED callVars

\* Only a model whose remote_file_mode is files_extract has files to extract.
Call(c, r) ==
    /\ <<backend, r>> \in Served
    /\ call[c].phase = "idle"
    /\ phase[r] = "ready"
    /\ \E n \in IF backend[r] = "openai_remote" THEN 0..MaxFiles ELSE {0},
          t \in IF backend[r] = "vllm_serve" THEN BOOLEAN ELSE {FALSE} :
            Update(c, [phase |-> IF n = 0 THEN "post" ELSE "upload", on |-> r,
                       files |-> n, thinking |-> t])
    /\ UNCHANGED stored

\* _decode_file_data refuses the file.
FileRefused(c) ==
    /\ call[c].phase = "upload"
    /\ EndCall(c, Failure(400, "invalid_file_input"), "client")
    /\ UNCHANGED stored

Uploaded(c) ==
    /\ call[c].phase = "upload"
    /\ Update(c, [phase |-> "fetch"])
    /\ SetFile(c, "held")

\* The upload fails, or its answer does not arrive or has no id: the service may
\* have stored the file all the same. The 500 of _api_key is left out, here and in
\* the other requests: the key is looked up when the model is loaded, in an
\* environment that nothing takes variables out of.
UploadFails(c) ==
    /\ call[c].phase = "upload"
    /\ \E reply \in Replies : EndCall(c, RequestFailure(reply), Cause(reply))
    /\ \/ UNCHANGED stored
       \/ SetFile(c, "lost")

Fetched(c) ==
    /\ call[c].phase = "fetch"
    /\ Update(c, [phase |-> "delete"])
    /\ UNCHANGED stored

\* Variant: the deletion is not in a finally.
FetchFails_Raises(c) ==
    /\ call[c].phase = "fetch"
    /\ \E reply \in Replies : EndCall(c, RequestFailure(reply), Cause(reply))
    /\ UNCHANGED stored

\* The exception waits for the finally.
FetchFails(c) ==
    /\ call[c].phase = "fetch"
    /\ \E reply \in Replies :
          Update(c, [phase |-> "delete", failure |-> RequestFailure(reply), cause |-> Cause(reply)])
    /\ UNCHANGED stored

\* After the file: the next one, the completion, or the exception of the fetch.
AfterFile(c) ==
    IF call[c].failure # NoCall.failure
    THEN EndCall(c, call[c].failure, call[c].cause)
    ELSE Update(c, [phase |-> IF call[c].file < call[c].files THEN "upload" ELSE "post",
                    file |-> call[c].file + 1])

Deleted(c) ==
    /\ call[c].phase = "delete"
    /\ SetFile(c, "gone")
    /\ AfterFile(c)

\* _delete_file_best_effort takes the failures that _request_bytes maps; a
\* connection that is dropped is none of them and ends the call.  Either way the
\* file may have been deleted.
DeleteFails(c) ==
    /\ call[c].phase = "delete"
    /\ \E fate \in {"kept", "gone"} : SetFile(c, fate)
    /\ \E reply \in {x \in Replies : x.how # "body"} :
          IF RequestFailure(reply) = Unmapped
          THEN EndCall(c, Unmapped, Cause(reply)) ELSE AfterFile(c)

-----------------------------------------------------------------------------
(* The completion: _post_json and _extract_text. *)

\* The server a request on runtime r reaches: whoever listens on its port.
ServerOf(r) == {s \in Runtimes : listening[s] /\ port[s] = port[r]}

Connect(c) ==
    /\ call[c].phase = "post"
    /\ LET r == call[c].on
       IN  IF backend[r] = "openai_remote"
           THEN Update(c, [phase |-> "waiting"])
           ELSE \E s \in ServerOf(r) : Update(c, [phase |-> "waiting", server |-> s])
    /\ UNCHANGED stored

Complete(c, reply) ==
    LET o == Outcome(backend[call[c].on], reply, call[c].thinking)
    IN  EndCall(c, o, Cause(reply))

ConnectFails(c) ==
    /\ call[c].phase = "post"
    /\ backend[call[c].on] # "openai_remote" => ServerOf(call[c].on) = {}
    /\ \E reply \in {x \in Replies : x.how = "broken" /\ x.why # "dropped"} : Complete(c, reply)
    /\ UNCHANGED stored

\* A server answers while it runs; when it dies the connection goes with it.
Reply(c) ==
    /\ call[c].phase = "waiting"
    /\ \E reply \in Replies :
        /\ reply.how = "broken" => reply.why # "refused"
        /\ \/ call[c].server = Nobody
           \/ call[c].server # Nobody /\ leader[call[c].server] = "up"
              /\ (reply.how = "broken" => reply.why = "timeout")
           \/ call[c].server # Nobody /\ leader[call[c].server] # "up" /\ reply.how = "broken"
        /\ Complete(c, reply)
    /\ UNCHANGED stored

CallStep(c) ==
    \/ FileRefused(c) \/ Uploaded(c) \/ UploadFails(c) \/ Fetched(c) \/ FetchFails(c)
    \/ Deleted(c) \/ DeleteFails(c) \/ Connect(c) \/ ConnectFails(c) \/ Reply(c)

CallNext ==
    \E c \in Calls : CallStep(c) \/ \E r \in Runtimes : Call(c, r)

Next ==
    /\ UNCHANGED backend
    /\ \/ ProcNext /\ UNCHANGED callVars
       \/ \E r \in Runtimes : Activate(r)
       \/ CallNext /\ UNCHANGED procVars

Spec == Init /\ [][Next]_vars

\* A thread that builds or closes a runtime, and one that serves a call, go on:
\* every wait of theirs has a timeout.  The loop that waits for a server looks at
\* its deadline in every round, so it cannot go round for ever.  Nothing is assumed
\* of the processes, or of those who ask for a load, an unload or a completion.
Fairness ==
    /\ \A r \in Runtimes :
        /\ WF_vars(UNCHANGED <<backend, callVars>> /\ Thread(r))
        /\ SF_vars(UNCHANGED <<backend, callVars>> /\ StartTimesOut(r))
    /\ \A c \in Calls : WF_vars(UNCHANGED <<backend, procVars>> /\ CallStep(c))

FairSpec == Spec /\ Fairness

-----------------------------------------------------------------------------
(* Files do not pile up upstream: when a call is over, however it ended,   *)
(* every file it uploaded and knows the name of was deleted, or at least   *)
(* its deletion was tried; and while it runs it keeps one file at a time.  *)
FilesSettled ==
    \A c \in Calls :
        LET held == {f \in Files : stored[c][f] = "held"}
        IN  /\ Cardinality(held) <= 1
            /\ call[c].phase = "done" => held = {}

(* A fault upstream is never put down to the client, and never passes for  *)
(* an answer: a call ends with a text, or with the client's own mistake    *)
(* (a file that cannot be decoded), or with the remote service's rate      *)
(* limit, or with a gateway error.  A bare HTTP 500 comes from dropped     *)
(* connections only, which no backend maps: that they should be mapped is  *)
(* not claimed.  One rule for five copies of a mapping.                    *)
FaultsAreUpstreams ==
    \A c \in Calls : call[c].phase = "done" =>
        LET o == call[c].outcome
        IN  CASE o.status = 200 -> o.text \in {"text", ""}
              [] o.status = 400 -> call[c].cause = "client"
              [] o.status = 429 -> backend[call[c].on] = "openai_remote"
              [] o.status = 500 -> o.code = "unmapped" /\ call[c].cause = "dropped"
              [] OTHER          -> o.status \in {502, 504}

(* Everything that begins ends: a start in a runtime or in a closed one,   *)
(* a close, though the processes ignore every signal, and a call, though   *)
(* the server never answers.                                               *)
EverythingEnds ==
    /\ \A r \in Runtimes : phase[r] = "prepared" ~> phase[r] \in {"ready", "closed"}
    /\ \A r \in Runtimes : phase[r] = "closing" ~> phase[r] = "closed"
    /\ \A c \in Calls : call[c].phase \in {"upload", "post"} ~> call[c].phase = "done"
=============================================================================

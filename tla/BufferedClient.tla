--------------------------- MODULE BufferedClient ---------------------------
(* original-rust/src/clients/buffered_client.rs: callers that share one       *)
(* connection through a bounded tokio channel and a task, the calls of a      *)
(* Client (client.rs) that the task makes, and the server's end of the        *)
(* connection.  effect is a history variable; the other variables of          *)
(* StoreCalls are what the callers, the server and the socket have.           *)
EXTENDS StoreCalls

CONSTANTS Callers,
          Capacity   \* of the channel: 32

VARIABLES call,      \* the call each caller is in, or 0
          handles,   \* the callers that have not dropped their BufferedClient
          senders,   \* the callers in tx.send, in the order they came
          queue,     \* the calls in the channel
          task,      \* "recv", "writing", "reading" or "ended"
          current,   \* the call the task makes
          requests,  \* the calls whose frames the server has not read
          answers    \* the frames the client has not read

clientVars == <<call, handles, senders, queue, task, current, requests, answers>>
bufferedVars == <<storeVars, clientVars>>

InitBuffered == /\ Init
                /\ call = [c \in Callers |-> 0]
                /\ handles = Callers
                /\ senders = <<>>
                /\ queue = <<>>
                /\ task = "recv" /\ current = 0
                /\ requests = <<>> /\ answers = <<>>

\* get and set: the request and a oneshot, and tx.send starts.
CallMethod(c, cmd) ==
    /\ c \in handles /\ call[c] = 0
    /\ Make(cmd)
    /\ call' = [call EXCEPT ![c] = made']
    /\ senders' = Append(senders, c)
    /\ UNCHANGED <<handles, queue, task, current, requests, answers>>

\* The places that are free are given to the senders in turn; those that have
\* one put their message there in any order.
Enqueue(c) ==
    /\ \E i \in DOMAIN senders : senders[i] = c /\ i <= Capacity - Len(queue)
    /\ senders' = RemoveFirst(senders, c)
    /\ queue' = Append(queue, call[c])
    /\ UNCHANGED <<storeVars, call, handles, task, current, requests, answers>>

\* The caller drops the future of its call: what it has not sent is lost, what
\* it has sent stays in the channel.
Abandon(c) ==
    /\ call[c] # 0
    /\ GiveUp(call[c])
    /\ call' = [call EXCEPT ![c] = 0]
    /\ senders' = RemoveFirst(senders, c)
    /\ UNCHANGED <<handles, queue, task, current, requests, answers>>

DropHandle(c) ==
    /\ c \in handles /\ call[c] = 0
    /\ handles' = handles \ {c}
    /\ UNCHANGED <<storeVars, call, senders, queue, task, current, requests, answers>>

Receive ==
    /\ task = "recv" /\ queue # <<>>
    /\ current' = Head(queue)
    /\ queue' = Tail(queue)
    /\ task' = "writing"
    /\ UNCHANGED <<storeVars, call, handles, senders, requests, answers>>

\* recv returns None, and the client is dropped.
TaskEnds ==
    /\ task = "recv" /\ queue = <<>> /\ handles = {}
    /\ task' = "ended"
    /\ UNCHANGED <<storeVars, call, handles, senders, queue, current, requests, answers>>

\* write_frame, in Client::get and set_cmd; the socket takes it even if the
\* server is not going to read it.
WriteRequest ==
    /\ task = "writing"
    /\ requests' = Append(requests, current)
    /\ task' = "reading"
    /\ UNCHANGED <<storeVars, call, handles, senders, queue, current, answers>>

\* tx.send(response): an error if the caller is gone, which is ignored.
Respond(result) ==
    /\ task' = "recv"
    /\ IF outcome[current] = GivenUp
       THEN UNCHANGED <<outcome, call>>
       ELSE /\ outcome' = [outcome EXCEPT ![current] = result]
            /\ call' = [c \in Callers |-> IF call[c] = current THEN 0 ELSE call[c]]
    /\ UNCHANGED <<made, request, effect, store, open, handles, senders, queue,
                   current, requests>>

WriteFails ==
    /\ task = "writing" /\ ~open
    /\ Respond(Failed)
    /\ UNCHANGED answers

\* read_response; the first does not wait when nobody wants the answer.
ReadIfWanted ==
    /\ task = "reading"
    /\ IF outcome[current] = GivenUp
       THEN Respond(Failed) /\ UNCHANGED answers
       ELSE /\ answers # <<>>
            /\ Respond(Result(request[current], Head(answers)))
            /\ answers' = Tail(answers)
ReadAnswer ==
    /\ task = "reading" /\ answers # <<>>
    /\ Respond(Result(request[current], Head(answers)))
    /\ answers' = Tail(answers)

\* The connection is reset or at its end; the first reads again.
ReadsAgain ==
    /\ task = "reading" /\ answers = <<>> /\ ~open
    /\ UNCHANGED bufferedVars
ReadFails ==
    /\ task = "reading" /\ answers = <<>> /\ ~open
    /\ Respond(Failed)
    /\ UNCHANGED answers

\* The server applies a command and writes its answer.
ServerApplies ==
    /\ open /\ requests # <<>>
    /\ LET id == Head(requests)
       IN  \E answer \in Answers("rust", request[id], store, 0) :
              /\ answers' = Append(answers, answer)
              /\ effect' = [effect EXCEPT ![id] = {Result(request[id], answer)}]
              /\ store' = Stored(request[id], store)
    /\ requests' = Tail(requests)
    /\ UNCHANGED <<made, request, outcome, open, call, handles, senders, queue,
                   task, current>>

\* The server, or the network, ends the connection; answers may be lost.
ServerCloses ==
    /\ Close
    /\ answers' \in {answers, <<>>}
    /\ UNCHANGED <<call, handles, senders, queue, task, current, requests>>

Task == Receive \/ TaskEnds \/ WriteRequest \/ WriteFails \/ ReadAnswer \/ ReadFails

NextBuffered == \/ \E c \in Callers : \/ \E cmd \in Requests : CallMethod(c, cmd)
                                      \/ Enqueue(c) \/ Abandon(c) \/ DropHandle(c)
                \/ Task
                \/ ServerApplies \/ ServerCloses

\* The runtimes poll the task, the senders that have a place and the server's
\* handler.
SpecBuffered == /\ InitBuffered /\ [][NextBuffered]_bufferedVars
                /\ WF_bufferedVars(Task)
                /\ \A c \in Callers : WF_bufferedVars(Enqueue(c))
                /\ WF_bufferedVars(ServerApplies)

-----------------------------------------------------------------------------
\* A call gets the answer to its own request and no other, as of a moment
\* before it returned, although others share the connection, give up at any
\* time and leave their requests and answers behind (buffered_client.rs:26-43,
\* 83-119).
ImplementsCalls == Spec

\* Every call returns, unless its caller gives it up, however many wait for a
\* place in the channel and also after the connection has ended
\* (buffered_client.rs:91, 104, 112).
CallsReturn ==
    \A id \in Calls : (id <= made) ~> (outcome[id] # NotYet)
=============================================================================

----------------------------- MODULE StoreCalls -----------------------------
(* What a BufferedClient promises to the tasks that share it: every call gets *)
(* what the store answers to it, as if it had been made on the store at some  *)
(* moment before it returned, and an error only once the connection has ended.*)
EXTENDS Commands

CONSTANTS MaxCalls,   \* bound on the calls made
          Requests,   \* the commands callers make
          NotYet,     \* no outcome
          GivenUp     \* the outcome if the caller no longer waits

ASSUME StoreCallsAssumption == MaxCalls \in Nat

Calls == 1..MaxCalls

VARIABLES made,     \* how many calls were made
          request,  \* the command of each
          effect,   \* what the store answered it, a set of at most one result
          outcome,  \* what the caller was given
          store,
          open      \* the connection

storeVars == <<made, request, effect, outcome, store, open>>

Init == /\ made = 0
        /\ request = [id \in Calls |-> NotYet]
        /\ effect = [id \in Calls |-> {}]
        /\ outcome = [id \in Calls |-> NotYet]
        /\ store = <<>>
        /\ open = TRUE

Make(cmd) ==
    /\ made < MaxCalls
    /\ made' = made + 1
    /\ request' = [request EXCEPT ![made'] = cmd]
    /\ UNCHANGED <<effect, outcome, store, open>>

\* Also when nobody waits for it any more.
TakeEffect(id) ==
    /\ open
    /\ id <= made /\ effect[id] = {}
    /\ outcome[id] \in {NotYet, GivenUp}
    /\ \E answer \in Answers("rust", request[id], store, 0) :
          effect' = [effect EXCEPT ![id] = {Result(request[id], answer)}]
    /\ store' = Stored(request[id], store)
    /\ UNCHANGED <<made, request, outcome, open>>

Outcome(id, result) ==
    /\ id <= made /\ outcome[id] = NotYet
    /\ outcome' = [outcome EXCEPT ![id] = result]
    /\ UNCHANGED <<made, request, effect, store, open>>

Return(id) == \E result \in effect[id] : Outcome(id, result)
Fail(id) == ~open /\ Outcome(id, Failed)
GiveUp(id) == Outcome(id, GivenUp)

Close == /\ open
         /\ open' = FALSE
         /\ UNCHANGED <<made, request, effect, outcome, store>>

Next == \/ \E cmd \in Requests : Make(cmd)
        \/ \E id \in Calls : \/ TakeEffect(id) \/ Return(id)
                             \/ Fail(id) \/ GiveUp(id)
        \/ Close

Spec == Init /\ [][Next]_storeVars
=============================================================================

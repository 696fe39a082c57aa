---------------------------- MODULE Communicator ----------------------------
(***************************************************************************)
(* pcs/common/node_communicator.py and the loop over it, run in             *)
(* pcs/lib/communication/tools.py: requests are handed to libcurl, which    *)
(* runs them in parallel; start_loop collects the ended ones in batches and *)
(* yields them one by one to on_response, which may add requests; the loop  *)
(* counts handles to know when to stop.  MultiaddressCommunicator takes a   *)
(* request that failed to the next address of its node and hides the        *)
(* failure.  libcurl and the nodes are external.                           *)
(***************************************************************************)
EXTENDS Naturals, FiniteSets, Sequences

CONSTANTS
    Requests,  \* the requests of _prepare_initial_requests
    MaxDest    \* number of addresses of each node

ASSUME CommunicatorAssumption ==
    /\ IsFiniteSet(Requests)
    /\ MaxDest \in Nat \ {0}

VARIABLES
    how,      \* multi: MultiaddressCommunicator or Communicator?
              \* one: OneByOneStrategyMixin or AllAtOnceStrategyMixin?
    pc,       \* "start", "loop", "batch" or "done"
    waiting,  \* requests _get_next_list has not given out yet
    active,   \* requests with a handle in _multi_handle
    ended,    \* results of the transfers that have ended
    handles,  \* len(_easy_handle_list)
    finished, \* finished_count
    batch,    \* response_list: requests not yielded yet ...
    size,     \* ... and its length
    dest,     \* index of the current address of each request
    executed, \* how often a node has executed each request
    late,     \* how often it still will, after the request has timed out
    satisfied,\* has on_response got what it wanted?
    log       \* what on_response has been given

lvars == <<how, pc, waiting, active, handles, finished, batch, size, dest,
           satisfied, log>>
vars == <<lvars, ended, executed, late>>

Results == {"ok", "failed"}
Answers == [request : Requests, result : Results]
Answered == {log[i].request : i \in DOMAIN log}

TypeOK ==
    /\ how \in [multi : BOOLEAN, one : BOOLEAN]
    /\ pc \in {"start", "loop", "batch", "done"}
    /\ waiting \in SUBSET Requests
    /\ active \in SUBSET Requests
    /\ ended \in [Requests -> Results \cup {"none"}]
    /\ handles \in Nat
    /\ finished \in Nat
    /\ batch \in SUBSET Requests
    /\ size \in Nat
    /\ dest \in [Requests -> 1..MaxDest]
    /\ executed \in [Requests -> Nat]
    /\ late \in [Requests -> Nat]
    /\ satisfied \in BOOLEAN
    /\ log \in Seq(Answers)

Init ==
    /\ how \in [multi : BOOLEAN, one : BOOLEAN]
    /\ pc = "start"
    /\ waiting = Requests
    /\ active = {}
    /\ ended = [r \in Requests |-> "none"]
    /\ handles = 0
    /\ finished = 0
    /\ batch = {}
    /\ size = 0
    /\ dest = [r \in Requests |-> 1]
    /\ executed = [r \in Requests |-> 0]
    /\ late = [r \in Requests |-> 0]
    /\ satisfied = FALSE
    /\ log = <<>>

(***************************************************************************)
(* The strategies: what get_initial_request_list and _get_next_list return. *)
(***************************************************************************)
GetNextList == {{r} : r \in waiting} \cup (IF waiting = {} THEN {{}} ELSE {})

\* Faulty variant of GetInitialRequestList: all requests at once in any case.
GetInitialRequestListAll == {waiting}

GetInitialRequestList == IF how.one THEN GetNextList ELSE {waiting}

\* run: add_requests(get_initial_request_list()), then start_loop.
Run ==
    /\ pc = "start"
    /\ \E new \in GetInitialRequestList :
          /\ active' = new
          /\ handles' = Cardinality(new)
          /\ waiting' = waiting \ new
    /\ pc' = "loop"
    /\ UNCHANGED <<ended, finished, batch, size, dest, executed, late,
                   satisfied, log>>

(***************************************************************************)
(* libcurl and the node: a transfer ends with an answer, fails before the   *)
(* node has executed the request or after, or times out while the node is   *)
(* still at it.                                                            *)
(***************************************************************************)
End(r, result) ==
    /\ r \in active
    /\ ended[r] = "none"
    /\ ended' = [ended EXCEPT ![r] = result]
    /\ UNCHANGED lvars

Executes(r) == executed' = [executed EXCEPT ![r] = @ + 1]

TransferOk(r) == End(r, "ok") /\ Executes(r) /\ UNCHANGED late

TransferFails(r) ==
    /\ End(r, "failed")
    /\ \/ UNCHANGED <<executed, late>>
       \/ Executes(r) /\ UNCHANGED late

TransferTimesOut(r) ==
    /\ End(r, "failed")
    /\ late' = [late EXCEPT ![r] = @ + 1]
    /\ UNCHANGED executed

ExecuteLate(r) ==
    /\ late[r] > 0
    /\ Executes(r)
    /\ late' = [late EXCEPT ![r] = @ - 1]
    /\ UNCHANGED <<lvars, ended>>

(***************************************************************************)
(* start_loop                                                              *)
(***************************************************************************)
\* __wait_for_multi_handle and __get_all_ready_responses.
GetAllReadyResponses ==
    /\ pc = "loop"
    /\ finished < handles
    /\ batch' = {r \in active : ended[r] # "none"}
    /\ batch' # {}
    /\ size' = Cardinality(batch')
    /\ pc' = "batch"
    /\ UNCHANGED <<waiting, active, ended, handles, finished, dest, executed,
                   late, satisfied, log>>

\* Faulty variant of AddRequests: a request that is added is counted even if it has a
\* handle already.
AddRequestsCountsAll(old, new) ==
    /\ active' = old \cup new
    /\ handles' = handles + Cardinality(old \cup new)

\* add_requests: a new handle for each request.
AddRequests(old, new) ==
    /\ active' = old \cup new
    /\ handles' = handles + Cardinality(new)

\* on_response: the requests a command adds after a response.  A command that
\* asks one node after another goes on after a failure, and after an answer
\* that is not the one it needs.
OnResponse(r) ==
    /\ log' = Append(log, [request |-> r, result |-> ended[r]])
    /\ \/ /\ how.one
          /\ \E new \in GetNextList :
                /\ AddRequests(active \ {r}, new)
                /\ waiting' = waiting \ new
          /\ UNCHANGED satisfied
       \/ /\ how.one => ended[r] = "ok"
          /\ AddRequests(active \ {r}, {})
          /\ satisfied' = how.one
          /\ UNCHANGED waiting
    /\ UNCHANGED <<ended, dest>>

\* Faulty variant of NextDest: the handle is used again and not counted.
NextDestUncounted(r) ==
    /\ dest' = [dest EXCEPT ![r] = @ + 1]
    /\ ended' = [ended EXCEPT ![r] = "none"]
    /\ UNCHANGED <<active, handles, log, waiting, satisfied>>

\* MultiaddressCommunicator.start_loop on a failure with an address left.
NextDest(r) ==
    /\ AddRequests(active \ {r}, {r})
    /\ dest' = [dest EXCEPT ![r] = @ + 1]
    /\ ended' = [ended EXCEPT ![r] = "none"]
    /\ UNCHANGED <<log, waiting, satisfied>>

\* Faulty variants of TriesNextDest: past the last address, and with any communicator.
TriesNextDestTooFar(r) ==
    how.multi /\ ended[r] = "failed" /\ dest[r] <= MaxDest
TriesNextDestAlways(r) == ended[r] = "failed" /\ dest[r] < MaxDest

TriesNextDest(r) == how.multi /\ ended[r] = "failed" /\ dest[r] < MaxDest

\* One turn of the loop over response_list.
Yield(r) ==
    /\ pc = "batch"
    /\ r \in batch
    /\ batch' = batch \ {r}
    /\ IF TriesNextDest(r) THEN NextDest(r) ELSE OnResponse(r)
    /\ UNCHANGED <<pc, finished, size, executed, late>>

\* finished_count += len(response_list)
EndBatch ==
    /\ pc = "batch"
    /\ batch = {}
    /\ finished' = finished + size
    /\ pc' = "loop"
    /\ UNCHANGED <<waiting, active, ended, handles, batch, size, dest,
                   executed, late, satisfied, log>>

\* while finished_count < len(_easy_handle_list)
Stop ==
    /\ pc = "loop"
    /\ ~(finished < handles)
    /\ pc' = "done"
    /\ UNCHANGED <<waiting, active, ended, handles, finished, batch, size,
                   dest, executed, late, satisfied, log>>

Transfer(r) == TransferOk(r) \/ TransferFails(r) \/ TransferTimesOut(r)

Loop ==
    /\ \/ Run
       \/ GetAllReadyResponses
       \/ \E r \in Requests : Yield(r)
       \/ EndBatch
       \/ Stop
    /\ UNCHANGED how

Next ==
    \/ Loop
    \/ \E r \in Requests : Transfer(r) \/ ExecuteLate(r)

Spec == Init /\ [][Next]_vars

\* pycurl.TIMEOUT ends every transfer.
FairSpec ==
    /\ Spec
    /\ WF_vars(Loop)
    /\ \A r \in Requests : WF_vars(Transfer(r))

(***************************************************************************)
(* run keeps the promises of Communication.                                *)
(***************************************************************************)
Promise == INSTANCE Communication WITH
    asked <- active \cup Answered,
    over <- (pc = "done")

=============================================================================

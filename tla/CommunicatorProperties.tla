----------------------- MODULE CommunicatorProperties -----------------------
(* What the commands rely on when they send requests to nodes.             *)
EXTENDS Communicator

(***************************************************************************)
(* A node executes a request at most once for each address pcs has tried,   *)
(* so at most once with the plain Communicator; and a request answered with *)
(* success has been executed.  A failure says nothing: the node may have    *)
(* executed the request, or may still do so.                               *)
(***************************************************************************)
ExecutedOncePerAddress ==
    /\ \A r \in Requests : executed[r] + late[r] <= dest[r]
    /\ ~how.multi => \A r \in Requests : dest[r] = 1
    /\ \A i \in DOMAIN log :
          log[i].result = "ok" => executed[log[i].request] > 0

(***************************************************************************)
(* OneByOneStrategyMixin: no two requests are under way at once, retries on *)
(* other addresses included, and once a node has given the wanted answer no *)
(* other node is asked (ReloadCorosyncConf relies on it).                   *)
(***************************************************************************)
OneAtATime ==
    how.one => /\ Cardinality(active) <= 1
               /\ satisfied => active = {}

\* run implements what Communication promises: one answer for each request,
\* and the loop does not stop before the last one.
KeepsPromise == Promise!Spec

\* run returns: the count of handles and the count of finished ones meet, also
\* when requests are added or taken to another address on the way.
Returns == <>(pc = "done")
=============================================================================

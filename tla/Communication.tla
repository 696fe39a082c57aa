---------------------------- MODULE Communication ----------------------------
(***************************************************************************)
(* What pcs.lib.communication.tools.run promises to the commands that send  *)
(* requests to nodes: each request it sends gets exactly one answer, from   *)
(* the node or a failure, and run ends when all of them are answered.       *)
(* Communicator implements this.                                           *)
(***************************************************************************)
EXTENDS Sequences

CONSTANT Requests

VARIABLES
    asked, \* requests run has taken on
    log,   \* the answers given to on_response, in order
    over   \* has run returned?

cvars == <<asked, log, over>>

Results == {"ok", "failed"}
Answers == [request : Requests, result : Results]
Answered == {log[i].request : i \in DOMAIN log}

Init ==
    /\ asked = {}
    /\ log = <<>>
    /\ over = FALSE

\* Requests are taken on at the start, and then together with an answer.
Ask(new) ==
    /\ new \subseteq Requests \ asked
    /\ asked' = asked \cup new

Begin(new) ==
    /\ log = <<>>
    /\ ~over
    /\ Ask(new)
    /\ UNCHANGED <<log, over>>

Answer(a, new) ==
    /\ ~over
    /\ a.request \in asked \ Answered
    /\ log' = Append(log, a)
    /\ Ask(new)
    /\ UNCHANGED over

Return ==
    /\ ~over
    /\ asked = Answered
    /\ over' = TRUE
    /\ UNCHANGED <<asked, log>>

Next ==
    \/ \E new \in SUBSET Requests : Begin(new)
    \/ \E a \in Answers, new \in SUBSET Requests : Answer(a, new)
    \/ Return

Spec == Init /\ [][Next]_cvars
=============================================================================

------------------------------ MODULE CfgSync ------------------------------
(***************************************************************************)
(* Synchronization of one configuration file (known-hosts or pcs_settings)  *)
(* between the nodes of a cluster: commands that change the file and push   *)
(* it to every node (pcs/lib/pcs_cfgsync/save_sync.py and sync_files.py),   *)
(* the command that saves a pushed file (set_configs in                     *)
(* pcs/lib/commands/pcs_cfgsync.py), and the periodic pull of every daemon  *)
(* (pcs/daemon/pcs_cfgsync.py, pcs/lib/pcs_cfgsync/fetcher.py).             *)
(*                                                                         *)
(* The daemon's sync_config_lock excludes set_configs and the pull of the   *)
(* same node from each other.  The worker that runs a command writes        *)
(* without it.  A missing file is a file of version 0 without entries.      *)
(***************************************************************************)
EXTENDS Integers, FiniteSets

CONSTANTS
    Nodes,       \* nodes of the cluster
    Entries,     \* what a file may contain: hosts, permissions
    Commands,    \* commands that change the file
    At,          \* the node that runs the command
    Adds,        \* entries the command adds
    Removes,     \* entries the command removes
    Merging,     \* TRUE: save_sync_new_known_hosts, merges after a conflict
    Hash,        \* order of the hashes of the contents
    Pullers,     \* nodes whose cfgsync_ctl allows the pull
    InitialFiles, \* the files earlier commands and failures have left
    NoFile,      \* None in place of a file
    NoRequest,   \* set_configs is not running
    MaxFailures  \* bound: failed requests and failed writes

File == [version : Nat, entries : SUBSET Entries]

\* set_configs sent by a command to a node; round: first or second push.
RequestSet == [cmd : Commands, round : {1, 2}, node : Nodes, file : File]

ASSUME CfgSyncAssumption ==
    /\ IsFiniteSet(Nodes)
    /\ At \in [Commands -> Nodes]
    /\ Adds \in [Commands -> SUBSET Entries]
    /\ Removes \in [Commands -> SUBSET Entries]
    /\ Pullers \subseteq Nodes
    /\ Merging \in BOOLEAN
    /\ Hash \in [SUBSET Entries -> Nat]
    /\ \A x, y \in SUBSET Entries : Hash[x] = Hash[y] => x = y
    /\ InitialFiles \subseteq File
    /\ NoFile \notin File
    /\ NoRequest \notin RequestSet
    /\ MaxFailures \in Nat

VARIABLES
    file,      \* the file on each node
    lock,      \* sync_config_lock of each daemon: "free", "pull" or "set"
    setting,   \* the request whose file set_configs is about to write
    requests,  \* set_configs requests not yet handled
    cmd,       \* the commands
    pull,      \* the pull of each daemon
    failures

vars == <<file, lock, setting, requests, cmd, pull, failures>>

-----------------------------------------------------------------------------
(* Comparison of files                                                     *)

\* set_configs: the pushed file replaces the local one.
RemoteIsNewer(remote, local) ==
    \/ remote.version > local.version
    \/ /\ remote.version = local.version
       /\ Hash[remote.entries] > Hash[local.entries]

\* Faulty variant of NewestConfigs: prefers the least frequent file.
RarestConfigs(answers) ==
    LET received == {n \in DOMAIN answers : answers[n] # NoFile}
        newest == {n \in received : \A m \in received :
                      answers[m].version <= answers[n].version}
        count(n) == Cardinality({m \in newest : answers[m] = answers[n]})
        rarest == {n \in newest : \A m \in newest : count(n) <= count(m)}
    IN IF received = {} THEN {NoFile}
       ELSE {answers[n] : n \in
               {n \in rarest : \A m \in rarest :
                  Hash[answers[m].entries] <= Hash[answers[n].entries]}}

\* _find_newest_config: among the files of the highest version the most
\* frequent one, and among those the one with the biggest hash.  The set has
\* one element.
NewestConfigs(answers) ==
    LET received == {n \in DOMAIN answers : answers[n] # NoFile}
        newest == {n \in received : \A m \in received :
                      answers[m].version <= answers[n].version}
        count(n) == Cardinality({m \in newest : answers[m] = answers[n]})
        frequent == {n \in newest : \A m \in newest : count(m) <= count(n)}
    IN IF received = {} THEN {NoFile}
       ELSE {answers[n] : n \in
               {n \in frequent : \A m \in frequent :
                  Hash[answers[m].entries] <= Hash[answers[n].entries]}}

\* Faulty variant of ToUpdate: files of the same version are not compared.
ToUpdateNewerOnly(local, newest) ==
    IF newest # NoFile /\ local.version < newest.version
    THEN newest ELSE NoFile

\* Faulty variant of ToUpdate: any difference counts.
ToUpdateAnyDifference(local, newest) ==
    IF newest # NoFile /\ local # newest THEN newest ELSE NoFile

\* The end of ConfigFetcher.fetch: None unless the local file is to be replaced.
ToUpdate(local, newest) ==
    IF /\ newest # NoFile
       /\ \/ local.version < newest.version
          \/ local.version = newest.version /\ local # newest
    THEN newest ELSE NoFile

-----------------------------------------------------------------------------
Request(c, round, n, f) == [cmd |-> c, round |-> round, node |-> n, file |-> f]

NoAnswers == [n \in Nodes |-> NoFile]

\* A pull that has asked nobody yet, or none at all; new: the file to save.
Pull(phase, new) ==
    [phase |-> phase, asked |-> {}, answer |-> NoAnswers, new |-> new]

\* A command before it starts.  base: the file it found; result: the nodes'
\* answers to the push; asked and answer: the fetch after a conflict; new: the
\* file to save after a conflict; alone: no other command interfered.
NewCommand ==
    [phase |-> "idle", round |-> 1, base |-> NoFile,
     result |-> [n \in Nodes |-> "none"], asked |-> {}, answer |-> NoAnswers,
     new |-> NoFile, alone |-> TRUE]

Init ==
    /\ file \in [Nodes -> InitialFiles]
    /\ lock = [n \in Nodes |-> "free"]
    /\ setting = [n \in Nodes |-> NoRequest]
    /\ requests = {}
    /\ cmd = [c \in Commands |-> NewCommand]
    /\ pull = [n \in Nodes |-> Pull("idle", NoFile)]
    /\ failures = 0

Fail ==
    /\ failures < MaxFailures
    /\ failures' = failures + 1

-----------------------------------------------------------------------------
(* Commands                                                                *)

Busy(c) == cmd[c].phase \notin {"idle", "done"}

\* The files a pull has received or is about to save.
Seen(p) == {f \in {p.answer[n] : n \in Nodes} \cup {p.new} : f # NoFile}

\* All nodes have the same file, no pull has seen a newer one, no other command
\* is under way, and no request of one is.  What a command starts from; no code
\* looks at it.
Settled(c) ==
    /\ \A m, n \in Nodes : file[m] = file[n]
    /\ \A n \in Nodes : \A f \in Seen(pull[n]) : f.version <= file[n].version
    /\ \A d \in Commands \ {c} : ~Busy(d)
    /\ \A r \in requests : r.cmd = c
    /\ \A n \in Nodes : setting[n] # NoRequest => setting[n].cmd = c

\* save_sync_new_version: the next version goes to every node at once.
Push(c, round, f) ==
    LET sent == [f EXCEPT !.version = @ + 1]
    IN /\ cmd' = [d \in Commands |->
                    IF d = c
                    THEN [cmd[c] EXCEPT
                            !.phase = "push", !.round = round,
                            !.base = IF round = 1 THEN file[At[c]] ELSE @,
                            !.result = [n \in Nodes |-> "none"],
                            !.alone = @ /\ Settled(c)]
                    ELSE [cmd[d] EXCEPT !.alone = @ /\ ~Busy(d)]]
       /\ requests' = requests \cup {Request(c, round, n, sent) : n \in Nodes}

\* The command reads the local file, changes it and pushes it.
Start(c) ==
    /\ cmd[c].phase = "idle"
    /\ LET local == file[At[c]] IN
          Push(c, 1, [local EXCEPT
                        !.entries = (@ \ Removes[c]) \cup Adds[c]])
    /\ UNCHANGED <<file, lock, setting, pull, failures>>

\* The answer of a node, unless the command has given up on it.
Answered(r, result) ==
    [cmd EXCEPT ![r.cmd].result[r.node] =
        IF cmd[r.cmd].phase = "push" /\ cmd[r.cmd].round = r.round /\ @ = "none"
        THEN result ELSE @]

\* The request fails: it is lost, or it is late and the command goes on
\* without waiting for it.
RequestFails(c, n) ==
    /\ cmd[c].phase = "push"
    /\ cmd[c].result[n] = "none"
    /\ Fail
    /\ cmd' = [cmd EXCEPT ![c].result[n] = "failed"]
    /\ \/ requests' = {r \in requests : r.cmd # c \/ r.node # n}
       \/ UNCHANGED requests
    /\ UNCHANGED <<file, lock, setting, pull>>

\* All nodes have answered or failed; a rejection is a conflict.
EndPush(c) ==
    /\ cmd[c].phase = "push"
    /\ \A n \in Nodes : cmd[c].result[n] # "none"
    /\ cmd' = [cmd EXCEPT
                 ![c].phase = IF \E n \in Nodes : cmd[c].result[n] = "rejected"
                              THEN "fetch" ELSE "done",
                 ![c].asked = {}, ![c].answer = NoAnswers]
    /\ UNCHANGED <<file, lock, setting, requests, pull, failures>>

\* get_configs on node n; it does not take the lock.
FetchAnswer(c, n) ==
    /\ cmd[c].phase = "fetch"
    /\ n \notin cmd[c].asked
    /\ \/ /\ cmd' = [cmd EXCEPT ![c].asked = @ \cup {n},
                                ![c].answer[n] = file[n]]
          /\ UNCHANGED failures
       \/ /\ cmd' = [cmd EXCEPT ![c].asked = @ \cup {n}]
          /\ Fail
    /\ UNCHANGED <<file, lock, setting, requests, pull>>

\* The first conflict over known-hosts is resolved by a merge and a second
\* push; any other conflict ends the command.
EndFetch(c) ==
    /\ cmd[c].phase = "fetch"
    /\ cmd[c].asked = Nodes
    /\ \E newest \in NewestConfigs(cmd[c].answer) :
          LET new == ToUpdate(file[At[c]], newest)
              merged == (cmd[c].base.entries \cup new.entries) \ Removes[c]
          IN IF Merging /\ cmd[c].round = 1 /\ new # NoFile
             THEN Push(c, 2, [new EXCEPT !.entries = merged \cup Adds[c]])
             ELSE /\ cmd' = [cmd EXCEPT
                               ![c].phase = IF new = NoFile THEN "done" ELSE "save",
                               ![c].new = new]
                  /\ UNCHANGED requests
    /\ UNCHANGED <<file, lock, setting, pull, failures>>

\* _handle_conflict
SaveNewest(c) ==
    /\ cmd[c].phase = "save"
    /\ cmd' = [cmd EXCEPT ![c].phase = "done"]
    /\ \/ file' = [file EXCEPT ![At[c]] = cmd[c].new] /\ UNCHANGED failures
       \/ UNCHANGED file /\ Fail
    /\ UNCHANGED <<lock, setting, requests, pull>>

-----------------------------------------------------------------------------
(* set_configs on node n, under the lock                                   *)

\* Faulty variant of HandleRequest: does not wait for the lock.
HandleRequestUnlocked(n) ==
    \E r \in requests :
        /\ r.node = n
        /\ requests' = requests \ {r}
        /\ \/ /\ r.file # file[n] /\ RemoteIsNewer(r.file, file[n])
              /\ lock' = [lock EXCEPT ![n] = "set"]
              /\ setting' = [setting EXCEPT ![n] = r]
              /\ UNCHANGED cmd
           \/ /\ r.file = file[n]
              /\ cmd' = Answered(r, "accepted")
              /\ UNCHANGED <<lock, setting>>
           \/ /\ r.file # file[n] /\ ~RemoteIsNewer(r.file, file[n])
              /\ cmd' = Answered(r, "rejected")
              /\ UNCHANGED <<lock, setting>>
        /\ UNCHANGED <<file, pull, failures>>

\* Reads the local file and decides.
HandleRequest(n) ==
    \E r \in requests :
        /\ r.node = n
        /\ lock[n] = "free"
        /\ requests' = requests \ {r}
        /\ \/ /\ r.file # file[n] /\ RemoteIsNewer(r.file, file[n])
              /\ lock' = [lock EXCEPT ![n] = "set"]
              /\ setting' = [setting EXCEPT ![n] = r]
              /\ UNCHANGED cmd
           \/ /\ r.file = file[n]
              /\ cmd' = Answered(r, "accepted")
              /\ UNCHANGED <<lock, setting>>
           \/ /\ r.file # file[n] /\ ~RemoteIsNewer(r.file, file[n])
              /\ cmd' = Answered(r, "rejected")
              /\ UNCHANGED <<lock, setting>>
        /\ UNCHANGED <<file, pull, failures>>

\* Writes the file, or cannot open it, and answers.
FinishSet(n) ==
    /\ lock[n] = "set"
    /\ \/ /\ file' = [file EXCEPT ![n] = setting[n].file]
          /\ cmd' = Answered(setting[n], "accepted")
          /\ UNCHANGED failures
       \/ /\ cmd' = Answered(setting[n], "failed")
          /\ Fail
          /\ UNCHANGED file
    /\ lock' = [lock EXCEPT ![n] = "free"]
    /\ setting' = [setting EXCEPT ![n] = NoRequest]
    /\ UNCHANGED <<requests, pull>>

-----------------------------------------------------------------------------
(* run_cfgsync on node n, under the lock                                   *)

StartPull(n) ==
    /\ n \in Pullers
    /\ lock[n] = "free"
    /\ lock' = [lock EXCEPT ![n] = "pull"]
    /\ pull' = [pull EXCEPT ![n] = Pull("fetch", NoFile)]
    /\ UNCHANGED <<file, setting, requests, cmd, failures>>

PullAnswer(n, m) ==
    /\ pull[n].phase = "fetch"
    /\ m \notin pull[n].asked
    /\ \/ /\ pull' = [pull EXCEPT ![n].asked = @ \cup {m},
                                  ![n].answer[m] = file[m]]
          /\ UNCHANGED failures
       \/ /\ pull' = [pull EXCEPT ![n].asked = @ \cup {m}]
          /\ Fail
    /\ UNCHANGED <<file, lock, setting, requests, cmd>>

EndPullFetch(n) ==
    /\ pull[n].phase = "fetch"
    /\ pull[n].asked = Nodes
    /\ \E newest \in NewestConfigs(pull[n].answer) :
       LET new == ToUpdate(file[n], newest) IN
          /\ pull' = [pull EXCEPT
                        ![n] = Pull(IF new = NoFile THEN "idle" ELSE "save",
                                    new)]
          /\ lock' = IF new = NoFile THEN [lock EXCEPT ![n] = "free"] ELSE lock
    /\ UNCHANGED <<file, setting, requests, cmd, failures>>

PullSave(n) ==
    /\ pull[n].phase = "save"
    /\ \/ file' = [file EXCEPT ![n] = pull[n].new] /\ UNCHANGED failures
       \/ UNCHANGED file /\ Fail
    /\ pull' = [pull EXCEPT ![n] = Pull("idle", NoFile)]
    /\ lock' = [lock EXCEPT ![n] = "free"]
    /\ UNCHANGED <<setting, requests, cmd>>

-----------------------------------------------------------------------------
CommandStep(c) ==
    \/ EndPush(c)
    \/ \E n \in Nodes : FetchAnswer(c, n)
    \/ EndFetch(c)
    \/ SaveNewest(c)

PullStep(n) ==
    \/ \E m \in Nodes : PullAnswer(n, m)
    \/ EndPullFetch(n)
    \/ PullSave(n)

Next ==
    \/ \E c \in Commands : \/ Start(c)
                           \/ CommandStep(c)
                           \/ \E n \in Nodes : RequestFails(c, n)
    \/ \E n \in Nodes : \/ HandleRequest(n)
                        \/ FinishSet(n)
                        \/ StartPull(n)
                        \/ PullStep(n)

Spec == Init /\ [][Next]_vars

\* The lock is granted in the order in which it is asked for, the daemon
\* schedules a pull after each pull, and a request ends with an answer or with
\* a timeout.
FairSpec ==
    /\ Spec
    /\ \A c \in Commands : WF_vars(CommandStep(c))
    /\ \A n \in Nodes : /\ WF_vars(FinishSet(n))
                        /\ WF_vars(PullStep(n))
                        /\ SF_vars(HandleRequest(n))
                        /\ WF_vars(StartPull(n))
=============================================================================

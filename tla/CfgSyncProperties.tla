------------------------- MODULE CfgSyncProperties -------------------------
(***************************************************************************)
(* What the synchronization of a configuration file promises.              *)
(***************************************************************************)
EXTENDS CfgSync

\* All nodes have the same file.
Agreed == \A m, n \in Nodes : file[m] = file[n]

\* The command has reported neither a conflict nor a failed node.
Succeeded(c) ==
    /\ cmd[c].phase = "done"
    /\ \A n \in Nodes : cmd[c].result[n] = "accepted"

\* What a command adds and no command removes.
Lasting(c) == Adds[c] \ UNION {Removes[d] : d \in Commands}

\* A command that started on a cluster in agreement, met no other command or
\* late request of one, and reported success, has its entries on every node for
\* good, although pulls with answers from before it may still be under way and
\* later commands may conflict with each other.  It does not hold when a pull
\* has received a newer file that no node has any more (see Settled).
KeptWhenAlone ==
    \A c \in Commands : Succeeded(c) /\ cmd[c].alone =>
        \A n \in Nodes : Lasting(c) \subseteq file[n].entries

\* Nodes that run no command: their file is written by set_configs and by the
\* pull only, under sync_config_lock.
Served == Nodes \ {At[c] : c \in Commands}

\* sync_config_lock keeps the file of such a node from going back to an older
\* version, however old the answers of its pull are when they are saved.
ServedNodesForward ==
    [][\A n \in Served : file[n].version <= file'[n].version]_vars

\* Once commands and failures have ceased, the pulls bring all nodes to the
\* same file, and no pull disturbs it any more.
Convergence == <>[]Agreed

-----------------------------------------------------------------------------
(* The inductive invariant.                                                *)

CommandRecord ==
    [phase : {"idle", "push", "fetch", "save", "done"}, round : {1, 2},
     base : File \cup {NoFile},
     result : [Nodes -> {"none", "accepted", "rejected", "failed"}],
     asked : SUBSET Nodes, answer : [Nodes -> File \cup {NoFile}],
     new : File \cup {NoFile}, alone : BOOLEAN]

PullRecord ==
    [phase : {"idle", "fetch", "save"}, asked : SUBSET Nodes,
     answer : [Nodes -> File \cup {NoFile}], new : File \cup {NoFile}]

\* Type invariant.
TypeOK ==
    /\ file \in [Nodes -> File]
    /\ lock \in [Nodes -> {"free", "pull", "set"}]
    /\ setting \in [Nodes -> RequestSet \cup {NoRequest}]
    /\ requests \subseteq RequestSet
    /\ cmd \in [Commands -> CommandRecord]
    /\ pull \in [Nodes -> PullRecord]
    /\ failures \in 0 .. MaxFailures

\* The lock is held by the one it is meant for.
LockHeld ==
    \A n \in Nodes : /\ lock[n] = "set" <=> setting[n] # NoRequest
                     /\ lock[n] = "pull" <=> pull[n].phase # "idle"

\* A file to save is there, and a command in progress has read its base.
FilesPresent ==
    /\ \A c \in Commands : /\ cmd[c].phase = "save" => cmd[c].new # NoFile
                           /\ cmd[c].phase # "idle" => cmd[c].base # NoFile
    /\ \A n \in Nodes : pull[n].phase = "save" => pull[n].new # NoFile

\* What is about to be written to a node without commands is not outdated.
WritesUpToDate ==
    \A n \in Served :
        /\ setting[n] # NoRequest => file[n].version <= setting[n].file.version
        /\ pull[n].phase = "save" => file[n].version <= pull[n].new.version

\* Inductive: every step preserves it.
LockInvariant == TypeOK /\ LockHeld /\ FilesPresent /\ WritesUpToDate

-----------------------------------------------------------------------------
(* The inductive invariant of KeptWhenAlone.                               *)

\* Requests under way were sent by a command that has started, and are handled
\* by the node they were sent to.
RequestsStarted ==
    /\ \A r \in requests : cmd[r.cmd].phase # "idle"
    /\ \A n \in Nodes : setting[n] # NoRequest =>
           cmd[setting[n].cmd].phase # "idle" /\ setting[n].node = n

\* What the first push of a command that found the file base sends.
Sent(c, base) ==
    [version |-> base.version + 1,
     entries |-> (base.entries \ Removes[c]) \cup Adds[c]]

\* The file is the one the command sends, or not newer than what it found.
FromPush(c, base, f) == f = Sent(c, base) \/ f.version <= base.version

\* A command that pushes alone: only its own file is newer than what all nodes
\* had, and a node that has accepted it keeps it.
PushesAlone(c) ==
    /\ cmd[c].round = 1
    /\ \A d \in Commands \ {c} : ~Busy(d)
    /\ \A r \in requests : r.file = Sent(c, cmd[c].base)
    /\ \A n \in Nodes :
           /\ setting[n] # NoRequest => setting[n].file = Sent(c, cmd[c].base)
           /\ FromPush(c, cmd[c].base, file[n])
           /\ \A f \in Seen(pull[n]) : FromPush(c, cmd[c].base, f)
           /\ cmd[c].result[n] # "rejected"
           /\ cmd[c].result[n] = "accepted" =>
                  /\ file[n] = Sent(c, cmd[c].base)
                  /\ pull[n].phase # "save"

\* The file has what the command added, and is newer than what it found.
Keeps(c, base, f) ==
    /\ f.version > base.version
    /\ Lasting(c) \subseteq f.entries

\* The file has what the command added, or is outdated.
KeepsOrOld(c, base, f) == Keeps(c, base, f) \/ f.version <= base.version

\* After success every file that is on a node or may still be written to one
\* has the entries of c, and outdated answers cannot win.
HasSpread(c) ==
    /\ \A r \in requests : Keeps(c, cmd[c].base, r.file)
    /\ \A n \in Nodes :
           /\ Keeps(c, cmd[c].base, file[n])
           /\ setting[n] # NoRequest => Keeps(c, cmd[c].base, setting[n].file)
           /\ \A f \in Seen(pull[n]) : KeepsOrOld(c, cmd[c].base, f)
           /\ pull[n].phase = "save" => Keeps(c, cmd[c].base, pull[n].new)
    /\ \A d \in Commands :
           /\ cmd[d].phase = "save" => Keeps(c, cmd[c].base, cmd[d].new)
           /\ cmd[d].phase = "fetch" =>
                  \A n \in Nodes : cmd[d].answer[n] # NoFile =>
                      KeepsOrOld(c, cmd[c].base, cmd[d].answer[n])

\* Inductive together with LockInvariant.
AloneInvariant ==
    /\ RequestsStarted
    /\ \A c \in Commands : cmd[c].alone =>
           /\ cmd[c].phase \notin {"fetch", "save"}
           /\ cmd[c].phase = "push" => PushesAlone(c)
           /\ Succeeded(c) => HasSpread(c)
=============================================================================

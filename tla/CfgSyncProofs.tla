--------------------------- MODULE CfgSyncProofs ---------------------------
(***************************************************************************)
(* Proofs about the synchronization of a configuration file, for every     *)
(* number of nodes, commands, pulls and failures.                          *)
(***************************************************************************)
EXTENDS CfgSyncProperties, FiniteSetTheorems, WellFoundedInduction, TLAPS

(* What fetch returns is one of the answers and never older than the local *)
(* file.                                                                   *)

\* _find_newest_config returns one of the files it was given, or None.
LEMMA NewestIsAnswer ==
    ASSUME NEW answers \in [Nodes -> File \cup {NoFile}],
           NEW f \in NewestConfigs(answers)
    PROVE  f \in File \cup {NoFile}
BY DEF NewestConfigs

\* ConfigFetcher.fetch returns a file that is no older than the local one, or
\* nothing.
LEMMA FetchedIsUpToDate ==
    ASSUME NEW local \in File, NEW newest \in File \cup {NoFile},
           ToUpdate(local, newest) # NoFile
    PROVE  /\ ToUpdate(local, newest) \in File
           /\ local.version <= ToUpdate(local, newest).version
BY CfgSyncAssumption DEF ToUpdate, File

\* The file set_configs decides to write is no older than the local one.
LEMMA AcceptedIsUpToDate ==
    ASSUME NEW remote \in File, NEW local \in File, RemoteIsNewer(remote, local)
    PROVE  local.version <= remote.version
BY DEF RemoteIsNewer, File

\* An answer to a push does nothing but to set the result of one node.
LEMMA AnsweredType ==
    ASSUME TypeOK, NEW r \in RequestSet,
           NEW result \in {"accepted", "rejected", "failed"}
    PROVE  /\ Answered(r, result) \in [Commands -> CommandRecord]
           /\ \A c \in Commands : /\ Answered(r, result)[c].phase = cmd[c].phase
                                  /\ Answered(r, result)[c].new = cmd[c].new
                                  /\ Answered(r, result)[c].base = cmd[c].base
<1> DEFINE c == r.cmd
           n == r.node
           new == IF cmd[c].phase = "push" /\ cmd[c].round = r.round
                        /\ cmd[c].result[n] = "none"
                  THEN result ELSE cmd[c].result[n]
<1>1. c \in Commands /\ n \in Nodes
  BY DEF RequestSet
<1>2. cmd[c] \in CommandRecord
  BY <1>1 DEF TypeOK
<1>3. [cmd[c].result EXCEPT ![n] = new]
        \in [Nodes -> {"none", "accepted", "rejected", "failed"}]
  BY <1>1, <1>2 DEF CommandRecord
<1>4. [cmd[c] EXCEPT !.result = [cmd[c].result EXCEPT ![n] = new]]
        \in CommandRecord
  BY <1>2, <1>3 DEF CommandRecord
<1>5. Answered(r, result) =
        [cmd EXCEPT ![c] = [cmd[c] EXCEPT !.result =
                              [cmd[c].result EXCEPT ![n] = new]]]
  BY DEF Answered
<1> HIDE DEF c, n, new
<1>6. cmd \in [Commands -> CommandRecord]
  BY DEF TypeOK
<1>7. Answered(r, result) \in [Commands -> CommandRecord]
  BY <1>4, <1>5, <1>6
<1>8. ASSUME NEW d \in Commands
      PROVE  /\ Answered(r, result)[d].phase = cmd[d].phase
             /\ Answered(r, result)[d].new = cmd[d].new
             /\ Answered(r, result)[d].base = cmd[d].base
  <2>1. CASE d = c
    <3>1. Answered(r, result)[c] = [cmd[c] EXCEPT !.result =
                                      [cmd[c].result EXCEPT ![n] = new]]
      BY <1>1, <1>5, <1>6
    <3> QED
      BY <2>1, <3>1, <1>2 DEF CommandRecord
  <2>2. CASE d # c
    BY <2>2, <1>5, <1>6
  <2> QED
    BY <2>1, <2>2
<1> QED
  BY <1>7, <1>8

\* save_sync_new_version changes only the commands, and sends files.
LEMMA PushType ==
    ASSUME TypeOK, FilesPresent, NEW c \in Commands, NEW round \in {1, 2},
           NEW f \in File, Push(c, round, f), round = 1 \/ cmd[c].phase # "idle"
    PROVE  /\ cmd' \in [Commands -> CommandRecord]
           /\ requests' \subseteq RequestSet
           /\ \A d \in Commands :
                 /\ cmd'[d].phase = "save" => cmd'[d].new # NoFile
                 /\ cmd'[d].phase # "idle" => cmd'[d].base # NoFile
<1> DEFINE sent == [f EXCEPT !.version = @ + 1]
<1>1. sent \in File
  BY DEF File
<1>2. requests' \subseteq RequestSet
  BY <1>1 DEF Push, Request, RequestSet, TypeOK
<1>3. ASSUME NEW d \in Commands, d # c
      PROVE  cmd'[d] = [cmd[d] EXCEPT !.alone = @ /\ ~Busy(d)]
  BY <1>3 DEF Push
<1>4. cmd'[c] = [cmd[c] EXCEPT !.phase = "push", !.round = round,
                    !.base = IF round = 1 THEN file[At[c]] ELSE @,
                    !.result = [n \in Nodes |-> "none"],
                    !.alone = @ /\ Settled(c)]
  BY DEF Push
<1>5. file[At[c]] \in File
  BY CfgSyncAssumption DEF TypeOK
<1>6. \A d \in Commands : cmd[d] \in CommandRecord
  BY DEF TypeOK
<1>7. ASSUME NEW d \in Commands
      PROVE  /\ cmd'[d] \in CommandRecord
             /\ cmd'[d].phase = "save" => cmd'[d].new # NoFile
             /\ cmd'[d].phase # "idle" => cmd'[d].base # NoFile
  <2>1. CASE d = c
    <3> DEFINE b == cmd[c].alone /\ Settled(c)
               none == [n \in Nodes |-> "none"]
               base == IF round = 1 THEN file[At[c]] ELSE cmd[c].base
    <3>1. b \in BOOLEAN
      OBVIOUS
    <3>2. none \in [Nodes -> {"none", "accepted", "rejected", "failed"}]
      OBVIOUS
    <3>3. base \in File
      BY <1>5, <1>6 DEF CommandRecord, FilesPresent
    <3>4. cmd'[c] = [cmd[c] EXCEPT !.phase = "push", !.round = round,
                        !.base = base, !.result = none, !.alone = b]
      BY <1>4
    <3> HIDE DEF b, none, base
    <3>5. cmd[c] \in CommandRecord
      BY <1>6
    <3>6. cmd'[c] \in CommandRecord
      BY <3>1, <3>2, <3>3, <3>4, <3>5 DEF CommandRecord
    <3>7. cmd'[c].phase = "push" /\ cmd'[c].base = base
      BY <3>4, <3>5 DEF CommandRecord
    <3> QED
      BY <2>1, <3>3, <3>6, <3>7, CfgSyncAssumption
  <2>2. CASE d # c
    <3> DEFINE b == cmd[d].alone /\ ~Busy(d)
    <3>1. b \in BOOLEAN
      OBVIOUS
    <3>2. cmd'[d] = [cmd[d] EXCEPT !.alone = b]
      BY <2>2, <1>3
    <3> HIDE DEF b
    <3> QED
      BY <3>1, <3>2, <1>6 DEF CommandRecord, FilesPresent
  <2> QED
    BY <2>1, <2>2
<1>8. cmd' = [d \in Commands |-> cmd'[d]]
  BY DEF Push
<1> QED
  BY <1>2, <1>7, <1>8
-----------------------------------------------------------------------------
(* Every step preserves the invariant.                                     *)

\* The initial states satisfy the invariant.
LEMMA InitLock == Init => LockInvariant
<1> SUFFICES ASSUME Init PROVE LockInvariant
  OBVIOUS
<1>1. NewCommand \in CommandRecord
  BY DEF NewCommand, NoAnswers, CommandRecord
<1>2. Pull("idle", NoFile) \in PullRecord
  BY DEF Pull, NoAnswers, PullRecord
<1>3. TypeOK
  BY <1>1, <1>2, CfgSyncAssumption DEF Init, TypeOK
<1>4. \A c \in Commands : cmd[c].phase = "idle"
  BY DEF Init, NewCommand
<1>5. \A n \in Nodes : pull[n].phase = "idle" /\ setting[n] = NoRequest
                       /\ lock[n] = "free"
  BY DEF Init, Pull
<1>6. LockHeld
  BY <1>5 DEF LockHeld
<1>7. FilesPresent
  BY <1>4, <1>5 DEF FilesPresent
<1>8. WritesUpToDate
  BY <1>5 DEF WritesUpToDate, Served
<1> QED
  BY <1>3, <1>6, <1>7, <1>8 DEF LockInvariant

\* A step of a command that writes no file preserves the invariant if it keeps
\* the commands well-formed.
LEMMA CommandOnly ==
    ASSUME LockInvariant, UNCHANGED <<file, lock, setting, pull>>,
           failures' \in 0 .. MaxFailures,
           cmd' \in [Commands -> CommandRecord],
           requests' \subseteq RequestSet,
           \A c \in Commands : /\ cmd'[c].phase = "save" => cmd'[c].new # NoFile
                               /\ cmd'[c].phase # "idle" => cmd'[c].base # NoFile
    PROVE  LockInvariant'
<1>1. TypeOK'
  BY DEF LockInvariant, TypeOK
<1>2. LockHeld'
  BY DEF LockInvariant, LockHeld
<1>3. FilesPresent'
  BY DEF LockInvariant, FilesPresent
<1>4. WritesUpToDate'
  BY DEF LockInvariant, WritesUpToDate, Served
<1> QED
  BY <1>1, <1>2, <1>3, <1>4 DEF LockInvariant

\* The same for a step that changes one command.
LEMMA OneCommand ==
    ASSUME LockInvariant, UNCHANGED <<file, lock, setting, pull>>,
           failures' \in 0 .. MaxFailures, requests' \subseteq RequestSet,
           NEW c \in Commands, NEW new \in CommandRecord,
           cmd' = [cmd EXCEPT ![c] = new],
           new.phase = "save" => new.new # NoFile,
           new.phase # "idle" => new.base # NoFile
    PROVE  LockInvariant'
<1>1. cmd \in [Commands -> CommandRecord]
  BY DEF LockInvariant, TypeOK
<1>2. cmd' \in [Commands -> CommandRecord]
  BY <1>1
<1>3. \A d \in Commands : /\ cmd'[d].phase = "save" => cmd'[d].new # NoFile
                          /\ cmd'[d].phase # "idle" => cmd'[d].base # NoFile
  BY <1>1 DEF LockInvariant, FilesPresent
<1> QED
  BY <1>2, <1>3, CommandOnly

\* A failure is within its bound.
LEMMA FailType ==
    ASSUME TypeOK, Fail
    PROVE  failures' \in 0 .. MaxFailures
BY CfgSyncAssumption DEF TypeOK, Fail

\* The commands and the requests of a well-formed state.
LEMMA CommandTypes ==
    ASSUME LockInvariant, NEW c \in Commands
    PROVE  /\ cmd[c] \in CommandRecord
           /\ file[At[c]] \in File
           /\ At[c] \in Nodes
BY CfgSyncAssumption DEF LockInvariant, TypeOK

\* The command reads the local file and pushes the next version.
LEMMA StartLock ==
    ASSUME LockInvariant, NEW c \in Commands, Start(c)
    PROVE  LockInvariant'
<1> DEFINE local == file[At[c]]
           f == [local EXCEPT !.entries = (@ \ Removes[c]) \cup Adds[c]]
<1>1. f \in File
  BY CommandTypes, CfgSyncAssumption DEF File
<1>2. Push(c, 1, f)
  BY DEF Start
<1> HIDE DEF f
<1>3. failures' \in 0 .. MaxFailures
  BY DEF Start, LockInvariant, TypeOK
<1>4. /\ cmd' \in [Commands -> CommandRecord]
      /\ requests' \subseteq RequestSet
      /\ \A d \in Commands :
            /\ cmd'[d].phase = "save" => cmd'[d].new # NoFile
            /\ cmd'[d].phase # "idle" => cmd'[d].base # NoFile
  BY <1>1, <1>2, PushType DEF LockInvariant
<1> QED
  BY <1>3, <1>4, CommandOnly DEF Start

\* A request to a node is given up.
LEMMA RequestFailsLock ==
    ASSUME LockInvariant, NEW c \in Commands, NEW n \in Nodes,
           RequestFails(c, n)
    PROVE  LockInvariant'
<1> DEFINE results == [cmd[c].result EXCEPT ![n] = "failed"]
           new == [cmd[c] EXCEPT !.result = results]
<1>1. cmd[c] \in CommandRecord
  BY CommandTypes
<1>2. results \in [Nodes -> {"none", "accepted", "rejected", "failed"}]
  BY <1>1 DEF CommandRecord
<1>3. /\ new \in CommandRecord
      /\ new.phase = cmd[c].phase
      /\ new.new = cmd[c].new
      /\ new.base = cmd[c].base
  BY <1>1, <1>2 DEF CommandRecord
<1>4. cmd' = [cmd EXCEPT ![c] = new]
  BY DEF RequestFails
<1> HIDE DEF new
<1>5. requests' \subseteq RequestSet
  BY DEF RequestFails, LockInvariant, TypeOK
<1>6. failures' \in 0 .. MaxFailures
  BY FailType DEF RequestFails, LockInvariant
<1>7. /\ new.phase = "save" => new.new # NoFile
      /\ new.phase # "idle" => new.base # NoFile
  BY <1>3 DEF LockInvariant, FilesPresent
<1>8. UNCHANGED <<file, lock, setting, pull>>
  BY DEF RequestFails
<1> QED
  BY <1>3, <1>4, <1>5, <1>6, <1>7, <1>8, OneCommand

\* The answers to a push are complete.
LEMMA EndPushLock ==
    ASSUME LockInvariant, NEW c \in Commands, EndPush(c)
    PROVE  LockInvariant'
<1> DEFINE phase == IF \E n \in Nodes : cmd[c].result[n] = "rejected"
                    THEN "fetch" ELSE "done"
           new == [cmd[c] EXCEPT !.phase = phase, !.asked = {},
                                 !.answer = NoAnswers]
<1>1. cmd[c] \in CommandRecord
  BY CommandTypes
<1>2. NoAnswers \in [Nodes -> File \cup {NoFile}]
  BY DEF NoAnswers
<1>3. phase \in {"fetch", "done"}
  OBVIOUS
<1>4. cmd' = [cmd EXCEPT ![c] = new]
  BY DEF EndPush
<1> HIDE DEF phase
<1>5. /\ new \in CommandRecord
      /\ new.phase = phase
      /\ new.base = cmd[c].base
  BY <1>1, <1>2, <1>3 DEF CommandRecord
<1> HIDE DEF new
<1>6. /\ new.phase = "save" => new.new # NoFile
      /\ new.phase # "idle" => new.base # NoFile
  BY <1>3, <1>5 DEF LockInvariant, FilesPresent, EndPush
<1>7. /\ requests' \subseteq RequestSet
      /\ failures' \in 0 .. MaxFailures
      /\ UNCHANGED <<file, lock, setting, pull>>
  BY DEF EndPush, LockInvariant, TypeOK
<1> QED
  BY <1>4, <1>5, <1>6, <1>7, OneCommand

\* An answer of get_configs, or none, after a conflict.
LEMMA FetchAnswerLock ==
    ASSUME LockInvariant, NEW c \in Commands, NEW n \in Nodes,
           FetchAnswer(c, n)
    PROVE  LockInvariant'
<1>1. cmd[c] \in CommandRecord
  BY CommandTypes
<1>2. /\ requests' \subseteq RequestSet
      /\ UNCHANGED <<file, lock, setting, pull>>
  BY DEF FetchAnswer, LockInvariant, TypeOK
<1>3. failures' \in 0 .. MaxFailures
  BY FailType DEF FetchAnswer, LockInvariant, TypeOK
<1>4. cmd[c].base # NoFile /\ cmd[c].phase = "fetch"
  BY DEF FetchAnswer, LockInvariant, FilesPresent
<1>5. CASE cmd' = [cmd EXCEPT ![c].asked = @ \cup {n}, ![c].answer[n] = file[n]]
  <2> DEFINE answers == [cmd[c].answer EXCEPT ![n] = file[n]]
             new == [cmd[c] EXCEPT !.asked = @ \cup {n}, !.answer = answers]
  <2>1. answers \in [Nodes -> File \cup {NoFile}]
    BY <1>1 DEF CommandRecord, LockInvariant, TypeOK
  <2>2. cmd' = [cmd EXCEPT ![c] = new]
    BY <1>5
  <2> HIDE DEF answers
  <2>3. new \in CommandRecord /\ new.phase = "fetch" /\ new.base # NoFile
    BY <1>1, <1>4, <2>1 DEF CommandRecord
  <2> HIDE DEF new
  <2> QED
    BY <1>2, <1>3, <2>2, <2>3, OneCommand
<1>6. CASE cmd' = [cmd EXCEPT ![c].asked = @ \cup {n}]
  <2> DEFINE new == [cmd[c] EXCEPT !.asked = @ \cup {n}]
  <2>1. cmd' = [cmd EXCEPT ![c] = new]
    BY <1>6
  <2>2. new \in CommandRecord /\ new.phase = "fetch" /\ new.base # NoFile
    BY <1>1, <1>4 DEF CommandRecord
  <2> HIDE DEF new
  <2> QED
    BY <1>2, <1>3, <2>1, <2>2, OneCommand
<1> QED
  BY <1>5, <1>6 DEF FetchAnswer

\* The fetch ends: a merge and a second push, or a file to save.
LEMMA EndFetchLock ==
    ASSUME LockInvariant, NEW c \in Commands, EndFetch(c)
    PROVE  LockInvariant'
<1>1. cmd[c] \in CommandRecord /\ file[At[c]] \in File
  BY CommandTypes
<1>2. cmd[c].base # NoFile /\ cmd[c].phase = "fetch"
  BY DEF EndFetch, LockInvariant, FilesPresent
<1>3. /\ failures' \in 0 .. MaxFailures
      /\ UNCHANGED <<file, lock, setting, pull>>
  BY DEF EndFetch, LockInvariant, TypeOK
<1>4. PICK newest \in NewestConfigs(cmd[c].answer) :
         LET new == ToUpdate(file[At[c]], newest)
             merged == (cmd[c].base.entries \cup new.entries) \ Removes[c]
         IN IF Merging /\ cmd[c].round = 1 /\ new # NoFile
            THEN Push(c, 2, [new EXCEPT !.entries = merged \cup Adds[c]])
            ELSE /\ cmd' = [cmd EXCEPT
                              ![c].phase = IF new = NoFile THEN "done" ELSE "save",
                              ![c].new = new]
                 /\ UNCHANGED requests
  BY DEF EndFetch
<1> DEFINE new == ToUpdate(file[At[c]], newest)
           merged == (cmd[c].base.entries \cup new.entries) \ Removes[c]
           f == [new EXCEPT !.entries = merged \cup Adds[c]]
<1>5. cmd[c].answer \in [Nodes -> File \cup {NoFile}]
  BY <1>1 DEF CommandRecord
<1>6. newest \in File \cup {NoFile}
  BY <1>5, NewestIsAnswer
<1>7. new # NoFile => new \in File
  BY <1>1, <1>6, FetchedIsUpToDate
<1> HIDE DEF new
<1>8. CASE Merging /\ cmd[c].round = 1 /\ new # NoFile
  <2>1. Push(c, 2, f)
    BY <1>4, <1>8 DEF new
  <2>2. cmd[c].base \in File
    BY <1>1, <1>2 DEF CommandRecord
  <2>3. f \in File
    BY <1>7, <1>8, <2>2, CfgSyncAssumption DEF File
  <2> HIDE DEF f
  <2>4. /\ cmd' \in [Commands -> CommandRecord]
        /\ requests' \subseteq RequestSet
        /\ \A d \in Commands :
              /\ cmd'[d].phase = "save" => cmd'[d].new # NoFile
              /\ cmd'[d].phase # "idle" => cmd'[d].base # NoFile
    BY <1>2, <2>1, <2>3, PushType DEF LockInvariant
  <2> QED
    BY <1>3, <2>4, CommandOnly
<1>9. CASE ~(Merging /\ cmd[c].round = 1 /\ new # NoFile)
  <2> DEFINE phase == IF new = NoFile THEN "done" ELSE "save"
             next == [cmd[c] EXCEPT !.phase = phase, !.new = new]
  <2>1. cmd' = [cmd EXCEPT ![c] = next] /\ UNCHANGED requests
    BY <1>4, <1>9 DEF new
  <2>2. phase \in {"done", "save"} /\ (phase = "save" => new # NoFile)
    OBVIOUS
  <2> HIDE DEF phase
  <2>3. /\ next \in CommandRecord
        /\ next.phase = phase
        /\ next.new = new
        /\ next.base = cmd[c].base
    BY <1>1, <1>7, <2>2 DEF CommandRecord
  <2> HIDE DEF next
  <2>4. requests' \subseteq RequestSet
    BY <2>1 DEF LockInvariant, TypeOK
  <2> QED
    BY <1>2, <1>3, <2>1, <2>2, <2>3, <2>4, OneCommand
<1> QED
  BY <1>8, <1>9

-----------------------------------------------------------------------------
(* The steps that write files or take the lock.                            *)

\* _handle_conflict writes the file of a node that runs a command.
LEMMA SaveNewestLock ==
    ASSUME LockInvariant, NEW c \in Commands, SaveNewest(c)
    PROVE  LockInvariant'
<1> DEFINE next == [cmd[c] EXCEPT !.phase = "done"]
<1>1. /\ cmd[c] \in CommandRecord
      /\ At[c] \in Nodes
      /\ cmd[c].phase = "save"
      /\ cmd[c].new # NoFile
      /\ cmd[c].base # NoFile
  BY CommandTypes DEF SaveNewest, LockInvariant, FilesPresent
<1>2. cmd[c].new \in File
  BY <1>1 DEF CommandRecord
<1>3. next \in CommandRecord /\ next.phase = "done" /\ next.base # NoFile
  BY <1>1 DEF CommandRecord
<1>4. cmd' = [cmd EXCEPT ![c] = next]
  BY DEF SaveNewest
<1> HIDE DEF next
<1>5. cmd \in [Commands -> CommandRecord] /\ file \in [Nodes -> File]
  BY DEF LockInvariant, TypeOK
<1>6. cmd' \in [Commands -> CommandRecord]
  BY <1>3, <1>4, <1>5
<1>7. file' \in [Nodes -> File]
  BY <1>2, <1>5 DEF SaveNewest
<1>8. failures' \in 0 .. MaxFailures
  BY FailType DEF SaveNewest, LockInvariant, TypeOK
<1>9. TypeOK'
  BY <1>6, <1>7, <1>8 DEF SaveNewest, LockInvariant, TypeOK
<1>10. LockHeld'
  BY DEF SaveNewest, LockInvariant, LockHeld
<1>11. FilesPresent'
  BY <1>3, <1>4, <1>5 DEF SaveNewest, LockInvariant, FilesPresent
<1>12. \A n \in Served : file'[n] = file[n]
  BY <1>5 DEF SaveNewest, Served
<1>13. WritesUpToDate'
  BY <1>12 DEF SaveNewest, LockInvariant, WritesUpToDate, Served
<1> QED
  BY <1>9, <1>10, <1>11, <1>13 DEF LockInvariant

\* set_configs takes the lock, if it is going to write, only for a newer file.
LEMMA HandleRequestLock ==
    ASSUME LockInvariant, NEW n \in Nodes, HandleRequest(n)
    PROVE  LockInvariant'
<1>1. PICK r \in requests : HandleRequest(n)!(r)
  BY DEF HandleRequest
<1>2. r \in RequestSet /\ file[n] \in File /\ r.file \in File
  BY DEF LockInvariant, TypeOK, RequestSet
<1>3. requests' \subseteq RequestSet /\ failures' \in 0 .. MaxFailures
  BY <1>1 DEF LockInvariant, TypeOK
<1>4. CASE /\ RemoteIsNewer(r.file, file[n])
           /\ lock' = [lock EXCEPT ![n] = "set"]
           /\ setting' = [setting EXCEPT ![n] = r]
           /\ UNCHANGED cmd
  <2>1. file[n].version <= r.file.version
    BY <1>2, <1>4, AcceptedIsUpToDate
  <2>2. /\ lock \in [Nodes -> {"free", "pull", "set"}]
        /\ setting \in [Nodes -> RequestSet \cup {NoRequest}]
    BY DEF LockInvariant, TypeOK
  <2>3. TypeOK'
    BY <1>1, <1>2, <1>3, <1>4, <2>2 DEF LockInvariant, TypeOK
  <2>4. r # NoRequest
    BY <1>2, CfgSyncAssumption
  <2>5. LockHeld'
    BY <1>1, <1>4, <2>2, <2>4 DEF LockInvariant, LockHeld
  <2>6. FilesPresent'
    BY <1>1, <1>4 DEF LockInvariant, FilesPresent
  <2>7. WritesUpToDate'
    BY <1>1, <1>4, <2>1, <2>2 DEF LockInvariant, WritesUpToDate, Served
  <2> QED
    BY <2>3, <2>5, <2>6, <2>7 DEF LockInvariant
<1>5. ASSUME NEW result \in {"accepted", "rejected", "failed"},
             cmd' = Answered(r, result), UNCHANGED <<lock, setting>>
      PROVE  LockInvariant'
  <2>1. /\ cmd' \in [Commands -> CommandRecord]
        /\ \A c \in Commands : /\ cmd'[c].phase = cmd[c].phase
                               /\ cmd'[c].new = cmd[c].new
                               /\ cmd'[c].base = cmd[c].base
    BY <1>2, <1>5, AnsweredType DEF LockInvariant
  <2>2. \A c \in Commands : /\ cmd'[c].phase = "save" => cmd'[c].new # NoFile
                            /\ cmd'[c].phase # "idle" => cmd'[c].base # NoFile
    BY <2>1 DEF LockInvariant, FilesPresent
  <2> QED
    BY <1>1, <1>3, <1>5, <2>1, <2>2, CommandOnly
<1> QED
  BY <1>1, <1>4, <1>5

\* set_configs writes, if it can, and releases the lock.
LEMMA FinishSetLock ==
    ASSUME LockInvariant, NEW n \in Nodes, FinishSet(n)
    PROVE  LockInvariant'
<1> DEFINE r == setting[n]
<1>1. /\ file \in [Nodes -> File]
      /\ lock \in [Nodes -> {"free", "pull", "set"}]
      /\ setting \in [Nodes -> RequestSet \cup {NoRequest}]
  BY DEF LockInvariant, TypeOK
<1>2. /\ r \in RequestSet
      /\ pull[n].phase = "idle"
  BY <1>1 DEF FinishSet, LockInvariant, LockHeld
<1>3. r.file \in File
  BY <1>2 DEF RequestSet
<1>4. PICK result \in {"accepted", "rejected", "failed"} :
         cmd' = Answered(r, result)
  BY DEF FinishSet
<1>5. /\ cmd' \in [Commands -> CommandRecord]
      /\ \A c \in Commands : /\ cmd'[c].phase = cmd[c].phase
                             /\ cmd'[c].new = cmd[c].new
                             /\ cmd'[c].base = cmd[c].base
  BY <1>2, <1>4, AnsweredType DEF LockInvariant
<1>6. failures' \in 0 .. MaxFailures
  BY FailType DEF FinishSet, LockInvariant, TypeOK
<1>7. file' \in [Nodes -> File]
  BY <1>1, <1>3 DEF FinishSet
<1>8. TypeOK'
  BY <1>1, <1>5, <1>6, <1>7 DEF FinishSet, LockInvariant, TypeOK
<1>9. LockHeld'
  BY <1>1, <1>2 DEF FinishSet, LockInvariant, LockHeld
<1>10. FilesPresent'
  BY <1>5 DEF FinishSet, LockInvariant, FilesPresent
<1>11. WritesUpToDate'
  BY <1>1, <1>2 DEF FinishSet, LockInvariant, WritesUpToDate, Served
<1> QED
  BY <1>8, <1>9, <1>10, <1>11 DEF LockInvariant

\* A pull's record keeps its type; what pull is not concerned with is kept.
LEMMA PullOnly ==
    ASSUME LockInvariant, UNCHANGED <<setting, requests, cmd>>,
           file' \in [Nodes -> File], failures' \in 0 .. MaxFailures,
           NEW n \in Nodes, NEW next \in PullRecord,
           NEW l \in {"free", "pull", "set"},
           \A m \in Nodes \ {n} : file'[m] = file[m],
           pull' = [pull EXCEPT ![n] = next],
           lock' = [lock EXCEPT ![n] = l],
           l = "pull" <=> next.phase # "idle",
           l # "set" /\ setting[n] = NoRequest,
           next.phase = "save" =>
              next.new # NoFile /\ file'[n].version <= next.new.version
    PROVE  LockInvariant'
<1>1. /\ lock \in [Nodes -> {"free", "pull", "set"}]
      /\ pull \in [Nodes -> PullRecord]
  BY DEF LockInvariant, TypeOK
<1>2. TypeOK'
  BY <1>1 DEF LockInvariant, TypeOK
<1>3. LockHeld'
  BY <1>1 DEF LockInvariant, LockHeld
<1>4. FilesPresent'
  BY <1>1 DEF LockInvariant, FilesPresent
<1>5. WritesUpToDate'
  BY <1>1 DEF LockInvariant, WritesUpToDate, Served
<1> QED
  BY <1>2, <1>3, <1>4, <1>5 DEF LockInvariant

\* The record of a new pull, or of one that is about to save.
LEMMA PullType ==
    ASSUME NEW phase \in {"idle", "fetch", "save"},
           NEW new \in File \cup {NoFile}
    PROVE  /\ Pull(phase, new) \in PullRecord
           /\ Pull(phase, new).phase = phase
           /\ Pull(phase, new).new = new
BY DEF Pull, PullRecord, NoAnswers

\* The pull takes the lock.
LEMMA StartPullLock ==
    ASSUME LockInvariant, NEW n \in Nodes, StartPull(n)
    PROVE  LockInvariant'
<1>1. /\ file' \in [Nodes -> File]
      /\ failures' \in 0 .. MaxFailures
      /\ setting[n] = NoRequest
  BY DEF StartPull, LockInvariant, TypeOK, LockHeld
<1> DEFINE next == Pull("fetch", NoFile)
<1>2. next \in PullRecord /\ next.phase = "fetch"
  BY PullType
<1>3. pull' = [pull EXCEPT ![n] = next] /\ lock' = [lock EXCEPT ![n] = "pull"]
  BY DEF StartPull
<1> HIDE DEF next
<1> QED
  BY <1>1, <1>2, <1>3, PullOnly DEF StartPull

\* An answer of get_configs, or none.
LEMMA PullAnswerLock ==
    ASSUME LockInvariant, NEW n \in Nodes, NEW m \in Nodes, PullAnswer(n, m)
    PROVE  LockInvariant'
<1>1. /\ pull[n] \in PullRecord
      /\ lock[n] = "pull"
      /\ pull[n].phase = "fetch"
      /\ setting[n] = NoRequest
  BY DEF PullAnswer, LockInvariant, TypeOK, LockHeld
<1>2. file' \in [Nodes -> File] /\ lock \in [Nodes -> {"free", "pull", "set"}]
  BY DEF PullAnswer, LockInvariant, TypeOK
<1>3. failures' \in 0 .. MaxFailures
  BY FailType DEF PullAnswer, LockInvariant, TypeOK
<1>4. lock' = [lock EXCEPT ![n] = "pull"]
  BY <1>1, <1>2 DEF PullAnswer
<1>5. CASE pull' = [pull EXCEPT ![n].asked = @ \cup {m}, ![n].answer[m] = file[m]]
  <2> DEFINE answers == [pull[n].answer EXCEPT ![m] = file[m]]
             next == [pull[n] EXCEPT !.asked = @ \cup {m}, !.answer = answers]
  <2>1. answers \in [Nodes -> File \cup {NoFile}]
    BY <1>1 DEF PullRecord, LockInvariant, TypeOK
  <2>2. pull' = [pull EXCEPT ![n] = next]
    BY <1>5
  <2> HIDE DEF answers
  <2>3. next \in PullRecord /\ next.phase = "fetch"
    BY <1>1, <2>1 DEF PullRecord
  <2> HIDE DEF next
  <2> QED
    BY <1>1, <1>2, <1>3, <1>4, <2>2, <2>3, PullOnly DEF PullAnswer
<1>6. CASE pull' = [pull EXCEPT ![n].asked = @ \cup {m}]
  <2> DEFINE next == [pull[n] EXCEPT !.asked = @ \cup {m}]
  <2>1. pull' = [pull EXCEPT ![n] = next]
    BY <1>6
  <2>2. next \in PullRecord /\ next.phase = "fetch"
    BY <1>1 DEF PullRecord
  <2> HIDE DEF next
  <2> QED
    BY <1>1, <1>2, <1>3, <1>4, <2>1, <2>2, PullOnly DEF PullAnswer
<1> QED
  BY <1>5, <1>6 DEF PullAnswer

\* The pull has a file to save, which is no older than the local one, or
\* releases the lock.
LEMMA EndPullFetchLock ==
    ASSUME LockInvariant, NEW n \in Nodes, EndPullFetch(n)
    PROVE  LockInvariant'
<1>1. /\ pull[n] \in PullRecord
      /\ lock[n] = "pull"
      /\ setting[n] = NoRequest
      /\ file[n] \in File
  BY DEF EndPullFetch, LockInvariant, TypeOK, LockHeld
<1>2. /\ file' \in [Nodes -> File]
      /\ failures' \in 0 .. MaxFailures
      /\ lock \in [Nodes -> {"free", "pull", "set"}]
  BY DEF EndPullFetch, LockInvariant, TypeOK
<1>3. PICK newest \in NewestConfigs(pull[n].answer) :
         LET new == ToUpdate(file[n], newest) IN
            /\ pull' = [pull EXCEPT
                          ![n] = Pull(IF new = NoFile THEN "idle" ELSE "save",
                                      new)]
            /\ lock' = IF new = NoFile THEN [lock EXCEPT ![n] = "free"]
                                       ELSE lock
  BY DEF EndPullFetch
<1> DEFINE new == ToUpdate(file[n], newest)
<1>4. newest \in File \cup {NoFile}
  <2>1. pull[n].answer \in [Nodes -> File \cup {NoFile}]
    BY <1>1 DEF PullRecord
  <2> QED
    BY <2>1, NewestIsAnswer
<1>5. new # NoFile => new \in File /\ file[n].version <= new.version
  BY <1>1, <1>4, FetchedIsUpToDate
<1>6. CASE new = NoFile
  <2> DEFINE next == Pull("idle", NoFile)
  <2>1. next \in PullRecord /\ next.phase = "idle"
    BY PullType
  <2>2. pull' = [pull EXCEPT ![n] = next] /\ lock' = [lock EXCEPT ![n] = "free"]
    BY <1>3, <1>6
  <2> HIDE DEF next
  <2> QED
    BY <1>1, <1>2, <2>1, <2>2, PullOnly DEF EndPullFetch
<1>7. CASE new # NoFile
  <2> DEFINE next == Pull("save", new)
  <2>1. next \in PullRecord /\ next.phase = "save" /\ next.new = new
    BY <1>5, <1>7, PullType
  <2>2. pull' = [pull EXCEPT ![n] = next] /\ lock' = lock
    BY <1>3, <1>7
  <2> HIDE DEF next, new
  <2>3. lock' = [lock EXCEPT ![n] = "pull"]
    BY <1>1, <1>2, <2>2
  <2> QED
    BY <1>1, <1>2, <1>5, <1>7, <2>1, <2>2, <2>3, PullOnly DEF EndPullFetch
<1> QED
  BY <1>6, <1>7

\* The pull writes, if it can, and releases the lock.
LEMMA PullSaveLock ==
    ASSUME LockInvariant, NEW n \in Nodes, PullSave(n)
    PROVE  LockInvariant'
<1>1. /\ pull[n] \in PullRecord
      /\ pull[n].new # NoFile
      /\ setting[n] = NoRequest
      /\ file \in [Nodes -> File]
  BY DEF PullSave, LockInvariant, TypeOK, LockHeld, FilesPresent
<1>2. pull[n].new \in File
  BY <1>1 DEF PullRecord
<1>3. file' \in [Nodes -> File] /\ \A m \in Nodes \ {n} : file'[m] = file[m]
  BY <1>1, <1>2 DEF PullSave
<1>4. failures' \in 0 .. MaxFailures
  BY FailType DEF PullSave, LockInvariant, TypeOK
<1> DEFINE next == Pull("idle", NoFile)
<1>5. next \in PullRecord /\ next.phase = "idle"
  BY PullType
<1>6. pull' = [pull EXCEPT ![n] = next] /\ lock' = [lock EXCEPT ![n] = "free"]
  BY DEF PullSave
<1> HIDE DEF next
<1> QED
  BY <1>1, <1>3, <1>4, <1>5, <1>6, PullOnly DEF PullSave

\* Every step preserves the invariant.
LEMMA NextLock == LockInvariant /\ [Next]_vars => LockInvariant'
<1> SUFFICES ASSUME LockInvariant, [Next]_vars PROVE LockInvariant'
  OBVIOUS
<1>1. ASSUME NEW c \in Commands, Start(c) PROVE LockInvariant'
  BY <1>1, StartLock
<1>2. ASSUME NEW c \in Commands, CommandStep(c) PROVE LockInvariant'
  BY <1>2, EndPushLock, FetchAnswerLock, EndFetchLock, SaveNewestLock
     DEF CommandStep
<1>3. ASSUME NEW c \in Commands, NEW n \in Nodes, RequestFails(c, n)
      PROVE  LockInvariant'
  BY <1>3, RequestFailsLock
<1>4. ASSUME NEW n \in Nodes, HandleRequest(n) \/ FinishSet(n) \/ StartPull(n)
      PROVE  LockInvariant'
  BY <1>4, HandleRequestLock, FinishSetLock, StartPullLock
<1>5. ASSUME NEW n \in Nodes, PullStep(n) PROVE LockInvariant'
  BY <1>5, PullAnswerLock, EndPullFetchLock, PullSaveLock DEF PullStep
<1>6. CASE UNCHANGED vars
  BY <1>6 DEF vars, LockInvariant, TypeOK, LockHeld, FilesPresent,
              WritesUpToDate, Served
<1> QED
  BY <1>1, <1>2, <1>3, <1>4, <1>5, <1>6 DEF Next

-----------------------------------------------------------------------------
\* The lock invariant holds in every reachable state, whatever the number of
\* nodes, commands and failures: set_configs and the pull of a node exclude
\* each other, and what either is about to write is not outdated.
THEOREM LockSafety == Spec => []LockInvariant
BY InitLock, NextLock, PTL DEF Spec

\* A step never replaces the file of a node without commands by an older one.
LEMMA StepForward ==
    ASSUME LockInvariant, [Next]_vars, NEW n \in Served
    PROVE  file[n].version <= file'[n].version
<1>1. /\ file \in [Nodes -> File]
      /\ n \in Nodes
      /\ \A c \in Commands : At[c] # n
      /\ file[n].version <= file[n].version
  BY DEF LockInvariant, TypeOK, Served, File
<1>2. ASSUME NEW c \in Commands, Start(c) PROVE file' = file
  BY <1>2 DEF Start
<1>3. ASSUME NEW c \in Commands, CommandStep(c) PROVE file'[n] = file[n]
  BY <1>1, <1>3 DEF CommandStep, EndPush, FetchAnswer, EndFetch, SaveNewest
<1>4. ASSUME NEW c \in Commands, NEW m \in Nodes, RequestFails(c, m)
      PROVE  file' = file
  BY <1>4 DEF RequestFails
<1>5. ASSUME NEW m \in Nodes, HandleRequest(m) PROVE file' = file
  BY <1>5 DEF HandleRequest
<1>6. ASSUME NEW m \in Nodes, FinishSet(m)
      PROVE  file[n].version <= file'[n].version
  <2>1. setting[m] # NoRequest
    BY <1>6 DEF FinishSet, LockInvariant, LockHeld
  <2> QED
    BY <1>1, <1>6, <2>1 DEF FinishSet, LockInvariant, WritesUpToDate
<1>7. ASSUME NEW m \in Nodes, StartPull(m) PROVE file' = file
  BY <1>7 DEF StartPull
<1>8. ASSUME NEW m \in Nodes, PullStep(m)
      PROVE  file[n].version <= file'[n].version
  BY <1>1, <1>8 DEF PullStep, PullAnswer, EndPullFetch, PullSave,
                    LockInvariant, WritesUpToDate
<1>9. CASE UNCHANGED vars
  BY <1>1, <1>9 DEF vars
<1> QED
  BY <1>1, <1>2, <1>3, <1>4, <1>5, <1>6, <1>7, <1>8, <1>9 DEF Next

\* On a node that runs no commands the file never goes back to an older
\* version, although its pull may save answers that are long out of date.
THEOREM ServedForward == Spec => ServedNodesForward
<1>1. LockInvariant /\ [Next]_vars
        => [\A n \in Served : file[n].version <= file'[n].version]_vars
  BY StepForward
<1> QED
  BY <1>1, LockSafety, PTL DEF Spec, ServedNodesForward
-----------------------------------------------------------------------------
(* The entries of a command that was alone.                                *)

\* _find_newest_config returns one of the files it was given, or None.
LEMMA NewestIsGiven ==
    ASSUME NEW answers \in [Nodes -> File \cup {NoFile}],
           NEW f \in NewestConfigs(answers), f # NoFile
    PROVE  \E n \in Nodes : answers[n] = f
BY DEF NewestConfigs

\* What a pull has seen, element by element.
LEMMA SeenElements ==
    ASSUME NEW p \in PullRecord, NEW f
    PROVE  f \in Seen(p) <=> /\ f # NoFile
                             /\ f = p.new \/ \E n \in Nodes : f = p.answer[n]
BY DEF Seen

\* The file a command pushes alone is a file, and is newer than its base.
LEMMA SentIsNewer ==
    ASSUME LockInvariant, NEW c \in Commands, cmd[c].phase # "idle"
    PROVE  /\ cmd[c].base \in File
           /\ Sent(c, cmd[c].base) \in File
           /\ Sent(c, cmd[c].base).version > cmd[c].base.version
<1>1. cmd[c].base \in File
  BY CommandTypes DEF LockInvariant, FilesPresent, CommandRecord
<1> QED
  BY <1>1, CfgSyncAssumption DEF Sent, File

\* The file a command pushes has what it adds.
LEMMA SentKeeps ==
    ASSUME LockInvariant, NEW c \in Commands, cmd[c].phase # "idle"
    PROVE  Keeps(c, cmd[c].base, Sent(c, cmd[c].base))
BY SentIsNewer DEF Keeps, Sent, Lasting

\* A file that a pull or a command chooses over one that keeps the entries of c
\* keeps them as well.
LEMMA ChosenKeeps ==
    ASSUME NEW c \in Commands, NEW base \in File, NEW local \in File,
           NEW newest \in File \cup {NoFile}, Keeps(c, base, local),
           newest # NoFile => KeepsOrOld(c, base, newest),
           ToUpdate(local, newest) # NoFile
    PROVE  Keeps(c, base, ToUpdate(local, newest))
BY CfgSyncAssumption DEF ToUpdate, Keeps, KeepsOrOld, File

\* The file that was pushed is not replaced by an older one.
LEMMA SentStays ==
    ASSUME NEW c \in Commands, NEW base \in File,
           NEW newest \in File \cup {NoFile},
           newest # NoFile => FromPush(c, base, newest)
    PROVE  ToUpdate(Sent(c, base), newest) = NoFile
BY CfgSyncAssumption DEF ToUpdate, FromPush, Sent, File

\* The initial states satisfy the invariant: no command has started.
LEMMA InitAlone == Init => AloneInvariant
BY DEF Init, AloneInvariant, RequestsStarted, NewCommand, Succeeded

\* A step of the pull of node n preserves the invariant if the file it leaves
\* there, the files it has seen and the one it will save are harmless.
LEMMA PullKeeps ==
    ASSUME LockInvariant, AloneInvariant, UNCHANGED <<setting, requests, cmd>>,
           NEW n \in Nodes, NEW next \in PullRecord,
           \A m \in Nodes \ {n} : file'[m] = file[m],
           pull' = [pull EXCEPT ![n] = next],
           \A c \in Commands : cmd[c].alone =>
              /\ cmd[c].phase = "push" =>
                    /\ FromPush(c, cmd[c].base, file'[n])
                    /\ \A f \in Seen(next) : FromPush(c, cmd[c].base, f)
                    /\ cmd[c].result[n] = "accepted" =>
                          /\ file'[n] = Sent(c, cmd[c].base)
                          /\ next.phase # "save"
              /\ Succeeded(c) =>
                    /\ Keeps(c, cmd[c].base, file'[n])
                    /\ \A f \in Seen(next) : KeepsOrOld(c, cmd[c].base, f)
                    /\ next.phase = "save" => Keeps(c, cmd[c].base, next.new)
    PROVE  AloneInvariant'
<1>1. /\ pull'[n] = next
      /\ \A m \in Nodes \ {n} : pull'[m] = pull[m]
  BY DEF LockInvariant, TypeOK
<1>2. RequestsStarted'
  BY DEF AloneInvariant, RequestsStarted
<1>3. ASSUME NEW c \in Commands, cmd'[c].alone
      PROVE  /\ cmd'[c].phase \notin {"fetch", "save"}
             /\ cmd'[c].phase = "push" => PushesAlone(c)'
             /\ Succeeded(c)' => HasSpread(c)'
  <2>1. cmd[c].alone
    BY <1>3
  <2>2. cmd'[c].phase \notin {"fetch", "save"}
    BY <2>1 DEF AloneInvariant
  <2>3. ASSUME cmd'[c].phase = "push" PROVE PushesAlone(c)'
    <3>1. PushesAlone(c)
      BY <2>1, <2>3 DEF AloneInvariant
    <3> QED
      BY <1>1, <2>1, <2>3, <3>1 DEF PushesAlone, Busy
  <2>4. ASSUME Succeeded(c)' PROVE HasSpread(c)'
    <3>1. HasSpread(c) /\ Succeeded(c)
      BY <2>1, <2>4 DEF AloneInvariant, Succeeded
    <3> QED
      BY <1>1, <2>1, <3>1 DEF HasSpread
  <2> QED
    BY <2>2, <2>3, <2>4
<1> QED
  BY <1>2, <1>3 DEF AloneInvariant

\* What holds of a command that was alone, with its types at hand.
LEMMA AloneFacts ==
    ASSUME LockInvariant, AloneInvariant, NEW c \in Commands, cmd[c].alone
    PROVE  /\ cmd[c].phase \notin {"fetch", "save"}
           /\ cmd[c].phase = "push" =>
                 PushesAlone(c) /\ cmd[c].base \in File
           /\ Succeeded(c) =>
                 HasSpread(c) /\ cmd[c].base \in File
BY SentIsNewer DEF AloneInvariant, Succeeded

\* A new pull has seen nothing.
LEMMA NothingSeen ==
    ASSUME NEW phase \in {"idle", "fetch"}
    PROVE  Seen(Pull(phase, NoFile)) = {}
BY DEF Seen, Pull, NoAnswers

\* The pull takes the lock.
LEMMA StartPullAlone ==
    ASSUME LockInvariant, AloneInvariant, NEW n \in Nodes, StartPull(n)
    PROVE  AloneInvariant'
<1> DEFINE next == Pull("fetch", NoFile)
<1>1. next \in PullRecord /\ next.phase = "fetch" /\ Seen(next) = {}
  BY PullType, NothingSeen
<1>2. pull' = [pull EXCEPT ![n] = next] /\ UNCHANGED <<file, setting, requests, cmd>>
  BY DEF StartPull
<1> HIDE DEF next
<1>3. ASSUME NEW c \in Commands, cmd[c].alone
      PROVE  /\ cmd[c].phase = "push" =>
                    /\ FromPush(c, cmd[c].base, file'[n])
                    /\ cmd[c].result[n] = "accepted" =>
                          file'[n] = Sent(c, cmd[c].base)
             /\ Succeeded(c) => Keeps(c, cmd[c].base, file'[n])
  BY <1>2, <1>3, AloneFacts DEF PushesAlone, HasSpread
<1> QED
  BY <1>1, <1>2, <1>3, PullKeeps

\* The pull receives the file of node m, or nothing.
LEMMA PullAnswerAlone ==
    ASSUME LockInvariant, AloneInvariant, NEW n \in Nodes, NEW m \in Nodes,
           PullAnswer(n, m)
    PROVE  AloneInvariant'
<1> DEFINE next == pull'[n]
<1>1. /\ pull \in [Nodes -> PullRecord]
      /\ pull[n] \in PullRecord
      /\ pull[n].answer \in [Nodes -> File \cup {NoFile}]
      /\ pull[n].phase = "fetch"
  BY DEF PullAnswer, LockInvariant, TypeOK, PullRecord
<1>2. UNCHANGED <<file, setting, requests, cmd>>
  BY DEF PullAnswer
<1>3. /\ next \in PullRecord
      /\ pull' = [pull EXCEPT ![n] = next]
  <2>1. LockInvariant'
    BY PullAnswerLock
  <2>2. pull' \in [Nodes -> PullRecord] /\ \A k \in Nodes \ {n} : pull'[k] = pull[k]
    BY <1>1, <2>1 DEF LockInvariant, TypeOK, PullAnswer
  <2> QED
    BY <1>1, <2>2
<1>4. /\ next.phase = "fetch"
      /\ next.new = pull[n].new
      /\ \A k \in Nodes : next.answer[k] \in {pull[n].answer[k], file[k]}
  BY <1>1 DEF PullAnswer, PullRecord
<1> HIDE DEF next
<1>5. ASSUME NEW f \in Seen(next)
      PROVE  f \in Seen(pull[n]) \/ \E k \in Nodes : f = file[k]
  BY <1>1, <1>3, <1>4, SeenElements
<1>6. ASSUME NEW c \in Commands, cmd[c].alone
      PROVE  /\ cmd[c].phase = "push" =>
                    /\ FromPush(c, cmd[c].base, file'[n])
                    /\ \A f \in Seen(next) : FromPush(c, cmd[c].base, f)
                    /\ cmd[c].result[n] = "accepted" =>
                          /\ file'[n] = Sent(c, cmd[c].base)
                          /\ next.phase # "save"
             /\ Succeeded(c) =>
                    /\ Keeps(c, cmd[c].base, file'[n])
                    /\ \A f \in Seen(next) : KeepsOrOld(c, cmd[c].base, f)
                    /\ next.phase = "save" => Keeps(c, cmd[c].base, next.new)
  BY <1>2, <1>4, <1>5, <1>6, AloneFacts DEF PushesAlone, HasSpread, KeepsOrOld
<1> QED
  BY <1>2, <1>3, <1>6, PullKeeps

\* The pull decides what to save: an outdated answer does not win over the file
\* that a command has pushed alone.
LEMMA EndPullFetchAlone ==
    ASSUME LockInvariant, AloneInvariant, NEW n \in Nodes, EndPullFetch(n)
    PROVE  AloneInvariant'
<1>1. /\ pull[n] \in PullRecord
      /\ pull[n].answer \in [Nodes -> File \cup {NoFile}]
      /\ file[n] \in File
      /\ UNCHANGED <<file, setting, requests, cmd>>
  BY DEF EndPullFetch, LockInvariant, TypeOK, PullRecord
<1>2. PICK newest \in NewestConfigs(pull[n].answer) :
         LET new == ToUpdate(file[n], newest)
         IN pull' = [pull EXCEPT
                       ![n] = Pull(IF new = NoFile THEN "idle" ELSE "save", new)]
  BY DEF EndPullFetch
<1> DEFINE new == ToUpdate(file[n], newest)
           phase == IF new = NoFile THEN "idle" ELSE "save"
           next == Pull(phase, new)
<1>3. newest \in File \cup {NoFile}
  BY <1>1, NewestIsAnswer
<1>4. newest # NoFile => newest \in Seen(pull[n])
  BY <1>1, NewestIsGiven, SeenElements
<1>5. new = NoFile \/ (new = newest /\ new \in File)
  BY <1>3 DEF ToUpdate
<1>6. pull' = [pull EXCEPT ![n] = next]
  BY <1>2
<1>7. /\ next \in PullRecord
      /\ next.phase = "save" => new # NoFile
      /\ next.new = new
      /\ \A k \in Nodes : next.answer[k] = NoFile
  BY <1>5 DEF Pull, PullRecord, NoAnswers
<1> HIDE DEF next, new
<1>8. \A f \in Seen(next) : f = new /\ new # NoFile
  BY <1>7, SeenElements
<1>9. ASSUME NEW c \in Commands, cmd[c].alone, cmd[c].phase = "push"
      PROVE  /\ FromPush(c, cmd[c].base, file'[n])
             /\ \A f \in Seen(next) : FromPush(c, cmd[c].base, f)
             /\ cmd[c].result[n] = "accepted" =>
                   /\ file'[n] = Sent(c, cmd[c].base)
                   /\ next.phase # "save"
  <2>1. PushesAlone(c) /\ cmd[c].base \in File
    BY <1>9, AloneFacts
  <2>2. newest # NoFile => FromPush(c, cmd[c].base, newest)
    BY <1>4, <2>1 DEF PushesAlone
  <2>3. cmd[c].result[n] = "accepted" => new = NoFile
    BY <1>3, <2>1, <2>2, SentStays DEF PushesAlone, new
  <2> QED
    BY <1>1, <1>5, <1>7, <1>8, <2>1, <2>2, <2>3 DEF PushesAlone
<1>10. ASSUME NEW c \in Commands, cmd[c].alone, Succeeded(c)
      PROVE  /\ Keeps(c, cmd[c].base, file'[n])
             /\ \A f \in Seen(next) : KeepsOrOld(c, cmd[c].base, f)
             /\ next.phase = "save" => Keeps(c, cmd[c].base, next.new)
  <2>1. HasSpread(c) /\ cmd[c].base \in File
    BY <1>10, AloneFacts
  <2>2. newest # NoFile => KeepsOrOld(c, cmd[c].base, newest)
    BY <1>4, <2>1 DEF HasSpread
  <2>3. Keeps(c, cmd[c].base, file[n])
    BY <2>1 DEF HasSpread
  <2>4. new # NoFile => Keeps(c, cmd[c].base, new)
    BY <1>1, <1>3, <2>1, <2>2, <2>3, ChosenKeeps DEF new
  <2> QED
    BY <1>1, <1>7, <1>8, <2>3, <2>4 DEF KeepsOrOld
<1> QED
  BY <1>1, <1>6, <1>7, <1>9, <1>10, PullKeeps

\* The pull writes, if it can.
LEMMA PullSaveAlone ==
    ASSUME LockInvariant, AloneInvariant, NEW n \in Nodes, PullSave(n)
    PROVE  AloneInvariant'
<1> DEFINE next == Pull("idle", NoFile)
<1>1. next \in PullRecord /\ next.phase = "idle" /\ Seen(next) = {}
  BY PullType, NothingSeen
<1>2. /\ pull' = [pull EXCEPT ![n] = next]
      /\ UNCHANGED <<setting, requests, cmd>>
      /\ pull[n].phase = "save"
  BY DEF PullSave
<1> HIDE DEF next
<1>3. /\ file'[n] \in {file[n], pull[n].new}
      /\ \A m \in Nodes \ {n} : file'[m] = file[m]
  BY DEF PullSave, LockInvariant, TypeOK
<1>4. pull[n].new \in Seen(pull[n])
  <2>1. pull[n] \in PullRecord /\ pull[n].new # NoFile
    BY <1>2 DEF LockInvariant, TypeOK, FilesPresent
  <2> QED
    BY <2>1, SeenElements
<1>5. ASSUME NEW c \in Commands, cmd[c].alone
      PROVE  /\ cmd[c].phase = "push" =>
                    /\ FromPush(c, cmd[c].base, file'[n])
                    /\ cmd[c].result[n] # "accepted"
             /\ Succeeded(c) => Keeps(c, cmd[c].base, file'[n])
  BY <1>2, <1>3, <1>4, <1>5, AloneFacts DEF PushesAlone, HasSpread
<1> QED
  BY <1>1, <1>2, <1>3, <1>5, PullKeeps

\* set_configs, or the loss of a request to node n, preserves the invariant if
\* the file it leaves there, what it is about to write and what it answers are
\* harmless.
LEMMA RequestKeeps ==
    ASSUME LockInvariant, AloneInvariant, UNCHANGED pull,
           requests' \subseteq requests, NEW n \in Nodes,
           \A m \in Nodes \ {n} : file'[m] = file[m] /\ setting'[m] = setting[m],
           setting'[n] # NoRequest => /\ setting'[n].cmd \in Commands
                                      /\ cmd[setting'[n].cmd].phase # "idle"
                                      /\ setting'[n].node = n,
           \A c \in Commands :
              /\ cmd'[c].phase = cmd[c].phase
              /\ cmd'[c].round = cmd[c].round
              /\ cmd'[c].base = cmd[c].base
              /\ cmd'[c].alone = cmd[c].alone
              /\ cmd'[c].new = cmd[c].new
              /\ cmd'[c].answer = cmd[c].answer
              /\ \A m \in Nodes : \/ cmd'[c].result[m] = cmd[c].result[m]
                                  \/ m = n /\ cmd[c].phase = "push",
           \A c \in Commands : cmd[c].alone =>
              /\ cmd[c].phase = "push" =>
                    /\ FromPush(c, cmd[c].base, file'[n])
                    /\ setting'[n] # NoRequest =>
                          setting'[n].file = Sent(c, cmd[c].base)
                    /\ cmd'[c].result[n] # "rejected"
                    /\ cmd'[c].result[n] = "accepted" =>
                          /\ file'[n] = Sent(c, cmd[c].base)
                          /\ pull[n].phase # "save"
              /\ Succeeded(c) =>
                    /\ Keeps(c, cmd[c].base, file'[n])
                    /\ setting'[n] # NoRequest =>
                          Keeps(c, cmd[c].base, setting'[n].file)
    PROVE  AloneInvariant'
<1>1. RequestsStarted'
  <2>1. \A r \in requests : r.cmd \in Commands
    BY DEF LockInvariant, TypeOK, RequestSet
  <2>2. \A m \in Nodes : setting'[m] # NoRequest => setting'[m].cmd \in Commands
    <3>1. \A m \in Nodes : setting[m] # NoRequest => setting[m].cmd \in Commands
      BY DEF LockInvariant, TypeOK, RequestSet
    <3> QED
      BY <3>1
  <2> QED
    BY <2>1, <2>2 DEF AloneInvariant, RequestsStarted
<1>2. ASSUME NEW c \in Commands, cmd'[c].alone
      PROVE  /\ cmd'[c].phase \notin {"fetch", "save"}
             /\ cmd'[c].phase = "push" => PushesAlone(c)'
             /\ Succeeded(c)' => HasSpread(c)'
  <2>1. cmd[c].alone
    BY <1>2
  <2>2. cmd'[c].phase \notin {"fetch", "save"}
    BY <2>1 DEF AloneInvariant
  <2>3. ASSUME cmd'[c].phase = "push" PROVE PushesAlone(c)'
    <3>1. PushesAlone(c)
      BY <2>1, <2>3 DEF AloneInvariant
    <3> QED
      BY <2>1, <2>3, <3>1 DEF PushesAlone, Busy
  <2>4. ASSUME Succeeded(c)' PROVE HasSpread(c)'
    <3>1. HasSpread(c) /\ Succeeded(c)
      BY <2>1, <2>4 DEF AloneInvariant, Succeeded
    <3> QED
      BY <2>1, <3>1 DEF HasSpread
  <2> QED
    BY <2>2, <2>3, <2>4
<1> QED
  BY <1>1, <1>2 DEF AloneInvariant

\* What an answer changes in the commands.
LEMMA AnsweredEffect ==
    ASSUME TypeOK, NEW r \in RequestSet,
           NEW result \in {"accepted", "rejected", "failed"},
           NEW c \in Commands
    PROVE  /\ Answered(r, result)[c].phase = cmd[c].phase
           /\ Answered(r, result)[c].round = cmd[c].round
           /\ Answered(r, result)[c].base = cmd[c].base
           /\ Answered(r, result)[c].alone = cmd[c].alone
           /\ Answered(r, result)[c].new = cmd[c].new
           /\ Answered(r, result)[c].answer = cmd[c].answer
           /\ \A m \in Nodes :
                 \/ Answered(r, result)[c].result[m] = cmd[c].result[m]
                 \/ /\ c = r.cmd /\ m = r.node /\ cmd[c].phase = "push"
                    /\ Answered(r, result)[c].result[m] = result
<1> DEFINE n == r.node
           new == IF cmd[c].phase = "push" /\ cmd[c].round = r.round
                        /\ cmd[c].result[n] = "none"
                  THEN result ELSE cmd[c].result[n]
           results == [cmd[c].result EXCEPT ![n] = new]
<1>1. /\ cmd[c] \in CommandRecord
      /\ cmd \in [Commands -> CommandRecord]
      /\ n \in Nodes
      /\ cmd[c].result \in [Nodes -> {"none", "accepted", "rejected", "failed"}]
  BY DEF TypeOK, CommandRecord, RequestSet
<1>2. CASE c = r.cmd
  <2>1. Answered(r, result)[c] = [cmd[c] EXCEPT !.result = results]
    BY <1>1, <1>2 DEF Answered
  <2>2. \A m \in Nodes : \/ results[m] = cmd[c].result[m]
                         \/ m = n /\ cmd[c].phase = "push" /\ results[m] = result
    BY <1>1
  <2> HIDE DEF results
  <2> QED
    BY <1>1, <1>2, <2>1, <2>2 DEF CommandRecord
<1>3. CASE c # r.cmd
  BY <1>1, <1>3 DEF Answered
<1> QED
  BY <1>2, <1>3

\* set_configs decides: a file that was pushed alone is never rejected.
LEMMA HandleRequestAlone ==
    ASSUME LockInvariant, AloneInvariant, NEW n \in Nodes, HandleRequest(n)
    PROVE  AloneInvariant'
<1>1. PICK r \in requests : HandleRequest(n)!(r)
  BY DEF HandleRequest
<1>2. /\ r \in RequestSet /\ file[n] \in File /\ r.file \in File
      /\ r.cmd \in Commands /\ r.node = n
      /\ cmd[r.cmd].phase # "idle"
  BY <1>1 DEF LockInvariant, TypeOK, RequestSet, AloneInvariant, RequestsStarted
<1>3. /\ requests' \subseteq requests
      /\ UNCHANGED <<file, pull>>
      /\ pull[n].phase # "save"
      /\ setting[n] = NoRequest
  BY <1>1 DEF LockInvariant, LockHeld
<1>4. ASSUME NEW c \in Commands, cmd[c].alone
      PROVE  /\ cmd[c].phase = "push" =>
                    /\ FromPush(c, cmd[c].base, file[n])
                    /\ r.file = Sent(c, cmd[c].base)
                    /\ cmd[c].result[n] # "rejected"
                    /\ cmd[c].result[n] = "accepted" =>
                          file[n] = Sent(c, cmd[c].base)
                    /\ r.file = file[n] \/ RemoteIsNewer(r.file, file[n])
             /\ Succeeded(c) => /\ Keeps(c, cmd[c].base, file[n])
                                /\ Keeps(c, cmd[c].base, r.file)
  <2>1. ASSUME cmd[c].phase = "push", PushesAlone(c)
        PROVE  r.file = file[n] \/ RemoteIsNewer(r.file, file[n])
    <3>1. /\ r.file = Sent(c, cmd[c].base)
          /\ FromPush(c, cmd[c].base, file[n])
      BY <2>1 DEF PushesAlone
    <3>2. cmd[c].base \in File
      BY <2>1, SentIsNewer
    <3> QED
      BY <1>2, <3>1, <3>2 DEF FromPush, RemoteIsNewer, Sent, File
  <2> QED
    BY <1>4, <2>1, AloneFacts DEF PushesAlone, HasSpread
<1>5. CASE /\ setting' = [setting EXCEPT ![n] = r]
           /\ UNCHANGED cmd
  <2>1. setting'[n] = r /\ \A m \in Nodes \ {n} : setting'[m] = setting[m]
    BY <1>5 DEF LockInvariant, TypeOK
  <2> QED
    BY <1>2, <1>3, <1>4, <1>5, <2>1, RequestKeeps
<1>6. CASE \/ r.file = file[n] /\ cmd' = Answered(r, "accepted") /\ UNCHANGED setting
           \/ /\ r.file # file[n] /\ ~RemoteIsNewer(r.file, file[n])
              /\ cmd' = Answered(r, "rejected") /\ UNCHANGED setting
  <2>1. PICK result \in {"accepted", "rejected"} :
           /\ cmd' = Answered(r, result)
           /\ result = "accepted" => r.file = file[n]
           /\ result = "rejected" =>
                 r.file # file[n] /\ ~RemoteIsNewer(r.file, file[n])
    BY <1>6
  <2>2. ASSUME NEW c \in Commands
        PROVE  /\ cmd'[c].phase = cmd[c].phase
               /\ cmd'[c].round = cmd[c].round
               /\ cmd'[c].base = cmd[c].base
               /\ cmd'[c].alone = cmd[c].alone
               /\ cmd'[c].new = cmd[c].new
               /\ cmd'[c].answer = cmd[c].answer
               /\ \A m \in Nodes : \/ cmd'[c].result[m] = cmd[c].result[m]
                                   \/ /\ m = n /\ cmd[c].phase = "push"
                                      /\ cmd'[c].result[m] = result
    BY <1>2, <2>1, AnsweredEffect DEF LockInvariant
  <2> QED
    BY <1>3, <1>4, <1>6, <2>1, <2>2, RequestKeeps
<1> QED
  BY <1>1, <1>5, <1>6

\* set_configs writes, if it can, and answers.
LEMMA FinishSetAlone ==
    ASSUME LockInvariant, AloneInvariant, NEW n \in Nodes, FinishSet(n)
    PROVE  AloneInvariant'
<1> DEFINE r == setting[n]
<1>1. /\ file \in [Nodes -> File]
      /\ setting \in [Nodes -> RequestSet \cup {NoRequest}]
  BY DEF LockInvariant, TypeOK
<1>2. /\ r \in RequestSet
      /\ r # NoRequest
      /\ pull[n].phase # "save"
  BY <1>1 DEF FinishSet, LockInvariant, LockHeld
<1>3. PICK result \in {"accepted", "failed"} :
         /\ cmd' = Answered(r, result)
         /\ \/ result = "accepted" /\ file' = [file EXCEPT ![n] = r.file]
            \/ result = "failed" /\ file' = file
  BY DEF FinishSet
<1>4. /\ setting'[n] = NoRequest
      /\ \A m \in Nodes \ {n} : file'[m] = file[m] /\ setting'[m] = setting[m]
      /\ UNCHANGED <<requests, pull>>
      /\ file'[n] = file[n] \/ file'[n] = r.file
      /\ result = "accepted" => file'[n] = r.file
  BY <1>1, <1>3 DEF FinishSet
<1> HIDE DEF r
<1>5. ASSUME NEW c \in Commands
      PROVE  /\ cmd'[c].phase = cmd[c].phase
             /\ cmd'[c].round = cmd[c].round
             /\ cmd'[c].base = cmd[c].base
             /\ cmd'[c].alone = cmd[c].alone
             /\ cmd'[c].new = cmd[c].new
             /\ cmd'[c].answer = cmd[c].answer
             /\ \A m \in Nodes :
                   \/ cmd'[c].result[m] = cmd[c].result[m]
                   \/ /\ m = r.node /\ cmd[c].phase = "push"
                      /\ cmd'[c].result[m] = result
  BY <1>2, <1>3, AnsweredEffect DEF LockInvariant
<1>6. r.node = n
  BY <1>2 DEF r, AloneInvariant, RequestsStarted
<1>7. ASSUME NEW c \in Commands, cmd[c].alone
      PROVE  /\ cmd[c].phase = "push" =>
                    /\ FromPush(c, cmd[c].base, file'[n])
                    /\ cmd'[c].result[n] # "rejected"
                    /\ cmd'[c].result[n] = "accepted" =>
                          file'[n] = Sent(c, cmd[c].base)
             /\ Succeeded(c) => Keeps(c, cmd[c].base, file'[n])
  <2>1. ASSUME cmd[c].phase = "push"
        PROVE  /\ FromPush(c, cmd[c].base, file[n])
               /\ FromPush(c, cmd[c].base, r.file)
               /\ r.file = Sent(c, cmd[c].base)
               /\ cmd[c].result[n] # "rejected"
               /\ cmd[c].result[n] = "accepted" =>
                     file[n] = Sent(c, cmd[c].base)
    BY <1>2, <1>7, <2>1, AloneFacts DEF PushesAlone, FromPush, r
  <2>2. ASSUME Succeeded(c)
        PROVE  Keeps(c, cmd[c].base, file[n]) /\ Keeps(c, cmd[c].base, r.file)
    BY <1>2, <1>7, <2>2, AloneFacts DEF HasSpread, r
  <2> QED
    BY <1>4, <1>5, <2>1, <2>2
<1> QED
  BY <1>2, <1>4, <1>5, <1>6, <1>7, RequestKeeps

\* A request is lost, or the command goes on without its answer.
LEMMA RequestFailsAlone ==
    ASSUME LockInvariant, AloneInvariant, NEW c \in Commands, NEW n \in Nodes,
           RequestFails(c, n)
    PROVE  AloneInvariant'
<1> DEFINE results == [cmd[c].result EXCEPT ![n] = "failed"]
<1>1. /\ cmd[c] \in CommandRecord
      /\ cmd \in [Commands -> CommandRecord]
      /\ cmd[c].result \in [Nodes -> {"none", "accepted", "rejected", "failed"}]
  BY DEF LockInvariant, TypeOK, CommandRecord
<1>2. /\ cmd' = [cmd EXCEPT ![c] = [cmd[c] EXCEPT !.result = results]]
      /\ cmd[c].phase = "push"
      /\ requests' \subseteq requests
      /\ UNCHANGED <<file, setting, pull>>
  BY DEF RequestFails
<1>3. \A m \in Nodes : \/ results[m] = cmd[c].result[m]
                       \/ m = n /\ results[m] = "failed"
  BY <1>1
<1> HIDE DEF results
<1>4. ASSUME NEW d \in Commands
      PROVE  /\ cmd'[d].phase = cmd[d].phase
             /\ cmd'[d].round = cmd[d].round
             /\ cmd'[d].base = cmd[d].base
             /\ cmd'[d].alone = cmd[d].alone
             /\ cmd'[d].new = cmd[d].new
             /\ cmd'[d].answer = cmd[d].answer
             /\ \A m \in Nodes : \/ cmd'[d].result[m] = cmd[d].result[m]
                                 \/ /\ m = n /\ cmd[d].phase = "push"
                                    /\ cmd'[d].result[m] = "failed"
  BY <1>1, <1>2, <1>3 DEF CommandRecord
<1>5. setting[n] # NoRequest => /\ setting[n].cmd \in Commands
                                /\ cmd[setting[n].cmd].phase # "idle"
                                /\ setting[n].node = n
  BY DEF LockInvariant, TypeOK, RequestSet, AloneInvariant, RequestsStarted
<1>6. ASSUME NEW d \in Commands, cmd[d].alone
      PROVE  /\ cmd[d].phase = "push" =>
                    /\ FromPush(d, cmd[d].base, file[n])
                    /\ setting[n] # NoRequest =>
                          setting[n].file = Sent(d, cmd[d].base)
                    /\ cmd[d].result[n] # "rejected"
                    /\ cmd[d].result[n] = "accepted" =>
                          /\ file[n] = Sent(d, cmd[d].base)
                          /\ pull[n].phase # "save"
             /\ Succeeded(d) =>
                    /\ Keeps(d, cmd[d].base, file[n])
                    /\ setting[n] # NoRequest =>
                          Keeps(d, cmd[d].base, setting[n].file)
  BY <1>6, AloneFacts DEF PushesAlone, HasSpread
<1> QED
  BY <1>2, <1>4, <1>5, <1>6, RequestKeeps

-----------------------------------------------------------------------------
(* Steps of the commands.                                                  *)

\* While a command pushes alone, no other command takes a step.
LEMMA NoOtherBusy ==
    ASSUME LockInvariant, AloneInvariant, NEW c \in Commands, NEW d \in Commands,
           cmd[d].alone, cmd[d].phase = "push", Busy(c)
    PROVE  c = d
BY AloneFacts DEF PushesAlone

\* The push ends: nobody has rejected a file that was pushed alone, and if all
\* have accepted it, all have it.
LEMMA EndPushAlone ==
    ASSUME LockInvariant, AloneInvariant, NEW c \in Commands, EndPush(c)
    PROVE  AloneInvariant'
<1>1. /\ cmd[c].phase = "push"
      /\ UNCHANGED <<file, setting, requests, pull>>
      /\ Busy(c)
  BY DEF EndPush, Busy
<1>2. /\ cmd[c] \in CommandRecord
      /\ cmd \in [Commands -> CommandRecord]
  BY DEF LockInvariant, TypeOK
<1>3. /\ cmd'[c].phase = IF \E n \in Nodes : cmd[c].result[n] = "rejected"
                         THEN "fetch" ELSE "done"
      /\ cmd'[c].base = cmd[c].base
      /\ cmd'[c].alone = cmd[c].alone
      /\ cmd'[c].result = cmd[c].result
      /\ cmd'[c].answer = NoAnswers
  BY <1>2 DEF EndPush, CommandRecord
<1>4. \A d \in Commands \ {c} : cmd'[d] = cmd[d]
  BY <1>2 DEF EndPush
<1>5. RequestsStarted'
  <2>1. \A d \in Commands : cmd[d].phase # "idle" => cmd'[d].phase # "idle"
    BY <1>3, <1>4
  <2> QED
    BY <1>1, <2>1 DEF LockInvariant, TypeOK, RequestSet, AloneInvariant,
                      RequestsStarted
<1>6. ASSUME cmd[c].alone
      PROVE  cmd'[c].phase = "done" /\ (Succeeded(c)' => HasSpread(c)')
  <2>1. PushesAlone(c)
    BY <1>1, <1>6, AloneFacts
  <2>2. cmd'[c].phase = "done"
    BY <1>3, <2>1 DEF PushesAlone
  <2>3. ASSUME Succeeded(c)' PROVE HasSpread(c)'
    <3>1. Keeps(c, cmd[c].base, Sent(c, cmd[c].base))
      BY <1>1, SentKeeps
    <3>2. \A n \in Nodes : cmd[c].result[n] = "accepted"
      BY <1>3, <2>3 DEF Succeeded
    <3>3. \A f : FromPush(c, cmd[c].base, f) => KeepsOrOld(c, cmd[c].base, f)
      BY <3>1 DEF FromPush, KeepsOrOld
    <3>4. \A d \in Commands : cmd'[d].phase \notin {"fetch", "save"}
      BY <1>4, <2>1, <2>2 DEF PushesAlone, Busy
    <3> QED
      BY <1>1, <1>3, <2>1, <3>1, <3>2, <3>3, <3>4 DEF PushesAlone, HasSpread
  <2> QED
    BY <2>2, <2>3
<1>7. ASSUME NEW d \in Commands \ {c}, cmd[d].alone
      PROVE  /\ cmd[d].phase \notin {"fetch", "save", "push"}
             /\ Succeeded(d)' => HasSpread(d)'
  <2>1. cmd[d].phase \notin {"fetch", "save", "push"}
    BY <1>1, <1>7, NoOtherBusy, AloneFacts
  <2>2. ASSUME Succeeded(d)' PROVE HasSpread(d)'
    <3>1. HasSpread(d)
      BY <1>4, <1>7, <2>2, AloneFacts DEF Succeeded
    <3>2. cmd'[c].phase # "save" /\ \A n \in Nodes : cmd'[c].answer[n] = NoFile
      BY <1>3 DEF NoAnswers
    <3> QED
      BY <1>1, <1>4, <3>1, <3>2 DEF HasSpread
  <2> QED
    BY <2>1, <2>2
<1> QED
  BY <1>3, <1>4, <1>5, <1>6, <1>7 DEF AloneInvariant

\* A step of one command that is not alone, in which no file is written, keeps
\* the invariant if what the command has fetched, or is about to save, has the
\* entries of those that were alone.
LEMMA OtherCommand ==
    ASSUME LockInvariant, AloneInvariant, NEW c \in Commands,
           Busy(c), ~cmd[c].alone, UNCHANGED <<setting, requests, pull>>,
           NEW next, cmd' = [cmd EXCEPT ![c] = next],
           next.phase # "idle", ~next.alone,
           \A d \in Commands : cmd[d].alone /\ Succeeded(d) =>
              /\ \A n \in Nodes : Keeps(d, cmd[d].base, file'[n])
              /\ next.phase = "save" => Keeps(d, cmd[d].base, next.new)
              /\ next.phase = "fetch" =>
                    \A n \in Nodes : next.answer[n] # NoFile =>
                        KeepsOrOld(d, cmd[d].base, next.answer[n])
    PROVE  AloneInvariant'
<1>1. cmd'[c] = next /\ \A d \in Commands \ {c} : cmd'[d] = cmd[d]
  BY DEF LockInvariant, TypeOK
<1>2. RequestsStarted'
  <2>1. \A d \in Commands : cmd[d].phase # "idle" => cmd'[d].phase # "idle"
    BY <1>1
  <2> QED
    BY <2>1 DEF LockInvariant, TypeOK, RequestSet, AloneInvariant,
                RequestsStarted
<1>3. ASSUME NEW d \in Commands, cmd'[d].alone
      PROVE  /\ cmd'[d].phase \notin {"fetch", "save", "push"}
             /\ Succeeded(d)' => HasSpread(d)'
  <2>1. d # c /\ cmd'[d] = cmd[d] /\ cmd[d].alone
    BY <1>1, <1>3
  <2>2. cmd[d].phase \notin {"fetch", "save", "push"}
    BY <2>1, NoOtherBusy, AloneFacts
  <2>3. ASSUME Succeeded(d)' PROVE HasSpread(d)'
    <3>1. HasSpread(d) /\ Succeeded(d)
      BY <2>1, <2>3, AloneFacts DEF Succeeded
    <3> QED
      BY <1>1, <2>1, <3>1 DEF HasSpread
  <2> QED
    BY <2>1, <2>2, <2>3
<1> QED
  BY <1>2, <1>3 DEF AloneInvariant

\* The command receives the file of node n, or nothing.
LEMMA FetchAnswerAlone ==
    ASSUME LockInvariant, AloneInvariant, NEW c \in Commands, NEW n \in Nodes,
           FetchAnswer(c, n)
    PROVE  AloneInvariant'
<1> DEFINE next == cmd'[c]
<1>1. /\ cmd[c] \in CommandRecord
      /\ cmd \in [Commands -> CommandRecord]
      /\ cmd[c].answer \in [Nodes -> File \cup {NoFile}]
  BY DEF LockInvariant, TypeOK, CommandRecord
<1>2. /\ cmd[c].phase = "fetch"
      /\ Busy(c)
      /\ ~cmd[c].alone
      /\ UNCHANGED <<file, setting, requests, pull>>
  BY AloneFacts DEF FetchAnswer, Busy
<1>3. cmd' = [cmd EXCEPT ![c] = next]
  BY <1>1 DEF FetchAnswer
<1>4. /\ next.phase = "fetch"
      /\ next.alone = cmd[c].alone
      /\ \A k \in Nodes : next.answer[k] \in {cmd[c].answer[k], file[k]}
  BY <1>1, <1>2 DEF FetchAnswer, CommandRecord
<1> HIDE DEF next
<1>5. ASSUME NEW d \in Commands, cmd[d].alone, Succeeded(d)
      PROVE  /\ \A k \in Nodes : Keeps(d, cmd[d].base, file'[k])
             /\ \A k \in Nodes : next.answer[k] # NoFile =>
                    KeepsOrOld(d, cmd[d].base, next.answer[k])
  BY <1>2, <1>4, <1>5, AloneFacts DEF HasSpread, KeepsOrOld
<1> QED
  BY <1>2, <1>3, <1>4, <1>5, OtherCommand

\* _handle_conflict writes a file that has the entries of those that were
\* alone.
LEMMA SaveNewestAlone ==
    ASSUME LockInvariant, AloneInvariant, NEW c \in Commands, SaveNewest(c)
    PROVE  AloneInvariant'
<1> DEFINE next == [cmd[c] EXCEPT !.phase = "done"]
<1>1. /\ cmd[c] \in CommandRecord
      /\ file \in [Nodes -> File]
  BY DEF LockInvariant, TypeOK
<1>2. /\ cmd[c].phase = "save"
      /\ Busy(c)
      /\ ~cmd[c].alone
      /\ UNCHANGED <<setting, requests, pull>>
      /\ cmd' = [cmd EXCEPT ![c] = next]
  BY AloneFacts DEF SaveNewest, Busy
<1>3. next.phase = "done" /\ next.alone = cmd[c].alone
  BY <1>1 DEF CommandRecord
<1> HIDE DEF next
<1>4. \A n \in Nodes : file'[n] = file[n] \/ file'[n] = cmd[c].new
  BY <1>1 DEF SaveNewest
<1>5. ASSUME NEW d \in Commands, cmd[d].alone, Succeeded(d)
      PROVE  \A n \in Nodes : Keeps(d, cmd[d].base, file'[n])
  BY <1>2, <1>4, <1>5, AloneFacts DEF HasSpread
<1> QED
  BY <1>2, <1>3, <1>5, OtherCommand

\* A push of a file that has the entries of those that were alone.
LEMMA PushOthers ==
    ASSUME LockInvariant, AloneInvariant, NEW c \in Commands,
           NEW round \in {1, 2}, NEW f \in File, Push(c, round, f),
           UNCHANGED <<file, setting, pull>>,
           \A d \in Commands : cmd[d].alone /\ Succeeded(d) =>
              Keeps(d, cmd[d].base, f)
    PROVE  /\ RequestsStarted'
           /\ \A d \in Commands \ {c} : cmd'[d].alone =>
                 /\ cmd'[d].phase \notin {"fetch", "save", "push"}
                 /\ Succeeded(d)' => HasSpread(d)'
<1> DEFINE sent == [f EXCEPT !.version = @ + 1]
<1>1. \A r \in requests' \ requests : r.cmd = c /\ r.file = sent
  BY DEF Push, Request
<1>2. /\ cmd'[c].phase = "push"
      /\ \A d \in Commands \ {c} :
            /\ cmd'[d].phase = cmd[d].phase
            /\ cmd'[d].base = cmd[d].base
            /\ cmd'[d].result = cmd[d].result
            /\ cmd'[d].new = cmd[d].new
            /\ cmd'[d].answer = cmd[d].answer
            /\ cmd'[d].alone = (cmd[d].alone /\ ~Busy(d))
  <2>1. cmd \in [Commands -> CommandRecord]
    BY DEF LockInvariant, TypeOK
  <2>2. cmd'[c] = [cmd[c] EXCEPT !.phase = "push", !.round = round,
                      !.base = IF round = 1 THEN file[At[c]] ELSE @,
                      !.result = [n \in Nodes |-> "none"],
                      !.alone = @ /\ Settled(c)]
    BY DEF Push
  <2>3. cmd'[c].phase = "push"
    BY <2>1, <2>2 DEF CommandRecord
  <2>4. ASSUME NEW d \in Commands \ {c}
        PROVE  /\ cmd'[d].phase = cmd[d].phase
               /\ cmd'[d].base = cmd[d].base
               /\ cmd'[d].result = cmd[d].result
               /\ cmd'[d].new = cmd[d].new
               /\ cmd'[d].answer = cmd[d].answer
               /\ cmd'[d].alone = (cmd[d].alone /\ ~Busy(d))
    <3>1. cmd'[d] = [cmd[d] EXCEPT !.alone = @ /\ ~Busy(d)]
      BY DEF Push
    <3> DEFINE b == cmd[d].alone /\ ~Busy(d)
    <3>2. cmd'[d] = [cmd[d] EXCEPT !.alone = b]
      BY <3>1
    <3>3. cmd[d] \in CommandRecord
      BY <2>1
    <3> HIDE DEF b
    <3>4. /\ cmd'[d].phase = cmd[d].phase
          /\ cmd'[d].base = cmd[d].base
          /\ cmd'[d].result = cmd[d].result
          /\ cmd'[d].new = cmd[d].new
          /\ cmd'[d].answer = cmd[d].answer
          /\ cmd'[d].alone = b
      BY <3>2, <3>3 DEF CommandRecord
    <3> QED
      BY <3>4 DEF b
  <2> QED
    BY <2>3, <2>4
<1>3. RequestsStarted'
  <2>1. \A d \in Commands : cmd[d].phase # "idle" => cmd'[d].phase # "idle"
    BY <1>2
  <2> QED
    BY <1>1, <1>2, <2>1 DEF LockInvariant, TypeOK, RequestSet, AloneInvariant,
                            RequestsStarted
<1>4. ASSUME NEW d \in Commands \ {c}, cmd'[d].alone
      PROVE  /\ cmd'[d].phase \notin {"fetch", "save", "push"}
             /\ Succeeded(d)' => HasSpread(d)'
  <2>1. cmd[d].alone /\ ~Busy(d)
    BY <1>2, <1>4
  <2>2. cmd'[d].phase \notin {"fetch", "save", "push"}
    BY <1>2, <2>1 DEF Busy
  <2>3. ASSUME Succeeded(d)' PROVE HasSpread(d)'
    <3>1. Succeeded(d)
      BY <1>2, <2>3 DEF Succeeded
    <3>2. HasSpread(d) /\ cmd[d].base \in File
      BY <2>1, <3>1, AloneFacts
    <3>3. Keeps(d, cmd[d].base, sent)
      BY <2>1, <3>1, <3>2 DEF Keeps, File
    <3> HIDE DEF sent
    <3> QED
      BY <1>1, <1>2, <3>2, <3>3 DEF HasSpread
  <2> QED
    BY <2>2, <2>3
<1> QED
  BY <1>3, <1>4

\* A command starts.  If it is alone, all requests are its own, and no node and
\* no pull has a file as new as the one it pushes.
LEMMA StartAlone ==
    ASSUME LockInvariant, AloneInvariant, NEW c \in Commands, Start(c)
    PROVE  AloneInvariant'
<1> DEFINE local == file[At[c]]
           f == [local EXCEPT !.entries = (@ \ Removes[c]) \cup Adds[c]]
           sent == [f EXCEPT !.version = @ + 1]
<1>1. /\ f \in File
      /\ local \in File
      /\ At[c] \in Nodes
      /\ cmd[c] \in CommandRecord
      /\ cmd[c].phase = "idle"
  BY CommandTypes, CfgSyncAssumption DEF File, Start
<1>2. Push(c, 1, f) /\ UNCHANGED <<file, setting, pull>>
  BY DEF Start
<1>3. ASSUME NEW d \in Commands, cmd[d].alone, Succeeded(d)
      PROVE  Keeps(d, cmd[d].base, f)
  <2>1. Keeps(d, cmd[d].base, local)
    BY <1>1, <1>3, AloneFacts DEF HasSpread
  <2> QED
    BY <1>1, <2>1, CfgSyncAssumption DEF Keeps, Lasting, File
<1>4. sent = Sent(c, local)
  <2>1. /\ f.version = local.version
        /\ f.entries = (local.entries \ Removes[c]) \cup Adds[c]
    BY <1>1 DEF File
  <2> HIDE DEF f
  <2>2. /\ sent = [version |-> sent.version, entries |-> sent.entries]
        /\ sent.version = f.version + 1
        /\ sent.entries = f.entries
    BY <1>1 DEF File
  <2> HIDE DEF sent
  <2> QED
    BY <2>1, <2>2 DEF Sent
<1> HIDE DEF f
<1>5. requests' = requests \cup {Request(c, 1, n, sent) : n \in Nodes}
  BY <1>2 DEF Push
<1> HIDE DEF sent
<1>6. /\ RequestsStarted'
      /\ \A d \in Commands \ {c} : cmd'[d].alone =>
            /\ cmd'[d].phase \notin {"fetch", "save", "push"}
            /\ Succeeded(d)' => HasSpread(d)'
  BY <1>1, <1>2, <1>3, PushOthers
<1>7. /\ cmd'[c].phase = "push"
      /\ cmd'[c].round = 1
      /\ cmd'[c].base = local
      /\ \A n \in Nodes : cmd'[c].result[n] = "none"
      /\ cmd'[c].alone => Settled(c)
  <2> DEFINE b == cmd[c].alone /\ Settled(c)
  <2>1. cmd'[c] = [cmd[c] EXCEPT !.phase = "push", !.round = 1, !.base = local,
                      !.result = [n \in Nodes |-> "none"], !.alone = b]
    BY <1>2 DEF Push
  <2> HIDE DEF b, local
  <2>2. /\ cmd'[c].phase = "push"
        /\ cmd'[c].round = 1
        /\ cmd'[c].base = local
        /\ \A n \in Nodes : cmd'[c].result[n] = "none"
        /\ cmd'[c].alone = b
    BY <1>1, <2>1 DEF CommandRecord
  <2> QED
    BY <2>2 DEF b
<1>8. ASSUME cmd'[c].alone PROVE PushesAlone(c)'
  <2>1. Settled(c)
    BY <1>7, <1>8
  <2>2. requests = {}
    BY <1>1, <2>1 DEF Settled, AloneInvariant, RequestsStarted
  <2>3. \A n \in Nodes : setting[n] = NoRequest
    BY <1>1, <2>1 DEF Settled, AloneInvariant, RequestsStarted
  <2>4. \A r \in requests' : r.file = Sent(c, local)
    BY <1>4, <1>5, <2>2 DEF Request
  <2>5. ASSUME NEW n \in Nodes
        PROVE  /\ FromPush(c, local, file[n])
               /\ \A g \in Seen(pull[n]) : FromPush(c, local, g)
    <3>1. file[n] = local /\ \A g \in Seen(pull[n]) : g.version <= file[n].version
      BY <1>1, <2>1 DEF Settled
    <3> QED
      BY <1>1, <3>1 DEF FromPush, File
  <2>6. \A d \in Commands \ {c} : ~Busy(d)'
    <3>1. \A d \in Commands \ {c} : cmd'[d].phase = cmd[d].phase /\ ~Busy(d)
      <4>1. ASSUME NEW d \in Commands \ {c}
            PROVE  cmd'[d].phase = cmd[d].phase
        <5>1. cmd'[d] = [cmd[d] EXCEPT !.alone = @ /\ ~Busy(d)]
          BY <1>2 DEF Push
        <5>2. cmd[d] \in CommandRecord
          BY DEF LockInvariant, TypeOK
        <5> QED
          BY <5>1, <5>2 DEF CommandRecord
      <4> QED
        BY <2>1, <4>1 DEF Settled
    <3> QED
      BY <3>1 DEF Busy
  <2> HIDE DEF local
  <2> QED
    BY <1>2, <1>7, <2>3, <2>4, <2>5, <2>6 DEF PushesAlone
<1> QED
  BY <1>6, <1>7, <1>8 DEF AloneInvariant, Succeeded

\* The fetch after a conflict ends: the file that was chosen has the entries of
\* those that were alone, and so has what a merge makes of it.
LEMMA EndFetchAlone ==
    ASSUME LockInvariant, AloneInvariant, NEW c \in Commands, EndFetch(c)
    PROVE  AloneInvariant'
<1>1. /\ cmd[c] \in CommandRecord
      /\ file[At[c]] \in File
      /\ At[c] \in Nodes
      /\ cmd[c].answer \in [Nodes -> File \cup {NoFile}]
  BY CommandTypes DEF CommandRecord
<1>2. /\ cmd[c].base # NoFile
      /\ cmd[c].phase = "fetch"
      /\ Busy(c)
      /\ ~cmd[c].alone
      /\ UNCHANGED <<file, setting, pull>>
  BY AloneFacts DEF EndFetch, LockInvariant, FilesPresent, Busy
<1>3. PICK newest \in NewestConfigs(cmd[c].answer) :
         LET new == ToUpdate(file[At[c]], newest)
             merged == (cmd[c].base.entries \cup new.entries) \ Removes[c]
         IN IF Merging /\ cmd[c].round = 1 /\ new # NoFile
            THEN Push(c, 2, [new EXCEPT !.entries = merged \cup Adds[c]])
            ELSE /\ cmd' = [cmd EXCEPT
                              ![c].phase = IF new = NoFile THEN "done" ELSE "save",
                              ![c].new = new]
                 /\ UNCHANGED requests
  BY DEF EndFetch
<1> DEFINE new == ToUpdate(file[At[c]], newest)
           merged == (cmd[c].base.entries \cup new.entries) \ Removes[c]
           f == [new EXCEPT !.entries = merged \cup Adds[c]]
<1>4. newest \in File \cup {NoFile}
  BY <1>1, NewestIsAnswer
<1>5. new # NoFile => new \in File
  BY <1>1, <1>4, FetchedIsUpToDate
<1>6. ASSUME NEW d \in Commands, cmd[d].alone, Succeeded(d)
      PROVE  /\ \A n \in Nodes : Keeps(d, cmd[d].base, file[n])
             /\ new # NoFile => Keeps(d, cmd[d].base, new)
  <2>1. HasSpread(d) /\ cmd[d].base \in File
    BY <1>6, AloneFacts
  <2>2. newest # NoFile => KeepsOrOld(d, cmd[d].base, newest)
    BY <1>1, <1>2, <2>1, NewestIsGiven DEF HasSpread
  <2>3. \A n \in Nodes : Keeps(d, cmd[d].base, file[n])
    BY <2>1 DEF HasSpread
  <2> QED
    BY <1>1, <1>4, <2>1, <2>2, <2>3, ChosenKeeps
<1> HIDE DEF new
<1>7. CASE Merging /\ cmd[c].round = 1 /\ new # NoFile
  <2>1. Push(c, 2, f)
    BY <1>3, <1>7 DEF new
  <2>2. cmd[c].base \in File
    BY <1>1, <1>2 DEF CommandRecord
  <2>3. f \in File
    BY <1>5, <1>7, <2>2, CfgSyncAssumption DEF File
  <2>4. ASSUME NEW d \in Commands, cmd[d].alone, Succeeded(d)
        PROVE  Keeps(d, cmd[d].base, f)
    BY <1>5, <1>6, <1>7, <2>2, <2>4 DEF Keeps, Lasting, File
  <2> HIDE DEF f
  <2>5. /\ RequestsStarted'
        /\ \A d \in Commands \ {c} : cmd'[d].alone =>
              /\ cmd'[d].phase \notin {"fetch", "save", "push"}
              /\ Succeeded(d)' => HasSpread(d)'
    BY <1>2, <2>1, <2>3, <2>4, PushOthers
  <2>6. ~cmd'[c].alone
    <3> DEFINE b == cmd[c].alone /\ Settled(c)
    <3>1. cmd'[c] = [cmd[c] EXCEPT !.phase = "push", !.round = 2,
                        !.base = cmd[c].base,
                        !.result = [n \in Nodes |-> "none"], !.alone = b]
      BY <2>1 DEF Push
    <3> HIDE DEF b
    <3>2. cmd'[c].alone = b
      BY <1>1, <3>1 DEF CommandRecord
    <3> QED
      BY <1>2, <3>2 DEF b
  <2> QED
    BY <2>5, <2>6 DEF AloneInvariant
<1>8. CASE ~(Merging /\ cmd[c].round = 1 /\ new # NoFile)
  <2> DEFINE phase == IF new = NoFile THEN "done" ELSE "save"
             next == [cmd[c] EXCEPT !.phase = phase, !.new = new]
  <2>1. cmd' = [cmd EXCEPT ![c] = next] /\ UNCHANGED requests
    BY <1>3, <1>8 DEF new
  <2>2. phase \in {"done", "save"} /\ (phase = "save" => new # NoFile)
    OBVIOUS
  <2> HIDE DEF phase
  <2>3. next.phase = phase /\ next.new = new /\ next.alone = cmd[c].alone
    BY <1>1 DEF CommandRecord
  <2> HIDE DEF next
  <2> QED
    BY <1>2, <1>6, <2>1, <2>2, <2>3, OtherCommand
<1> QED
  BY <1>7, <1>8

\* Every step preserves the invariant.
LEMMA NextAlone ==
    LockInvariant /\ AloneInvariant /\ [Next]_vars => AloneInvariant'
<1> SUFFICES ASSUME LockInvariant, AloneInvariant, [Next]_vars
             PROVE  AloneInvariant'
  OBVIOUS
<1>1. ASSUME NEW c \in Commands, Start(c) PROVE AloneInvariant'
  BY <1>1, StartAlone
<1>2. ASSUME NEW c \in Commands, CommandStep(c) PROVE AloneInvariant'
  BY <1>2, EndPushAlone, FetchAnswerAlone, EndFetchAlone, SaveNewestAlone
     DEF CommandStep
<1>3. ASSUME NEW c \in Commands, NEW n \in Nodes, RequestFails(c, n)
      PROVE  AloneInvariant'
  BY <1>3, RequestFailsAlone
<1>4. ASSUME NEW n \in Nodes, HandleRequest(n) \/ FinishSet(n) \/ StartPull(n)
      PROVE  AloneInvariant'
  BY <1>4, HandleRequestAlone, FinishSetAlone, StartPullAlone
<1>5. ASSUME NEW n \in Nodes, PullStep(n) PROVE AloneInvariant'
  BY <1>5, PullAnswerAlone, EndPullFetchAlone, PullSaveAlone DEF PullStep
<1>6. CASE UNCHANGED vars
  BY <1>6 DEF vars, AloneInvariant, RequestsStarted, PushesAlone, HasSpread,
              Succeeded, Busy
<1> QED
  BY <1>1, <1>2, <1>3, <1>4, <1>5, <1>6 DEF Next

\* What a command adds, and no command removes, stays on every node for good
\* once the command has reported success, if it started in agreement and no
\* other command or late request interfered: whatever pulls with outdated
\* answers, lost requests, failed writes and later conflicts there are.
THEOREM AloneIsKept == Spec => []KeptWhenAlone
<1>1. LockInvariant /\ AloneInvariant => KeptWhenAlone
  BY AloneFacts DEF KeptWhenAlone, HasSpread, Keeps
<1> QED
  BY <1>1, InitAlone, LockSafety, NextAlone, PTL DEF Spec

\* set_configs never rejects the file of a command that is alone: the only way
\* for it not to succeed is a request or a write that failed.
THEOREM AloneNeverConflicts ==
    Spec => [](\A c \in Commands : cmd[c].alone =>
                  /\ cmd[c].phase \notin {"fetch", "save"}
                  /\ cmd[c].phase = "push" =>
                        \A n \in Nodes : cmd[c].result[n] # "rejected")
<1>1. LockInvariant /\ AloneInvariant =>
        \A c \in Commands : cmd[c].alone =>
           /\ cmd[c].phase \notin {"fetch", "save"}
           /\ cmd[c].phase = "push" =>
                 \A n \in Nodes : cmd[c].result[n] # "rejected"
  BY AloneFacts DEF PushesAlone
<1> QED
  BY <1>1, InitAlone, LockSafety, NextAlone, PTL DEF Spec

-----------------------------------------------------------------------------
(* The choice of the newest file.                                          *)

\* A nonempty set of natural numbers has a smallest element.
LEMMA SmallestOf ==
    ASSUME NEW T \in SUBSET Nat, T # {}
    PROVE  \E x \in T : \A y \in T : x <= y
<1> DEFINE R == {p \in Nat \X Nat : p[1] < p[2]}
<1>1. IsWellFoundedOn(R, Nat)
  BY NatLessThanWellFounded, Zenon DEF OpToRel
<1> HIDE DEF R
<1>2. PICK x \in T : \A y \in T : ~(<<y, x>> \in R)
  BY <1>1, WFMin
<1>3. \A y \in T : ~(y < x)
  BY <1>2 DEF R
<1> QED
  BY <1>3

\* A natural number given to each element of a nonempty finite set is biggest
\* somewhere: take an element with as few as possible at or above it.
LEMMA BiggestOf ==
    ASSUME NEW S, IsFiniteSet(S), S # {}, NEW h \in [S -> Nat]
    PROVE  \E x \in S : \A y \in S : h[y] <= h[x]
<1> DEFINE above(x) == {y \in S : h[x] <= h[y]}
           T == {Cardinality(above(x)) : x \in S}
<1>1. \A x \in S : IsFiniteSet(above(x)) /\ Cardinality(above(x)) \in Nat
  <2> SUFFICES ASSUME NEW x \in S
               PROVE  IsFiniteSet(above(x)) /\ Cardinality(above(x)) \in Nat
    OBVIOUS
  <2>1. above(x) \in SUBSET S
    OBVIOUS
  <2> HIDE DEF above
  <2> QED
    BY <2>1, FS_Subset, FS_CardinalityType
<1>2. T \in SUBSET Nat /\ T # {}
  BY <1>1
<1>3. PICK k \in T : \A l \in T : k <= l
  BY <1>2, SmallestOf
<1>4. PICK x \in S : k = Cardinality(above(x))
  OBVIOUS
<1>5. ASSUME NEW y \in S, h[y] > h[x] PROVE FALSE
  <2>1. above(y) \in SUBSET above(x) /\ x \in above(x) /\ x \notin above(y)
    BY <1>5
  <2>2. k <= Cardinality(above(y))
    BY <1>3
  <2>3. IsFiniteSet(above(x)) /\ Cardinality(above(y)) \in Nat
    BY <1>1
  <2> HIDE DEF above, T
  <2>4. /\ Cardinality(above(y)) <= Cardinality(above(x))
        /\ Cardinality(above(x)) = Cardinality(above(y)) => above(x) = above(y)
    BY <2>1, <2>3, FS_Subset
  <2>5. k \in Nat
    BY <1>2
  <2> QED
    BY <1>4, <2>1, <2>2, <2>3, <2>4, <2>5
<1> QED
  BY <1>5

\* _find_newest_config is a function of the answers: version, frequency and
\* hash leave exactly one file, or None if nobody has answered.
THEOREM FetchIsDeterministic ==
    ASSUME NEW answers \in [Nodes -> File \cup {NoFile}]
    PROVE  \E f \in File \cup {NoFile} : NewestConfigs(answers) = {f}
<1> DEFINE received == {n \in DOMAIN answers : answers[n] # NoFile}
           newest == {n \in received : \A m \in received :
                         answers[m].version <= answers[n].version}
           count(n) == Cardinality({m \in newest : answers[m] = answers[n]})
           frequent == {n \in newest : \A m \in newest : count(m) <= count(n)}
           best == {n \in frequent : \A m \in frequent :
                       Hash[answers[m].entries] <= Hash[answers[n].entries]}
<1>1. NewestConfigs(answers) = IF received = {} THEN {NoFile}
                               ELSE {answers[n] : n \in best}
  BY DEF NewestConfigs
<1>2. CASE received = {}
  BY <1>1, <1>2
<1>3. CASE received # {}
  <2>1. \A n \in received : n \in Nodes /\ answers[n] \in File
    OBVIOUS
  <2>2. IsFiniteSet(received)
    BY FS_Subset, CfgSyncAssumption
  <2>3. newest # {}
    <3> DEFINE h == [n \in received |-> answers[n].version]
    <3>1. h \in [received -> Nat]
      BY <2>1 DEF File
    <3>2. PICK n \in received : \A m \in received : h[m] <= h[n]
      <4> HIDE DEF h, received
      <4> QED
        BY <1>3, <2>2, <3>1, BiggestOf
    <3> QED
      BY <3>2
  <2>4. IsFiniteSet(newest) /\ newest \subseteq received
    BY <2>2, FS_Subset
  <2> HIDE DEF received, newest
  <2>5. frequent # {}
    <3> DEFINE h == [n \in newest |-> count(n)]
    <3>1. h \in [newest -> Nat]
      <4>1. ASSUME NEW n \in newest PROVE count(n) \in Nat
        <5> DEFINE same == {m \in newest : answers[m] = answers[n]}
        <5>1. same \in SUBSET newest
          OBVIOUS
        <5> HIDE DEF same
        <5>2. Cardinality(same) \in Nat
          BY <2>4, <5>1, FS_Subset, FS_CardinalityType
        <5> QED
          BY <5>2 DEF same
      <4> QED
        BY <4>1
    <3> HIDE DEF count
    <3>2. PICK n \in newest : \A m \in newest : h[m] <= h[n]
      <4> HIDE DEF h
      <4> QED
        BY <2>3, <2>4, <3>1, BiggestOf
    <3> QED
      BY <3>2
  <2>6. IsFiniteSet(frequent) /\ frequent \subseteq newest
    <3> HIDE DEF count
    <3> QED
      BY <2>4, FS_Subset
  <2> HIDE DEF frequent
  <2>7. \A n \in frequent : /\ answers[n] \in File
                            /\ answers[n].entries \in SUBSET Entries
                            /\ Hash[answers[n].entries] \in Nat
    BY <2>1, <2>4, <2>6, CfgSyncAssumption DEF File
  <2>8. best # {}
    <3> DEFINE h == [n \in frequent |-> Hash[answers[n].entries]]
    <3>1. h \in [frequent -> Nat]
      BY <2>7
    <3>2. PICK n \in frequent : \A m \in frequent : h[m] <= h[n]
      <4> HIDE DEF h
      <4> QED
        BY <2>5, <2>6, <3>1, BiggestOf
    <3> QED
      BY <3>2
  <2>9. ASSUME NEW m \in best, NEW n \in best PROVE answers[m] = answers[n]
    <3>1. /\ answers[m].version \in Nat /\ answers[n].version \in Nat
          /\ m \in newest /\ n \in newest
      BY <2>6, <2>7 DEF File
    <3>2. answers[m].version = answers[n].version
      BY <2>4, <3>1 DEF newest
    <3>3. Hash[answers[m].entries] = Hash[answers[n].entries]
      BY <2>7
    <3>4. answers[m].entries = answers[n].entries
      BY <2>7, <3>3, CfgSyncAssumption
    <3> QED
      BY <2>7, <3>2, <3>4 DEF File
  <2>10. PICK n \in best : TRUE
    BY <2>8
  <2>11. best \subseteq frequent
    OBVIOUS
  <2> HIDE DEF best
  <2>12. {answers[m] : m \in best} = {answers[n]}
    BY <2>9, <2>10
  <2> QED
    BY <1>1, <1>3, <2>7, <2>10, <2>11, <2>12
<1> QED
  BY <1>2, <1>3

-----------------------------------------------------------------------------
(* Agreement lasts.                                                        *)

\* All nodes have the same file, no command or request is under way, and what
\* the pulls have seen is that file or an older one.
AtRest ==
    /\ Agreed
    /\ \A c \in Commands : ~Busy(c)
    /\ requests = {}
    /\ \A n \in Nodes :
           /\ setting[n] = NoRequest
           /\ pull[n].phase # "save"
           /\ \A f \in Seen(pull[n]) :
                  f = file[n] \/ f.version < file[n].version

\* The pull of a node ends without a file to save.
LEMMA PullAtRest ==
    ASSUME LockInvariant, AtRest, NEW n \in Nodes, EndPullFetch(n)
    PROVE  pull' = [pull EXCEPT ![n] = Pull("idle", NoFile)]
<1>1. /\ pull[n] \in PullRecord
      /\ pull[n].answer \in [Nodes -> File \cup {NoFile}]
      /\ file[n] \in File
  BY DEF LockInvariant, TypeOK, PullRecord
<1>2. PICK newest \in NewestConfigs(pull[n].answer) :
         LET new == ToUpdate(file[n], newest)
         IN pull' = [pull EXCEPT
                       ![n] = Pull(IF new = NoFile THEN "idle" ELSE "save", new)]
  BY DEF EndPullFetch
<1>3. newest \in File \cup {NoFile}
  BY <1>1, NewestIsAnswer
<1>4. newest # NoFile => newest \in Seen(pull[n])
  BY <1>1, NewestIsGiven, SeenElements
<1>5. ToUpdate(file[n], newest) = NoFile
  BY <1>1, <1>3, <1>4, CfgSyncAssumption DEF ToUpdate, AtRest, File
<1> QED
  BY <1>2, <1>5

\* A step other than the start of a command changes no file, and leaves
\* everything at rest.
LEMMA StepAtRest ==
    ASSUME LockInvariant, AtRest, [Next]_vars,
           \A c \in Commands : ~Start(c)
    PROVE  AtRest' /\ file' = file
<1>1. /\ pull \in [Nodes -> PullRecord]
      /\ file \in [Nodes -> File]
  BY DEF LockInvariant, TypeOK
<1>2. ASSUME NEW n \in Nodes, NEW next \in PullRecord,
             UNCHANGED <<file, setting, requests, cmd>>,
             pull' = [pull EXCEPT ![n] = next], next.phase # "save",
             \A f \in Seen(next) : f = file[n] \/ f.version < file[n].version
      PROVE  AtRest' /\ file' = file
  <2>1. pull'[n] = next /\ \A m \in Nodes \ {n} : pull'[m] = pull[m]
    BY <1>1, <1>2
  <2> QED
    BY <1>2, <2>1 DEF AtRest, Agreed, Busy
<1>3. ASSUME NEW c \in Commands, NEW n \in Nodes,
             RequestFails(c, n)
      PROVE  FALSE
  BY <1>3 DEF RequestFails, AtRest, Busy
<1>4. ASSUME NEW c \in Commands, CommandStep(c) PROVE FALSE
  BY <1>4 DEF CommandStep, EndPush, FetchAnswer, EndFetch, SaveNewest,
              AtRest, Busy
<1>5. ASSUME NEW n \in Nodes, HandleRequest(n) \/ FinishSet(n) \/ PullSave(n)
      PROVE  FALSE
  BY <1>5 DEF HandleRequest, FinishSet, PullSave, AtRest, LockInvariant, LockHeld
<1>6. ASSUME NEW n \in Nodes, StartPull(n) PROVE AtRest' /\ file' = file
  <2> DEFINE next == Pull("fetch", NoFile)
  <2>1. next \in PullRecord /\ next.phase = "fetch" /\ Seen(next) = {}
    BY PullType, NothingSeen
  <2>2. /\ pull' = [pull EXCEPT ![n] = next]
        /\ UNCHANGED <<file, setting, requests, cmd>>
    BY <1>6 DEF StartPull
  <2> HIDE DEF next
  <2> QED
    BY <1>2, <2>1, <2>2
<1>7. ASSUME NEW n \in Nodes, EndPullFetch(n) PROVE AtRest' /\ file' = file
  <2> DEFINE next == Pull("idle", NoFile)
  <2>1. next \in PullRecord /\ next.phase = "idle" /\ Seen(next) = {}
    BY PullType, NothingSeen
  <2>2. /\ pull' = [pull EXCEPT ![n] = next]
        /\ UNCHANGED <<file, setting, requests, cmd>>
    BY <1>7, PullAtRest DEF EndPullFetch
  <2> HIDE DEF next
  <2> QED
    BY <1>2, <2>1, <2>2
<1>8. ASSUME NEW n \in Nodes, NEW m \in Nodes, PullAnswer(n, m)
      PROVE  AtRest' /\ file' = file
  <2> DEFINE next == pull'[n]
  <2>1. /\ pull[n] \in PullRecord
        /\ pull[n].answer \in [Nodes -> File \cup {NoFile}]
        /\ pull[n].phase = "fetch"
    BY <1>1, <1>8 DEF PullAnswer, PullRecord
  <2>2. pull' \in [Nodes -> PullRecord] /\ \A k \in Nodes \ {n} : pull'[k] = pull[k]
    BY <1>1, <1>8, PullAnswerLock DEF LockInvariant, TypeOK, PullAnswer
  <2>3. next \in PullRecord /\ pull' = [pull EXCEPT ![n] = next]
    BY <1>1, <2>2
  <2>4. /\ next.phase = "fetch"
        /\ next.new = pull[n].new
        /\ \A k \in Nodes : next.answer[k] \in {pull[n].answer[k], file[k]}
    BY <1>1, <1>8, <2>1 DEF PullAnswer, PullRecord
  <2>5. UNCHANGED <<file, setting, requests, cmd>>
    BY <1>8 DEF PullAnswer
  <2> HIDE DEF next
  <2>6. ASSUME NEW f \in Seen(next)
        PROVE  f = file[n] \/ f.version < file[n].version
    <3>1. f \in Seen(pull[n]) \/ \E k \in Nodes : f = file[k]
      BY <2>1, <2>3, <2>4, SeenElements
    <3> QED
      BY <3>1 DEF AtRest, Agreed
  <2> QED
    BY <1>2, <2>3, <2>4, <2>5, <2>6
<1>9. CASE UNCHANGED vars
  BY <1>9 DEF vars, AtRest, Agreed, Busy
<1> QED
  BY <1>3, <1>4, <1>5, <1>6, <1>7, <1>8, <1>9 DEF Next, PullStep

\* Agreement lasts: once all nodes have the same file and nothing but pulls is
\* under way, no pull changes a file, whichever of its requests fail; only a new
\* command does.  The safety part of Convergence, for any number of nodes.
THEOREM AgreementLasts ==
    Spec => [][AtRest => \/ AtRest' /\ file' = file
                         \/ \E c \in Commands : Start(c)]_vars
<1>1. LockInvariant /\ [Next]_vars =>
        [AtRest => \/ AtRest' /\ file' = file
                   \/ \E c \in Commands : Start(c)]_vars
  BY StepAtRest
<1> QED
  BY <1>1, LockSafety, PTL DEF Spec
=============================================================================

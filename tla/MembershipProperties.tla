------------------------ MODULE MembershipProperties ------------------------
(* What adding and removing nodes promises.                                *)
EXTENDS Membership

(***************************************************************************)
(* A host never holds, and corosync on it never runs with, a corosync.conf  *)
(* that does not list the host: whatever fails, is late or runs together,   *)
(* add_nodes and remove_nodes send the file only to the nodes in it.        *)
(***************************************************************************)
SelfListed ==
    \A h \in Hosts :
       /\ file[h] # {} => h \in file[h]
       /\ loaded[h] # {} => h \in loaded[h]

(***************************************************************************)
(* add_nodes sets up everything else before corosync.conf, so that a node   *)
(* which has been given the file is complete even if the command fails      *)
(* later (the comment at the preparation steps of add_nodes): whatever      *)
(* failed before, each new node has everything when the file is sent out,   *)
(* but for the steps that --force let go on without a file.  Only a belated *)
(* request or a second command running together break this.                *)
(***************************************************************************)
PreparedBeforeListed ==
    \A c \in Commands :
       (/\ ~overlapped
        /\ Running(c)
        /\ cmd[c].kind = "add"
        /\ Phase(c) \in {"distribute", "reload", "enable", "start"})
         => \A h \in cmd[c].targets \ belated :
               PrepSteps \ cmd[c].skipped \subseteq prep[h]

(***************************************************************************)
(* The order the comment in add_nodes asks for: once a command goes on to   *)
(* start the new nodes, or to remove the old ones from the CIB, every node  *)
(* that takes part has the new file and, if its corosync runs, has loaded   *)
(* it - unless its own corosync failed to, of which pcs hears only from the *)
(* node it asked (on_complete of ReloadCorosyncConf).  pcs asks for one     *)
(* reload only, which reaches the nodes that corosync knows of: the promise *)
(* is for nodes that agreed when the command began.                        *)
(***************************************************************************)
ReloadedBeforeStart ==
    \A c \in Commands :
       (/\ ~overlapped
        /\ belated = {}
        /\ Running(c)
        /\ cmd[c].agreed
        /\ Phase(c) \in {"enable", "start", "cib"})
         => \A h \in cmd[c].online :
               /\ file[h] = cmd[c].conf
               /\ loaded[h] \in {{}, cmd[c].conf} \/ h \in unreloaded
=============================================================================

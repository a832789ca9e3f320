------------------------------- MODULE VmDisk -------------------------------
(***************************************************************************)
(* The disk of one VM and its Proxmox snapshots, and what the operations   *)
(* of src/automation/proxmox/vm.py and the deploy tools of                 *)
(* src/automation/mcp_tools.py do to them.  The disk is abstracted to      *)
(* whose build is installed on it.                                         *)
(***************************************************************************)
CONSTANTS Procs,    \* mosdat processes; each deploys a build of its own
          NoProc,   \* nobody; as a build: what the VM came with
          Names,    \* snapshot names
          NoSnap

ASSUME DiskAssumption ==
  /\ NoProc \notin Procs
  /\ NoSnap \notin Procs \cup {NoProc}

VARIABLES disk,     \* whose build is installed
          snaps     \* the build every snapshot holds

store  == <<disk, snaps>>
Builds == Procs \cup {NoProc}

Snapshots == [kind : {"snapshot", "rollback", "delete"}, arg : Names]
Deploys   == [kind : {"deploy"}, arg : Procs]
Resets    == [kind : {"reset"}, arg : {NoProc}]
Ops       == Snapshots \cup Deploys \cup Resets

StoreOK   == disk \in Builds /\ snaps \in [Names -> Builds \cup {NoSnap}]
StoreInit == disk = NoProc /\ snaps = [n \in Names |-> NoSnap]

\* mutant: a rollback to a snapshot that is not there
Possible_always(o) == o.kind = "snapshot" => snaps[o.arg] = NoSnap

\* Proxmox makes no snapshot of a name that exists, and finds only those that do
Possible(o) == /\ o.kind = "snapshot" => snaps[o.arg] = NoSnap
               /\ o.kind \in {"rollback", "delete"} => snaps[o.arg] # NoSnap

Effect(o) ==
  /\ disk'  = CASE o.kind = "rollback" -> snaps[o.arg]
                [] o.kind = "deploy"   -> o.arg
                [] OTHER               -> disk
  /\ snaps' = CASE o.kind = "snapshot" -> [snaps EXCEPT ![o.arg] = disk]
                [] o.kind = "delete"   -> [snaps EXCEPT ![o.arg] = NoSnap]
                [] OTHER               -> snaps

\* what the caller of o may rely on when it returns
Delivered(o) == /\ o.kind \in {"snapshot", "rollback"} => snaps[o.arg] = disk
                /\ o.kind = "delete" => snaps[o.arg] = NoSnap
                /\ o.kind = "deploy" => disk = o.arg
=============================================================================

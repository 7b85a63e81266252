----------------------------- MODULE RemoteFiles -----------------------------
(***************************************************************************)
(* What one user of myFTP may rely on while the connection holds: a        *)
(* current directory of the session, remote files that get copies here and *)
(* put copies there.  put returns before the remote file is written, and   *)
(* writing it first empties it; but no later command of the session sees   *)
(* the time between.                                                       *)
(***************************************************************************)
EXTENDS Sequences

CONSTANTS Dirs, TopDir, Subdirs, FileNames, NoFile, InitialStored, InitialLocal

VARIABLES cwd, stored, local,
          upload         \* the put that is on its way, or {}

vars == <<cwd, stored, local, upload>>

Init == /\ cwd = TopDir
        /\ stored = InitialStored
        /\ local = InitialLocal
        /\ upload = {}

(* A new session: the one before has ended with nothing on its way.        *)
Login == /\ upload = {}
         /\ cwd' = TopDir
         /\ UNCHANGED <<stored, local, upload>>

Enter(d) == /\ upload = {}
            /\ <<cwd, d>> \in Subdirs
            /\ cwd' = d
            /\ UNCHANGED <<stored, local, upload>>

Get(n) == /\ upload = {}
          /\ stored[<<cwd, n>>] # NoFile
          /\ local' = [local EXCEPT ![n] = stored[<<cwd, n>>]]
          /\ UNCHANGED <<cwd, stored, upload>>

Put(n) == /\ upload = {}
          /\ local[n] # NoFile
          /\ upload' = {[name |-> n, data |-> local[n]]}
          /\ UNCHANGED <<cwd, stored, local>>

Truncate == \E u \in upload : /\ stored' = [stored EXCEPT ![<<cwd, u.name>>] = <<>>]
                              /\ UNCHANGED <<cwd, local, upload>>

Store == \E u \in upload : /\ stored' = [stored EXCEPT ![<<cwd, u.name>>] = u.data]
                           /\ upload' = {}
                           /\ UNCHANGED <<cwd, local>>

Next == \/ Login \/ Truncate \/ Store
        \/ \E d \in Dirs : Enter(d)
        \/ \E n \in FileNames : Get(n) \/ Put(n)

(* What has been put is stored in the end.                                 *)
Spec == Init /\ [][Next]_vars /\ WF_vars(Store)
=============================================================================

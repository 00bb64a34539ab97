--------------------------- MODULE DeviceAuthority ---------------------------
(***************************************************************************)
(* What enrollment promises about the devices of a Fabric, seen on durable *)
(* state and without requests, codes' lifetimes, saves or crashes: only an *)
(* approval of the Owner makes a device active, each approval is consumed  *)
(* by the activation it allows, and every change of the directory or of a  *)
(* Grant advances its version.                                             *)
(***************************************************************************)
EXTENDS Integers

CONSTANTS Device, NoDevice, Code

VARIABLES
  owner,       \* the Owner's device, once the Fabric has one
  status,      \* Device -> "absent", "active" or "revoked"
  approvals,   \* pairs <<code, device>> approved and not yet used
  bindings,    \* published Shell bindings, records with a field device
  directory,   \* directory version
  grant        \* Grant version

vars == <<owner, status, approvals, bindings, directory, grant>>

Init ==
  /\ owner = NoDevice
  /\ status = [d \in Device |-> "absent"]
  /\ approvals = {}
  /\ bindings = {}
  /\ directory = 0
  /\ grant = 0

Found(o) ==
  /\ owner = NoDevice
  /\ owner' = o
  /\ status' = [status EXCEPT ![o] = "active"]
  /\ directory' = 1 /\ grant' = 1
  /\ UNCHANGED <<approvals, bindings>>

Approve(c, d) ==
  /\ status[d] # "active"
  /\ approvals' = approvals \cup {<<c, d>>}
  /\ UNCHANGED <<owner, status, bindings, directory, grant>>

\* Approvals lapse when their activation expires.
Lapse ==
  /\ approvals' \subseteq approvals
  /\ UNCHANGED <<owner, status, bindings, directory, grant>>

Activate(c, d) ==
  /\ <<c, d>> \in approvals
  /\ status[d] # "active"
  /\ approvals' = approvals \ {<<c, d>>}
  /\ status' = [status EXCEPT ![d] = "active"]
  /\ directory' = directory + 1
  /\ UNCHANGED <<owner, bindings, grant>>

\* A revoked device keeps no binding and no approval.
Revoke(d) ==
  /\ d # owner
  /\ status[d] = "active"
  /\ \A c \in Code : <<c, d>> \notin approvals
  /\ status' = [status EXCEPT ![d] = "revoked"]
  /\ bindings' = {b \in bindings : b.device # d}
  /\ directory' = directory + 1
  /\ grant' = grant + 1
  /\ UNCHANGED <<owner, approvals>>

\* An active device changes its own bindings only.
Publish(d) ==
  /\ status[d] = "active"
  /\ {b \in bindings' : b.device # d} = {b \in bindings : b.device # d}
  /\ directory' = directory + 1
  /\ UNCHANGED <<owner, status, approvals, grant>>

Next ==
  \/ \E d \in Device : Found(d) \/ Revoke(d) \/ Publish(d)
  \/ \E c \in Code, d \in Device : Approve(c, d) \/ Activate(c, d)
  \/ Lapse

Spec == Init /\ [][Next]_vars

=============================================================================

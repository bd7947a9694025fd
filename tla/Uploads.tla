------------------------------- MODULE Uploads -------------------------------
(***************************************************************************)
(* Private files and who may open them: src/uploads/uploads.controller.ts, *)
(* the permissions of access roles in                                      *)
(* src/access-control/access-control.service.ts, and their check in        *)
(* src/common/guards/roles.guard.ts.                                       *)
(*                                                                         *)
(* A file is stored before the row that names it, and is never removed: a  *)
(* request that dies in between leaves a file nobody knows.  Of the        *)
(* permissions, those of the two kinds of files are kept.                  *)
(***************************************************************************)
EXTENDS Inbox

CONSTANTS
  Files,      \* storage keys of private files (bounds how many are stored)
  UploadIds,  \* ids for rows of PrivateUpload
  Owners,     \* the users who upload
  Picks       \* sets of permissions that are picked for an admin

Purpose == {"payment_proof", "seller_document"}

Permission == {"*", "orders.read", "finance.read", "finance.manage",
               "seller_applications.read", "seller_applications.review"}

UploadRow == [owner : Users, purpose : Purpose, file : Files]

ASSUME UploadsAssumption ==
  /\ Owners \subseteq Users
  /\ Picks \subseteq SUBSET Permission
  /\ Nothing \notin Files \cup UploadRow

VARIABLES
  files,   \* the private files that are stored
  upload,  \* rows of PrivateUpload
  grants   \* AccessRole.permissions of the role an admin has

uploadVars == <<files, upload, grants>>

UploadsInit ==
  /\ files  = {}
  /\ upload = [i \in UploadIds |-> Nothing]
  /\ grants = [u \in Admins |-> {"*"}]

\* RolesGuard, for an admin; includes what readPrivate asks.
Allowed(u, permission) ==
  u \in Admins /\ grants[u] \cap {"*", permission} # {}

\* savePrivate: a new key each time.
Stored(key) == key \notin files /\ files' = files \cup {key}

\* uploadImage, of a payment, and uploadDocument.
Save(r, u, purpose, key) ==
  /\ Stored(key)
  /\ Begin(r, [at |-> "row", owner |-> u, purpose |-> purpose, file |-> key])
  /\ UNCHANGED <<inboxVars, cut, upload, grants>>

UploadInsert(r, i) ==
  /\ req[r].at = "row"
  /\ upload[i] = Nothing
  /\ upload' = [upload EXCEPT ![i] = [owner |-> req[r].owner,
       purpose |-> req[r].purpose, file |-> req[r].file]]
  /\ Go(r, Idle)
  /\ UNCHANGED <<left, inboxVars, cut, files, grants>>

Implied == {<<"finance.manage", "finance.read">>,
            <<"seller_applications.review", "seller_applications.read">>}

\* Mutant of Normalised: the permissions are kept as they were picked.
AsPicked(picked) == picked

\* normalizePermissions: who may change may read.
Normalised(picked) == picked \cup {p[2] : p \in {q \in Implied : q[1] \in picked}}

\* createRole, updateRole and assignAccessRole, as an admin feels them; {"*"} is
\* the role Administrator.
SetGrants(u, picked) ==
  /\ Spend
  /\ grants[u] # Normalised(picked)
  /\ grants' = [grants EXCEPT ![u] = Normalised(picked)]
  /\ UNCHANGED <<req, inboxVars, cut, files, upload>>

UploadsNext ==
  \/ \E r \in Requests :
       \/ \E u \in Owners, purpose \in Purpose, key \in Files : Save(r, u, purpose, key)
       \/ \E i \in UploadIds : UploadInsert(r, i)
  \/ \E u \in Admins, picked \in Picks : SetGrants(u, picked)

UploadsTypeOK ==
  /\ files  \in SUBSET Files
  /\ upload \in [UploadIds -> UploadRow \cup {Nothing}]
  /\ grants \in [Admins -> SUBSET Permission]

-----------------------------------------------------------------------------

\* adminCanRead, of readPrivate.  The owner of a file and the seller whose order
\* a proof pays for may open it too, whatever the permissions.
AdminCanRead(u, i) ==
  IF upload[i].purpose = "seller_document"
  THEN Allowed(u, "seller_applications.read")
  ELSE Allowed(u, "finance.read") \/ Allowed(u, "orders.read")

\* What an admin needs to decide on what a file is for: the routes of
\* payment-submissions and of seller-applications.
MayJudge(u, i) ==
  IF upload[i].purpose = "seller_document"
  THEN Allowed(u, "seller_applications.review")
  ELSE Allowed(u, "finance.manage")
=============================================================================

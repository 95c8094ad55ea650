---------------------------- MODULE UserAccounts ----------------------------
(***************************************************************************)
(* Staff and applicant accounts as the user-management routes change them: *)
(* services/user.service.ts and changeUserPassword of auth.service.ts.     *)
(*                                                                         *)
(* A request is a process.  The middleware authenticates it once (mockAuth *)
(* and requireRole load the acting account's row), the service then reads  *)
(* the target row, may count the other superadmins, and writes the target  *)
(* row by id.  No transaction spans these statements, so other requests    *)
(* run between any two of them; each statement alone is atomic.            *)
(***************************************************************************)
EXTENDS Naturals

CONSTANTS
    User,       \* account rows, existing or not yet created
    Operator,   \* the accounts whose holders use the management screens
    Request,    \* slots for requests in flight: |Request| bounds concurrency
    Secret,     \* passwords, as the hashes the row keeps
    NoPass,     \* a null passHash
    Submitted,  \* the role configurations clients submit, valid or not
    NoConfig,   \* no configuration in the request
    NoUser      \* no account in the request

Role  == {"SUPERADMIN", "AGENT", "USER"}
Scope == {"none", "SUPERADMIN", "NATIONAL", "LOCAL"}
Psgc  == {"none", "SUPERADMIN", "code"}
Config == [role : Role, scope : Scope, group : BOOLEAN, psgc : Psgc]

ASSUME ConstantsAssumption ==
    /\ Operator \subseteq User
    /\ Submitted \subseteq Config
    /\ NoPass \notin Secret
    /\ NoConfig \notin Config
    /\ NoUser \notin User

VARIABLES
    account,    \* the DimUser rows
    req         \* the requests in flight

vars == <<account, req>>

Account == [status : {"absent", "live", "deleted"}, config : Config,
            active : BOOLEAN, pass : Secret \cup {NoPass},
            forceReset : BOOLEAN]

RemovalOp  == {"assign", "delete", "active"}
ManageOp   == RemovalOp \cup {"create", "reset"}
Op         == ManageOp \cup {"changePassword"}

RequestState ==
    [pc : {"idle", "find", "count", "write"}, op : Op,
     actor : User \cup {NoUser}, target : User \cup {NoUser},
     wanted : Config \cup {NoConfig}]

Idle == [pc |-> "idle", op |-> "create", actor |-> NoUser, target |-> NoUser,
         wanted |-> NoConfig]

-----------------------------------------------------------------------------
\* The strict role/scope/group/psgcCode matrix every write of a role passes.
ValidConfig(c) ==
    \/ /\ c.role = "SUPERADMIN"
       /\ c.scope = "SUPERADMIN" /\ c.group /\ c.psgc = "SUPERADMIN"
    \/ /\ c.role = "AGENT"
       /\ c.scope = "NATIONAL" /\ c.group /\ c.psgc = "none"
    \/ /\ c.role = "AGENT"
       /\ c.scope \notin {"none", "NATIONAL"} /\ ~c.group /\ c.psgc # "none"
    \/ /\ c.role = "USER"
       /\ c.scope = "none" /\ ~c.group /\ c.psgc = "none"

PlainUser == [role |-> "USER", scope |-> "none", group |-> FALSE, psgc |-> "none"]

Live(u)   == account[u].status = "live"
RoleOf(u) == account[u].config.role

ActiveSuperadmin(u) ==
    Live(u) /\ account[u].active /\ RoleOf(u) = "SUPERADMIN"

-----------------------------------------------------------------------------
\* A row that is not there yet, a fresh applicant, or a fresh staff account
\* with the password it was created with.
InitialAccount ==
    {a \in Account :
        /\ a.status # "deleted" /\ a.active /\ ~a.forceReset
        /\ \/ a.config = PlainUser /\ a.pass = NoPass
           \/ /\ a.status = "live" /\ a.pass # NoPass
              /\ a.config \in Submitted /\ ValidConfig(a.config)
              /\ a.config.role # "USER"}

\* A database that already holds accounts, at least one an active superadmin:
\* the seeders create it, and without it no management route is usable.
Init ==
    /\ account \in [User -> InitialAccount]
    /\ \E u \in User : ActiveSuperadmin(u)
    /\ req = [r \in Request |-> Idle]

Finish(r) == req' = [req EXCEPT ![r] = Idle]

Continue(r, pc) == req' = [req EXCEPT ![r].pc = pc]

\* mockAuth loads the acting row and refuses a missing, deleted or inactive
\* account; requireRole(MANAGE_USERS) lets superadmins through.  req.user is
\* never read again.
Authenticate(r, a, o, t) ==
    /\ req[r].pc = "idle"
    /\ Live(a) /\ account[a].active
    /\ \/ o \in ManageOp /\ a \in Operator /\ RoleOf(a) = "SUPERADMIN"
       \/ o = "changePassword" /\ t = a
    /\ req' = [req EXCEPT ![r] = [Idle EXCEPT !.pc = "find", !.op = o,
                                              !.actor = a, !.target = t]]
    /\ UNCHANGED account

\* A target that does not exist any more answers USER_NOT_FOUND.
NotFound(r) ==
    /\ req[r].pc = "find" /\ req[r].op # "create"
    /\ ~Live(req[r].target)
    /\ Finish(r)
    /\ UNCHANGED account

\* Mutation: one's own superadmin account counts as nothing to protect.
AssertRemovableMutant(r, c) ==
    LET t == req[r].target IN
    \/ /\ RoleOf(t) # "SUPERADMIN" \/ t = req[r].actor
       /\ req' = [req EXCEPT ![r].pc = "write", ![r].wanted = c]
    \/ /\ RoleOf(t) = "SUPERADMIN" /\ t # req[r].actor
       /\ req' = [req EXCEPT ![r].pc = "count", ![r].wanted = c]

\* assertSuperadminRemovable up to its count: nothing to protect on an
\* account that is not a superadmin, never one's own account, else count.
AssertRemovable(r, c) ==
    LET t == req[r].target IN
    \/ /\ RoleOf(t) # "SUPERADMIN"
       /\ req' = [req EXCEPT ![r].pc = "write", ![r].wanted = c]
    \/ /\ RoleOf(t) = "SUPERADMIN" /\ t = req[r].actor
       /\ Finish(r)
    \/ /\ RoleOf(t) = "SUPERADMIN" /\ t # req[r].actor
       /\ req' = [req EXCEPT ![r].pc = "count", ![r].wanted = c]

FindForAssign(r) ==
    /\ req[r].pc = "find" /\ req[r].op = "assign" /\ Live(req[r].target)
    /\ \E c \in Submitted :
          \/ /\ c.role = "SUPERADMIN"
             /\ req' = [req EXCEPT ![r].pc = "write", ![r].wanted = c]
          \/ /\ c.role # "SUPERADMIN"
             /\ AssertRemovable(r, c)
    /\ UNCHANGED account

FindForDelete(r) ==
    /\ req[r].pc = "find" /\ req[r].op = "delete" /\ Live(req[r].target)
    /\ AssertRemovable(r, NoConfig)
    /\ UNCHANGED account

\* The count of the other active superadmins.
CountOthers(r) ==
    /\ req[r].pc = "count"
    /\ \/ /\ \E u \in User \ {req[r].target} : ActiveSuperadmin(u)
          /\ Continue(r, "write")
       \/ /\ ~ \E u \in User \ {req[r].target} : ActiveSuperadmin(u)
          /\ Finish(r)
    /\ UNCHANGED account

\* setUserActive and resetUserPassword refuse every superadmin; a USER has no
\* password to reset.
FindForActiveOrReset(r) ==
    LET role == RoleOf(req[r].target) IN
    /\ req[r].pc = "find" /\ req[r].op \in {"active", "reset"}
    /\ Live(req[r].target)
    /\ \/ /\ role = "AGENT" \/ (role = "USER" /\ req[r].op = "active")
          /\ Continue(r, "write")
       \/ /\ role = "SUPERADMIN" \/ (role = "USER" /\ req[r].op = "reset")
          /\ Finish(r)
    /\ UNCHANGED account

\* changeUserPassword reads the row and compares the current password with
\* the hash it read; by the time of the write the hash may be another.
ComparePassword(r) ==
    LET t == req[r].target IN
    /\ req[r].pc = "find" /\ req[r].op = "changePassword" /\ Live(t)
    /\ \/ /\ account[t].active /\ account[t].pass # NoPass
          /\ Continue(r, "write")
       \/ Finish(r)     \* wrong password, no password or inactive
    /\ UNCHANGED account

-----------------------------------------------------------------------------
\* Mutation: the role is saved without the matrix check.
AssignUserRoleMutant(r) ==
    /\ req[r].pc = "write" /\ req[r].op = "assign"
    /\ account' = [account EXCEPT ![req[r].target].config = req[r].wanted]
    /\ Finish(r)

\* The writes address the row by id alone: they neither recheck what was read
\* nor exclude a row deleted since.
AssignUserRole(r) ==
    /\ req[r].pc = "write" /\ req[r].op = "assign"
    /\ \/ /\ ValidConfig(req[r].wanted)
          /\ account' = [account EXCEPT ![req[r].target].config = req[r].wanted]
       \/ /\ ~ValidConfig(req[r].wanted)
          /\ UNCHANGED account
    /\ Finish(r)

DeleteUser(r) ==
    /\ req[r].pc = "write" /\ req[r].op = "delete"
    /\ account' = [account EXCEPT ![req[r].target].status = "deleted"]
    /\ Finish(r)

SetUserActive(r) ==
    /\ req[r].pc = "write" /\ req[r].op = "active"
    /\ \E b \in BOOLEAN :
          account' = [account EXCEPT ![req[r].target].active = b]
    /\ Finish(r)

\* A generated temporary password never equals the stored one.
ResetUserPassword(r) ==
    /\ req[r].pc = "write" /\ req[r].op = "reset"
    /\ \E s \in Secret \ {account[req[r].target].pass} :
          account' = [account EXCEPT ![req[r].target].pass = s,
                                     ![req[r].target].forceReset = TRUE]
    /\ Finish(r)

ChangeUserPassword(r) ==
    /\ req[r].pc = "write" /\ req[r].op = "changePassword"
    /\ \E s \in Secret :
          account' = [account EXCEPT ![req[r].target].pass = s,
                                     ![req[r].target].forceReset = FALSE]
    /\ Finish(r)

\* createUser inserts a fresh row; the request schema demands a password of a
\* staff account and refuses one of a USER.
CreateUser(r) ==
    /\ req[r].pc = "find" /\ req[r].op = "create"
    /\ \/ \E u \in User, c \in Submitted :
             /\ account[u].status = "absent"
             /\ ValidConfig(c)
             /\ \E p \in IF c.role = "USER" THEN {NoPass} ELSE Secret :
                   account' = [account EXCEPT ![u] =
                       [status |-> "live", config |-> c, active |-> TRUE,
                        pass |-> p, forceReset |-> FALSE]]
       \/ UNCHANGED account     \* an invalid configuration, a taken name
    /\ Finish(r)

Step(r) ==
    \/ \E a \in User, o \in Op, t \in User : Authenticate(r, a, o, t)
    \/ NotFound(r)
    \/ FindForAssign(r)
    \/ FindForDelete(r)
    \/ CountOthers(r)
    \/ FindForActiveOrReset(r)
    \/ ComparePassword(r)
    \/ AssignUserRole(r)
    \/ DeleteUser(r)
    \/ SetUserActive(r)
    \/ ResetUserPassword(r)
    \/ ChangeUserPassword(r)
    \/ CreateUser(r)

Next == \E r \in Request : Step(r)

Spec == Init /\ [][Next]_vars

-----------------------------------------------------------------------------
\* Rows and requests have the shape of the schema.
TypeOK ==
    /\ account \in [User -> Account]
    /\ req \in [Request -> RequestState]

\* "Nobody can remove the last remaining active superadmin": a management
\* route can always be used by somebody, whatever the routes did so far.
SuperadminRemains == \E u \in User : ActiveSuperadmin(u)

\* Every row that holds an account obeys the role matrix the authorization of
\* benefits and fields reads (an agent without scope would match nothing or
\* everything), whichever of two racing role changes lands last.
RoleMatrix ==
    \A u \in User : account[u].status # "absent" => ValidConfig(account[u].config)

\* A superadmin account is never switched off: deactivation refuses it, and
\* nobody could switch it on again.
SuperadminNeverDeactivated ==
    [][\A u \in User :
          ActiveSuperadmin(u) /\ Live(u)' /\ RoleOf(u)' = "SUPERADMIN"
              => account'[u].active]_vars

=============================================================================

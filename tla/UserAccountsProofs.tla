------------------------- MODULE UserAccountsProofs -------------------------
(***************************************************************************)
(* What UserAccounts guarantees for any number of accounts and requests:   *)
(* type correctness; the role matrix; and that an active superadmin        *)
(* remains when requests are served one at a time or when a single account *)
(* does all the managing.                                                  *)
(***************************************************************************)
EXTENDS UserAccounts, TLAPS

\* The row a request writes is always a row of the table, and an assign
\* request that may write carries a configuration it was sent.
InFlight(q) ==
    q.pc # "idle" =>
        /\ q.actor \in User
        /\ q.target \in User
        /\ q.op = "assign" /\ q.pc \in {"count", "write"} => q.wanted \in Submitted
        /\ q.pc = "count" => q.op \in {"assign", "delete"}

InFlightOK == \A r \in Request : InFlight(req[r])

TypeInv == TypeOK /\ InFlightOK

LEMMA InitTypeInv == Init => TypeInv
<1> SUFFICES ASSUME Init PROVE TypeInv
  OBVIOUS
<1>2. account \in [User -> Account]
  BY DEF Init, InitialAccount
<1>3. req \in [Request -> RequestState]
  BY DEF Init, Idle, RequestState, Op, ManageOp, RemovalOp
<1>4. InFlightOK
  BY DEF Init, Idle, InFlightOK, InFlight
<1> QED
  BY <1>2, <1>3, <1>4 DEF TypeInv, TypeOK

\* A request record changed in its pc or its wanted configuration stays a
\* request record.
LEMMA RequestUpdate ==
    ASSUME NEW q \in RequestState, NEW pc \in {"idle", "find", "count", "write"},
           NEW c \in Config \cup {NoConfig}
    PROVE  /\ [q EXCEPT !.pc = pc] \in RequestState
           /\ [q EXCEPT !.pc = pc, !.wanted = c] \in RequestState
<1>1. [q EXCEPT !.pc = pc] \in RequestState
  BY DEF RequestState
<1>2. [q EXCEPT !.pc = pc, !.wanted = c] \in RequestState
  BY DEF RequestState
<1> QED
  BY <1>1, <1>2

\* One request changes, to a well-formed one: all stay well formed.
LEMMA OneRequestChanges ==
    ASSUME TypeInv, NEW r \in Request, NEW q \in RequestState, InFlight(q),
           req' = [req EXCEPT ![r] = q]
    PROVE  req' \in [Request -> RequestState] /\ InFlightOK'
  BY DEF TypeInv, TypeOK, InFlightOK, InFlight

\* A request that ends leaves its slot idle.
LEMMA FinishKeepsRequests ==
    ASSUME TypeInv, NEW r \in Request, Finish(r)
    PROVE  req' \in [Request -> RequestState] /\ InFlightOK'
<1>1. Idle \in RequestState /\ InFlight(Idle)
  BY DEF Idle, RequestState, Op, ManageOp, RemovalOp, InFlight
<1> QED
  BY <1>1, OneRequestChanges DEF Finish

\* assertSuperadminRemovable hands the configuration on or ends the request.
LEMMA AssertRemovableKeepsRequests ==
    ASSUME TypeInv, NEW r \in Request, NEW c \in Config \cup {NoConfig},
           req[r].pc = "find", req[r].op \in {"assign", "delete"},
           req[r].op = "assign" => c \in Submitted,
           AssertRemovable(r, c)
    PROVE  req' \in [Request -> RequestState] /\ InFlightOK'
<1>1. CASE Finish(r)
  BY <1>1, FinishKeepsRequests
<1>2. ASSUME NEW pc \in {"count", "write"},
             req' = [req EXCEPT ![r].pc = pc, ![r].wanted = c]
      PROVE  req' \in [Request -> RequestState] /\ InFlightOK'
  <2> DEFINE q == [req[r] EXCEPT !.pc = pc, !.wanted = c]
  <2>1. req[r] \in RequestState /\ InFlight(req[r])
    BY DEF TypeInv, TypeOK, InFlightOK
  <2>2. q \in RequestState
    BY <2>1, RequestUpdate
  <2>3. InFlight(q)
    BY <2>1 DEF InFlight, RequestState
  <2>4. req' = [req EXCEPT ![r] = q]
    BY <1>2
  <2> QED
    BY <2>2, <2>3, <2>4, OneRequestChanges
<1> QED
  BY <1>1, <1>2 DEF AssertRemovable

\* A step that touches no row and continues request r with pc p, or ends it.
LEMMA ContinueKeepsRequests ==
    ASSUME TypeInv, NEW r \in Request, req[r].pc # "idle",
           \/ Finish(r)
           \/ Continue(r, "write") /\ (req[r].op = "assign" => req[r].wanted \in Submitted)
    PROVE  req' \in [Request -> RequestState] /\ InFlightOK'
<1>1. CASE Finish(r)
  BY <1>1, FinishKeepsRequests
<1>2. CASE /\ Continue(r, "write")
           /\ req[r].op = "assign" => req[r].wanted \in Submitted
  <2> DEFINE q == [req[r] EXCEPT !.pc = "write"]
  <2>1. req[r] \in RequestState /\ InFlight(req[r])
    BY DEF TypeInv, TypeOK, InFlightOK
  <2>2. q \in RequestState
    BY <2>1, RequestUpdate
  <2>3. InFlight(q)
    BY <2>1, <1>2 DEF InFlight, RequestState
  <2>4. req' = [req EXCEPT ![r] = q]
    BY <1>2 DEF Continue
  <2> QED
    BY <2>2, <2>3, <2>4, OneRequestChanges
<1> QED
  BY <1>1, <1>2

\* One row changes, to an account: the table stays well formed.
LEMMA OneAccountChanges ==
    ASSUME TypeInv, NEW u \in User, NEW a \in Account,
           account' = [account EXCEPT ![u] = a]
    PROVE  account' \in [User -> Account]
  BY DEF TypeInv, TypeOK

\* A step of a request leaves the table and the requests well formed.
LEMMA StepTypeInv ==
    ASSUME TypeInv, NEW r \in Request, Step(r)
    PROVE  TypeInv'
<1> DEFINE t == req[r].target
<1> SUFFICES /\ account' \in [User -> Account]
             /\ req' \in [Request -> RequestState] /\ InFlightOK'
  BY DEF TypeInv, TypeOK
<1>a. account \in [User -> Account] /\ req[r] \in RequestState
      /\ InFlight(req[r])
  BY DEF TypeInv, TypeOK, InFlightOK
<1>b. req[r].pc # "idle" => t \in User /\ account[t] \in Account
  BY <1>a DEF InFlight
<1>1. ASSUME NEW a \in User, NEW o \in Op, NEW x \in User,
             Authenticate(r, a, o, x)
      PROVE  req' \in [Request -> RequestState] /\ InFlightOK'
  <2> DEFINE q == [Idle EXCEPT !.pc = "find", !.op = o, !.actor = a, !.target = x]
  <2>1. q \in RequestState /\ InFlight(q)
    BY DEF Idle, RequestState, InFlight
  <2> QED
    BY <1>1, <2>1, OneRequestChanges DEF Authenticate
<1>2. CASE NotFound(r)
  BY <1>2, <1>a, FinishKeepsRequests DEF NotFound
<1>3. CASE FindForAssign(r)
  <2> PICK c \in Submitted :
         \/ req' = [req EXCEPT ![r].pc = "write", ![r].wanted = c]
         \/ AssertRemovable(r, c)
    BY <1>3 DEF FindForAssign
  <2>1. c \in Config
    BY ConstantsAssumption
  <2>2. CASE AssertRemovable(r, c)
    BY <1>3, <1>a, <2>1, <2>2, AssertRemovableKeepsRequests DEF FindForAssign
  <2>3. CASE req' = [req EXCEPT ![r].pc = "write", ![r].wanted = c]
    <3> DEFINE q == [req[r] EXCEPT !.pc = "write", !.wanted = c]
    <3>1. q \in RequestState
      BY <1>a, <2>1, RequestUpdate
    <3>2. InFlight(q)
      BY <1>a, <1>3 DEF InFlight, RequestState, FindForAssign
    <3>3. req' = [req EXCEPT ![r] = q]
      BY <2>3
    <3> QED
      BY <1>3, <1>a, <3>1, <3>2, <3>3, OneRequestChanges DEF FindForAssign
  <2> QED
    BY <2>2, <2>3
<1>4. CASE FindForDelete(r)
  BY <1>4, <1>a, AssertRemovableKeepsRequests DEF FindForDelete
<1>5. CASE CountOthers(r)
  BY <1>5, <1>a, ContinueKeepsRequests DEF CountOthers, InFlight
<1>6. CASE FindForActiveOrReset(r)
  BY <1>6, <1>a, ContinueKeepsRequests DEF FindForActiveOrReset
<1>7. CASE ComparePassword(r)
  <2>1. CASE Finish(r)
    BY <2>1, <1>7, <1>a, FinishKeepsRequests DEF ComparePassword
  <2>2. CASE Continue(r, "write")
    BY <2>2, <1>7, <1>a, ContinueKeepsRequests DEF ComparePassword
  <2> QED
    BY <1>7, <2>1, <2>2 DEF ComparePassword
<1>8. CASE AssignUserRole(r)
  <2>1. req[r].wanted \in Config
    BY <1>8, <1>a, ConstantsAssumption DEF AssignUserRole, InFlight
  <2>2. account' \in [User -> Account]
    <3>1. CASE account' = [account EXCEPT ![t].config = req[r].wanted]
      <4> DEFINE a == [account[t] EXCEPT !.config = req[r].wanted]
      <4>1. t \in User /\ account[t] \in Account
        BY <1>8, <1>b DEF AssignUserRole
      <4>2. a \in Account
        BY <4>1, <2>1 DEF Account
      <4>3. account' = [account EXCEPT ![t] = a]
        BY <3>1
      <4> QED
        BY <4>1, <4>2, <4>3, OneAccountChanges
    <3> QED
      BY <3>1, <1>8, <1>a DEF AssignUserRole
  <2> QED
    BY <2>2, <1>8, FinishKeepsRequests DEF AssignUserRole
<1>9. CASE DeleteUser(r)
  BY <1>9, <1>a, <1>b, FinishKeepsRequests DEF DeleteUser, Account
<1>10. CASE SetUserActive(r)
  BY <1>10, <1>a, <1>b, FinishKeepsRequests DEF SetUserActive, Account
<1>11. CASE ResetUserPassword(r)
  BY <1>11, <1>a, <1>b, FinishKeepsRequests DEF ResetUserPassword, Account
<1>12. CASE ChangeUserPassword(r)
  BY <1>12, <1>a, <1>b, FinishKeepsRequests DEF ChangeUserPassword, Account
<1>13. CASE CreateUser(r)
  <2>1. CASE UNCHANGED account
    BY <2>1, <1>13, <1>a, FinishKeepsRequests DEF CreateUser
  <2>2. ASSUME NEW u \in User, NEW c \in Submitted,
               NEW p \in Secret \cup {NoPass},
               account' = [account EXCEPT ![u] =
                   [status |-> "live", config |-> c, active |-> TRUE,
                    pass |-> p, forceReset |-> FALSE]]
        PROVE  account' \in [User -> Account]
    <3>1. [status |-> "live", config |-> c, active |-> TRUE, pass |-> p,
           forceReset |-> FALSE] \in Account
      BY ConstantsAssumption DEF Account
    <3> QED
      BY <2>2, <3>1, OneAccountChanges
  <2>3. account' \in [User -> Account]
    BY <2>1, <2>2, <1>a, <1>13 DEF CreateUser
  <2> QED
    BY <2>3, <1>13, FinishKeepsRequests DEF CreateUser
<1> QED
  BY <1>1, <1>2, <1>3, <1>4, <1>5, <1>6, <1>7, <1>8, <1>9, <1>10, <1>11,
     <1>12, <1>13, <1>a
     DEF Step, Authenticate, NotFound, FindForAssign, FindForDelete,
         CountOthers, FindForActiveOrReset, ComparePassword

\* Rows and requests keep the shape of the schema, whatever interleaves.
THEOREM TypeCorrect == Spec => []TypeOK
<1>1. Init => TypeInv
  BY InitTypeInv
<1>2. TypeInv /\ [Next]_vars => TypeInv'
  <2> SUFFICES ASSUME TypeInv, [Next]_vars PROVE TypeInv'
    OBVIOUS
  <2>1. CASE Next
    BY <2>1, StepTypeInv DEF Next
  <2>2. CASE UNCHANGED vars
    BY <2>2 DEF vars, TypeInv, TypeOK, InFlightOK, InFlight
  <2> QED
    BY <2>1, <2>2
<1>3. TypeInv => TypeOK
  BY DEF TypeInv
<1> QED
  BY <1>1, <1>2, <1>3, PTL DEF Spec

-----------------------------------------------------------------------------
(***************************************************************************)
(* An active superadmin remains.  A pending write spares account u unless  *)
(* it may take u out of the role, delete it or switch it off; a step of a  *)
(* request that spares u leaves u an active superadmin.                    *)
(***************************************************************************)
Removes(q) ==
    /\ q.pc = "write" /\ q.op \in RemovalOp
    /\ ~(q.op = "assign" /\ q.wanted.role = "SUPERADMIN")

Spares(q, u) == Removes(q) => q.target # u

LEMMA StepSpares ==
    ASSUME TypeInv, NEW r \in Request, Step(r), NEW u \in User,
           ActiveSuperadmin(u), Spares(req[r], u)
    PROVE  ActiveSuperadmin(u)'
<1> DEFINE t == req[r].target
<1>a. account \in [User -> Account] /\ InFlight(req[r])
  BY DEF TypeInv, TypeOK, InFlightOK
<1>b. req[r].pc # "idle" => t \in User
  BY <1>a DEF InFlight
<1>1. CASE UNCHANGED account
  BY <1>1 DEF ActiveSuperadmin, Live, RoleOf
<1>2. CASE AssignUserRole(r)
  <2>1. CASE account' = [account EXCEPT ![t].config = req[r].wanted]
    <3>1. CASE t = u
      <4>1. req[r].wanted.role = "SUPERADMIN"
        BY <3>1, <1>2 DEF Spares, Removes, RemovalOp, AssignUserRole
      <4> QED
        BY <1>a, <2>1, <3>1, <4>1 DEF ActiveSuperadmin, Live, RoleOf, Account
    <3>2. CASE t # u
      BY <1>a, <2>1, <3>2 DEF ActiveSuperadmin, Live, RoleOf
    <3> QED
      BY <3>1, <3>2
  <2> QED
    BY <1>1, <1>2, <2>1 DEF AssignUserRole
<1>3. CASE DeleteUser(r)
  <2>1. t # u
    BY <1>3 DEF Spares, Removes, RemovalOp, DeleteUser
  <2> QED
    BY <1>3, <1>a, <2>1 DEF DeleteUser, ActiveSuperadmin, Live, RoleOf
<1>4. CASE SetUserActive(r)
  <2>1. t # u
    BY <1>4 DEF Spares, Removes, RemovalOp, SetUserActive
  <2> QED
    BY <1>4, <1>a, <2>1 DEF SetUserActive, ActiveSuperadmin, Live, RoleOf
<1>5. CASE ResetUserPassword(r)
  BY <1>5, <1>a
     DEF ResetUserPassword, ActiveSuperadmin, Live, RoleOf, Account
<1>6. CASE ChangeUserPassword(r)
  BY <1>6, <1>a
     DEF ChangeUserPassword, ActiveSuperadmin, Live, RoleOf, Account
<1>7. CASE CreateUser(r)
  BY <1>1, <1>7, <1>a DEF CreateUser, ActiveSuperadmin, Live, RoleOf
<1> QED
  BY <1>1, <1>2, <1>3, <1>4, <1>5, <1>6, <1>7
     DEF Step, Authenticate, NotFound, FindForAssign, FindForDelete,
         CountOthers, FindForActiveOrReset, ComparePassword

\* How request r can reach its write: it changes superadmins only after it
\* saw that the target is none, or after it counted another one.
LEMMA ReachesWrite ==
    ASSUME TypeInv, NEW r \in Request, Step(r), Removes(req[r])'
    PROVE  /\ UNCHANGED account
           /\ req'[r].target = req[r].target /\ req'[r].actor = req[r].actor
           /\ req'[r].op = req[r].op /\ req[r].pc \in {"find", "count"}
           /\ \/ RoleOf(req[r].target) # "SUPERADMIN"
              \/ /\ req[r].pc = "count"
                 /\ \E u \in User \ {req[r].target} : ActiveSuperadmin(u)
<1>a. req \in [Request -> RequestState]
  BY DEF TypeInv, TypeOK
<1>1. ~Finish(r)
  BY <1>a DEF Finish, Idle, Removes
<1>2. ASSUME NEW a \in User, NEW o \in Op, NEW x \in User,
             Authenticate(r, a, o, x)
      PROVE  FALSE
  <2>1. req'[r].pc = "find"
    BY <1>2, <1>a DEF Authenticate, Idle
  <2> QED
    BY <2>1 DEF Removes
<1>3. CASE FindForAssign(r)
  BY <1>1, <1>3, <1>a
     DEF FindForAssign, AssertRemovable, Removes, RequestState
<1>4. CASE FindForDelete(r)
  BY <1>1, <1>4, <1>a
     DEF FindForDelete, AssertRemovable, Removes, RequestState
<1>5. CASE CountOthers(r)
  BY <1>1, <1>5, <1>a DEF CountOthers, Continue, RequestState
<1>6. CASE FindForActiveOrReset(r)
  BY <1>1, <1>6, <1>a DEF FindForActiveOrReset, Continue, RequestState
<1>7. CASE ComparePassword(r)
  BY <1>1, <1>7, <1>a DEF ComparePassword, Continue, Removes, RemovalOp, RequestState
<1> QED
  BY <1>1, <1>2, <1>3, <1>4, <1>5, <1>6, <1>7
     DEF Step, NotFound, AssignUserRole, DeleteUser, SetUserActive,
         ResetUserPassword, ChangeUserPassword, CreateUser

\* A step of one request leaves the others as they are.
LEMMA OthersUnchanged ==
    ASSUME TypeInv, NEW r \in Request, Step(r), NEW q \in Request, q # r
    PROVE  req'[q] = req[q]
  BY DEF TypeInv, TypeOK, Step, Authenticate, NotFound, FindForAssign,
         FindForDelete, AssertRemovable, CountOthers, FindForActiveOrReset,
         ComparePassword, AssignUserRole, DeleteUser, SetUserActive,
         ResetUserPassword, ChangeUserPassword, CreateUser, Finish, Continue

-----------------------------------------------------------------------------
\* Requests served one at a time.
OneAtATime == \A r, q \in Request : r = q

\* Some active superadmin is spared by whatever the request is about to write.
SerialInv ==
    /\ TypeInv
    /\ SuperadminRemains
    /\ \A r \in Request :
          Removes(req[r]) =>
              \E u \in User \ {req[r].target} : ActiveSuperadmin(u)

LEMMA SerialStep ==
    ASSUME OneAtATime, SerialInv, NEW r \in Request, Step(r)
    PROVE  SerialInv'
<1>1. TypeInv /\ TypeInv'
  BY StepTypeInv DEF SerialInv
<1>2. PICK u \in User : ActiveSuperadmin(u) /\ Spares(req[r], u)
  BY DEF SerialInv, SuperadminRemains, Spares
<1>3. SuperadminRemains'
  BY <1>1, <1>2, StepSpares DEF SuperadminRemains
<1>4. ASSUME NEW q \in Request, Removes(req[q])'
      PROVE  (\E w \in User \ {req[q].target} : ActiveSuperadmin(w))'
  <2>1. q = r
    BY DEF OneAtATime
  <2>2. \E w \in User \ {req[r].target} : ActiveSuperadmin(w)
    BY <1>1, <1>4, <2>1, ReachesWrite
       DEF SerialInv, SuperadminRemains, ActiveSuperadmin
  <2> QED
    BY <1>1, <1>4, <2>1, <2>2, ReachesWrite DEF ActiveSuperadmin, Live, RoleOf
<1> QED
  BY <1>1, <1>3, <1>4 DEF SerialInv

\* The rule holds as long as no two requests overlap: the count and the write
\* it licenses then see the same table.
THEOREM SerialSuperadminRemains ==
    ASSUME OneAtATime
    PROVE  Spec => []SuperadminRemains
<1>1. Init => SerialInv
  BY InitTypeInv DEF SerialInv, Init, SuperadminRemains, Removes, Idle
<1>2. SerialInv /\ [Next]_vars => SerialInv'
  <2> SUFFICES ASSUME SerialInv, [Next]_vars PROVE SerialInv'
    OBVIOUS
  <2>1. CASE Next
    BY <2>1, SerialStep DEF Next
  <2>2. CASE UNCHANGED vars
    BY <2>2 DEF vars, SerialInv, TypeInv, TypeOK, InFlightOK, InFlight,
                SuperadminRemains, ActiveSuperadmin, Live, RoleOf, Removes
  <2> QED
    BY <2>1, <2>2
<1>3. SerialInv => SuperadminRemains
  BY DEF SerialInv
<1> QED
  BY <1>1, <1>2, <1>3, PTL DEF Spec

-----------------------------------------------------------------------------
\* A single account manages, with any number of requests at once.
OneOperator == \A a, b \in Operator : a = b

\* The operator stays an active superadmin, because no request it sent is
\* about to write its own row out of the role.
ActorSpared(q) ==
    q.pc # "idle" /\ q.op \in ManageOp =>
        /\ q.actor \in Operator /\ ActiveSuperadmin(q.actor)
        /\ Spares(q, q.actor)
        /\ q.pc = "count" => q.target # q.actor

SoleInv ==
    /\ TypeInv
    /\ SuperadminRemains
    /\ \A r \in Request : ActorSpared(req[r])

LEMMA SoleStepActor ==
    ASSUME SoleInv, NEW r \in Request, Step(r),
           req'[r].pc # "idle", req'[r].op \in ManageOp
    PROVE  /\ req'[r].actor \in Operator
           /\ Spares(req[r], req'[r].actor)
           /\ Spares(req'[r], req'[r].actor)
           /\ ActiveSuperadmin(req'[r].actor)
           /\ req'[r].pc = "count" => req'[r].target # req'[r].actor
<1>a. req \in [Request -> RequestState] /\ ActorSpared(req[r])
  BY DEF SoleInv, TypeInv, TypeOK
<1>b. ~Finish(r)
  BY <1>a DEF Finish, Idle
<1>1. ASSUME NEW a \in User, NEW o \in Op, NEW x \in User,
             Authenticate(r, a, o, x)
      PROVE  /\ req'[r].actor \in Operator
             /\ Spares(req[r], req'[r].actor)
             /\ Spares(req'[r], req'[r].actor)
             /\ ActiveSuperadmin(req'[r].actor)
             /\ req'[r].pc = "count" => req'[r].target # req'[r].actor
  BY <1>1, <1>a DEF Authenticate, Idle, ManageOp, RemovalOp, Spares, Removes,
                    ActiveSuperadmin
<1>2. CASE FindForAssign(r)
  BY <1>2, <1>a, <1>b
     DEF FindForAssign, AssertRemovable, ActorSpared, Spares, Removes,
         ManageOp, RemovalOp, RequestState, ActiveSuperadmin
<1>3. CASE FindForDelete(r)
  BY <1>3, <1>a, <1>b
     DEF FindForDelete, AssertRemovable, ActorSpared, Spares, Removes,
         ManageOp, RemovalOp, RequestState, ActiveSuperadmin
<1>4. CASE CountOthers(r)
  BY <1>4, <1>a, <1>b DEF CountOthers, Continue, ActorSpared, Spares, Removes,
                          RequestState
<1>5. CASE FindForActiveOrReset(r)
  BY <1>5, <1>a, <1>b
     DEF FindForActiveOrReset, Continue, ActorSpared, Spares, Removes,
         RequestState, ActiveSuperadmin, ManageOp, RemovalOp
<1>6. CASE ComparePassword(r)
  BY <1>6, <1>a, <1>b DEF ComparePassword, Continue, RequestState, ManageOp, RemovalOp
<1> QED
  BY <1>b, <1>1, <1>2, <1>3, <1>4, <1>5, <1>6
     DEF Step, NotFound, AssignUserRole, DeleteUser, SetUserActive,
         ResetUserPassword, ChangeUserPassword, CreateUser

LEMMA SoleStep ==
    ASSUME OneOperator, SoleInv, NEW r \in Request, Step(r)
    PROVE  SoleInv'
<1>a. TypeInv /\ TypeInv'
  BY StepTypeInv DEF SoleInv
<1>b. req[r] \in RequestState /\ InFlight(req[r]) /\ ActorSpared(req[r])
  BY <1>a DEF SoleInv, TypeInv, TypeOK, InFlightOK
<1>c. ASSUME NEW u \in Operator, ActiveSuperadmin(u)
      PROVE  ActiveSuperadmin(u)'
  <2>1. u \in User
    BY ConstantsAssumption
  <2>2. Spares(req[r], u)
    BY <1>b DEF ActorSpared, OneOperator, Spares, Removes, ManageOp
  <2> QED
    BY <1>a, <1>c, <2>1, <2>2, StepSpares
<1>1. SuperadminRemains'
  <2>1. CASE Removes(req[r])
    <3>1. req[r].actor \in User /\ ActiveSuperadmin(req[r].actor)
          /\ Spares(req[r], req[r].actor)
      BY <1>b, <2>1 DEF ActorSpared, Removes, ManageOp, InFlight
    <3> QED
      BY <1>a, <3>1, StepSpares DEF SuperadminRemains
  <2>2. CASE ~Removes(req[r])
    BY <1>a, <2>2, StepSpares DEF SoleInv, SuperadminRemains, Spares
  <2> QED
    BY <2>1, <2>2
<1>2. ASSUME NEW q \in Request PROVE ActorSpared(req[q])'
  <2>1. CASE q = r
    <3> SUFFICES ASSUME req'[r].pc # "idle", req'[r].op \in ManageOp
                 PROVE  /\ req'[r].actor \in Operator
                        /\ ActiveSuperadmin(req[r].actor)'
                        /\ Spares(req[r], req[r].actor)'
                        /\ req'[r].pc = "count" => req'[r].target # req'[r].actor
      BY <2>1 DEF ActorSpared
    <3>1. req'[r].actor \in Operator /\ ActiveSuperadmin(req'[r].actor)
      BY SoleStepActor
    <3>2. ActiveSuperadmin(req[r].actor)'
      <4> DEFINE u == req'[r].actor
      <4>1. account'[u].status = "live" /\ account'[u].active
            /\ account'[u].config.role = "SUPERADMIN"
        BY <3>1, <1>c DEF ActiveSuperadmin, Live, RoleOf
      <4> QED
        BY <4>1 DEF ActiveSuperadmin, Live, RoleOf
    <3> QED
      BY <3>1, <3>2, SoleStepActor DEF Spares, Removes
  <2>2. CASE q # r
    <3>1. req'[q] = req[q]
      BY <1>a, <2>2, OthersUnchanged
    <3>2. ActorSpared(req[q])
      BY DEF SoleInv
    <3>3. req[q].pc # "idle" /\ req[q].op \in ManageOp
            => LET u == req[q].actor IN
               /\ account'[u].status = "live" /\ account'[u].active
               /\ account'[u].config.role = "SUPERADMIN"
      BY <3>2, <1>c DEF ActorSpared, ActiveSuperadmin, Live, RoleOf
    <3> QED
      BY <3>1, <3>2, <3>3
         DEF ActorSpared, ActiveSuperadmin, Live, RoleOf, Spares, Removes
  <2> QED
    BY <2>1, <2>2
<1> QED
  BY <1>a, <1>1, <1>2 DEF SoleInv

\* However many requests one operator has open, it never locks the system out:
\* the only row that must survive is its own, and the code refuses that one.
THEOREM SoleOperatorSuperadminRemains ==
    ASSUME OneOperator
    PROVE  Spec => []SuperadminRemains
<1>1. Init => SoleInv
  BY InitTypeInv DEF SoleInv, Init, SuperadminRemains, ActorSpared, Idle
<1>2. SoleInv /\ [Next]_vars => SoleInv'
  <2> SUFFICES ASSUME SoleInv, [Next]_vars PROVE SoleInv'
    OBVIOUS
  <2>1. CASE Next
    BY <2>1, SoleStep DEF Next
  <2>2. CASE UNCHANGED vars
    BY <2>2 DEF vars, SoleInv, TypeInv, TypeOK, InFlightOK, InFlight,
                SuperadminRemains, ActiveSuperadmin, Live, RoleOf, Removes,
                ActorSpared, Spares
  <2> QED
    BY <2>1, <2>2
<1>3. SoleInv => SuperadminRemains
  BY DEF SoleInv
<1> QED
  BY <1>1, <1>2, <1>3, PTL DEF Spec

-----------------------------------------------------------------------------
\* Every row, created yet or not, holds a configuration of the matrix: what a
\* request writes it validated itself, so no interleaving mixes two of them.
AllRowsValid == \A u \in User : ValidConfig(account[u].config)

LEMMA StepMatrix ==
    ASSUME TypeInv, AllRowsValid, NEW r \in Request, Step(r)
    PROVE  AllRowsValid'
<1>a. account \in [User -> Account] /\ InFlight(req[r])
  BY DEF TypeInv, TypeOK, InFlightOK
<1>1. CASE UNCHANGED account
  BY <1>1 DEF AllRowsValid
<1>2. CASE AssignUserRole(r)
  <2> DEFINE t == req[r].target
  <2>1. CASE account' = [account EXCEPT ![t].config = req[r].wanted]
             /\ ValidConfig(req[r].wanted)
    <3> SUFFICES ASSUME NEW u \in User PROVE ValidConfig(account'[u].config)
      BY DEF AllRowsValid
    <3>1. CASE u = t
      <4>1. account'[u].config = req[r].wanted
        BY <1>a, <2>1, <3>1 DEF Account
      <4> QED
        BY <2>1, <4>1
    <3>2. CASE u # t
      <4>1. account'[u].config = account[u].config
        BY <1>a, <2>1, <3>2
      <4> QED
        BY <4>1 DEF AllRowsValid
    <3> QED
      BY <3>1, <3>2
  <2> QED
    BY <1>1, <1>2, <2>1 DEF AssignUserRole
<1>3. ASSUME \A u \in User : account'[u].config = account[u].config
      PROVE  AllRowsValid'
  BY <1>3 DEF AllRowsValid
<1>4. CASE \/ DeleteUser(r) \/ SetUserActive(r)
           \/ ResetUserPassword(r) \/ ChangeUserPassword(r)
  <2>1. CASE DeleteUser(r)
    BY <1>3, <1>a, <2>1 DEF DeleteUser, Account
  <2>2. CASE SetUserActive(r)
    BY <1>3, <1>a, <2>2 DEF SetUserActive, Account
  <2>3. CASE ResetUserPassword(r)
    BY <1>3, <1>a, <2>3 DEF ResetUserPassword, Account
  <2>4. CASE ChangeUserPassword(r)
    BY <1>3, <1>a, <2>4 DEF ChangeUserPassword, Account
  <2> QED
    BY <1>4, <2>1, <2>2, <2>3, <2>4
<1>5. CASE CreateUser(r)
  BY <1>1, <1>5, <1>a DEF CreateUser, AllRowsValid
<1> QED
  BY <1>1, <1>2, <1>4, <1>5
     DEF Step, Authenticate, NotFound, FindForAssign, FindForDelete,
         CountOthers, FindForActiveOrReset, ComparePassword

\* The authorization of benefits and fields can rely on the matrix, under any
\* interleaving of role changes.
THEOREM MatrixAlwaysHolds == Spec => []RoleMatrix
<1>1. Init => TypeInv /\ AllRowsValid
  <2>1. ValidConfig(PlainUser)
    BY DEF ValidConfig, PlainUser
  <2> QED
    BY <2>1, InitTypeInv DEF Init, InitialAccount, AllRowsValid
<1>2. TypeInv /\ AllRowsValid /\ [Next]_vars => (TypeInv /\ AllRowsValid)'
  <2> SUFFICES ASSUME TypeInv, AllRowsValid, [Next]_vars
               PROVE  (TypeInv /\ AllRowsValid)'
    OBVIOUS
  <2>1. CASE Next
    BY <2>1, StepTypeInv, StepMatrix DEF Next
  <2>2. CASE UNCHANGED vars
    BY <2>2 DEF vars, TypeInv, TypeOK, InFlightOK, InFlight, AllRowsValid
  <2> QED
    BY <2>1, <2>2
<1>3. AllRowsValid => RoleMatrix
  BY DEF AllRowsValid, RoleMatrix
<1> QED
  BY <1>1, <1>2, <1>3, PTL DEF Spec

=============================================================================

--------------------------- MODULE AccountsProofs ---------------------------
(* What holds of the accounts and their sessions for every number of users,  *)
(* sessions, reset tokens and requests in flight.                            *)
EXTENDS Accounts, TLAPS

(***************************************************************************)
(* The inductive invariant.                                                *)
(***************************************************************************)

\* Only rows are marked active.
ActiveOwned == \A s \in active : owner[s] # NONE

\* What a handler's position says about the rest of its slot.
PcInv ==
  \A r \in Request :
    /\ req[r].pc \in {"idle", "open", "check", "rotate", "lookup", "write"} => req[r].owed = {}
    /\ req[r].pc = "open" => req[r].user # NONE
    /\ req[r].pc = "lookup" => req[r].op = "reset"
    /\ req[r].pc = "write" => req[r].op \in {"reset", "change"}
    /\ req[r].pc \in {"lookup", "write"} /\ req[r].op = "reset"
         => req[r].token # NONE /\ req[r].user # NONE
    /\ req[r].pc = "write" /\ req[r].op = "reset" => req[r].todo = {req[r].user}
    /\ req[r].pc = "off" => req[r].op \in {"deactivate", "bulkDeactivate"}
    /\ req[r].pc = "delete" => req[r].op \in {"deleteUser", "bulkDelete"}

\* A reset token leads to one user, also when a handler presents it.
TokenInv ==
  /\ \A u, v \in User : reset[u] = reset[v] => u = v \/ reset[u] = NONE
  /\ \A r \in Request, v \in User :
       req[r].token # NONE /\ reset[v] = req[r].token => v = req[r].user

\* While deactivateUser is between its steps, the sessions that are open were
\* opened in that gap.
GapLate ==
  \A r \in Request, s \in active : Gap(r, owner[s]) => s \in late

IInv ==
  /\ TypeOK
  /\ SessionsHaveAccounts
  /\ ActiveOwned
  /\ PcInv
  /\ TokenInv
  /\ GapLate
  /\ SurvivorsExplained

(***************************************************************************)
(* Typing.                                                                 *)
(***************************************************************************)

\* The empty slot is a well-formed request.
LEMMA IdleType == Idle \in Req
  BY ConstantsOK DEF Idle, Req, Pc, AllOps

\* A slot that takes a well-formed request leaves the state well formed.
LEMMA BeginType ==
  ASSUME TypeOK, NEW r \in Request, NEW op \in AllOps, NEW rec \in Req, Begin(r, op, rec)
  PROVE  TypeOK'
<1>1. [rec EXCEPT !.op = op] \in Req
  BY DEF Req
<1> QED BY <1>1 DEF TypeOK, Begin, accounts, sessions

\* What an account that was tried changes in the slot of its handler.
LEMMA DoneSlot ==
  ASSUME TypeOK, NEW r \in Request, req[r].pc \in {"off", "delete"},
         NEW u \in req[r].todo, Done(r, u)
  PROVE  /\ req' \in [Request -> Req]
         /\ \A q \in Request : q # r => req'[q] = req[q]
         /\ \/ req'[r] = Idle
            \/ /\ req[r].op \in {"bulkDeactivate", "bulkDelete"}
               /\ req'[r].op = req[r].op /\ req'[r].user = req[r].user
               /\ req'[r].token = req[r].token
               /\ req'[r].pc \in {"sweep", req[r].pc}
<1>1. req[r] \in Req /\ u \in User
  BY DEF TypeOK, Req
<1>2. CASE req[r].op \in {"bulkDeactivate", "bulkDelete"}
  <2> DEFINE pc == IF req[r].todo = {u} THEN "sweep" ELSE req[r].pc
             q == [req[r] EXCEPT !.todo = @ \ {u}, !.owed = @ \cup {u}, !.pc = pc]
  <2>1. pc \in Pc /\ pc \in {"sweep", req[r].pc}
    BY <1>1 DEF Req, Pc
  <2>2. req' = [req EXCEPT ![r] = q]
    BY <1>2 DEF Done, TypeOK
  <2> HIDE DEF pc
  <2>3. /\ q \in Req /\ q.op = req[r].op /\ q.user = req[r].user
        /\ q.token = req[r].token /\ q.pc = pc
    BY <1>1, <2>1 DEF Req
  <2> HIDE DEF q
  <2> QED BY <1>2, <2>1, <2>2, <2>3 DEF TypeOK
<1>3. CASE req[r].op \notin {"bulkDeactivate", "bulkDelete"}
  BY <1>3, IdleType DEF Done, Return, TypeOK
<1> QED BY <1>2, <1>3

\* Every handler keeps the accounts' state well formed.
LEMMA TypeStep == TypeOK /\ [Next]_vars => TypeOK'
<1> SUFFICES ASSUME TypeOK, [Next]_vars PROVE TypeOK'
  OBVIOUS
<1> USE IdleType, ConstantsOK DEF TypeOK
<1>1. CASE UNCHANGED vars
  BY <1>1 DEF vars, accounts, sessions
<1>2. ASSUME NEW r \in Request, Arrive(r) PROVE TypeOK'
  <2>1. CASE BeginLogin(r)
    <3>1. PICK u \in User : Begin(r, "login", [Idle EXCEPT !.pc = "open", !.user = u, !.ver = pw[u]])
      BY <2>1 DEF BeginLogin
    <3>2. [Idle EXCEPT !.pc = "open", !.user = u, !.ver = pw[u]] \in Req
      BY <3>1, ConstantsOK DEF Idle, Req, Pc, AllOps, TypeOK
    <3> QED BY <3>1, <3>2, BeginType DEF AllOps
  <2>2. CASE BeginRefresh(r)
    <3>1. PICK s \in active :
            Begin(r, "refresh", [Idle EXCEPT !.pc = "check", !.user = owner[s], !.sess = s])
      BY <2>2 DEF BeginRefresh
    <3>2. [Idle EXCEPT !.pc = "check", !.user = owner[s], !.sess = s] \in Req
      BY <3>1, ConstantsOK DEF Idle, Req, Pc, AllOps, TypeOK
    <3> QED BY <3>1, <3>2, BeginType DEF AllOps
  <2>3. CASE BeginReset(r)
    <3>1. PICK u \in User :
            Begin(r, "reset", [Idle EXCEPT !.pc = "lookup", !.user = u, !.token = reset[u]])
      BY <2>3 DEF BeginReset
    <3>2. [Idle EXCEPT !.pc = "lookup", !.user = u, !.token = reset[u]] \in Req
      BY <3>1, ConstantsOK DEF Idle, Req, Pc, AllOps, TypeOK
    <3> QED BY <3>1, <3>2, BeginType DEF AllOps
  <2>4. CASE BeginChange(r)
    <3>1. PICK u \in User, s \in Session \cup {NONE} :
            Begin(r, "change", [Idle EXCEPT !.pc = "write", !.todo = {u}, !.sess = s])
      BY <2>4 DEF BeginChange, SessionsOf
    <3>2. [Idle EXCEPT !.pc = "write", !.todo = {u}, !.sess = s] \in Req
      <4>1. {u} \in SUBSET User /\ s \in Session \cup {NONE} /\ "write" \in Pc
        BY DEF Pc
      <4> QED BY <4>1, IdleType DEF Req
    <3> QED BY <3>1, <3>2, BeginType DEF AllOps
  <2>5. CASE BeginOnUser(r)
    <3>1. PICK u \in User, op \in {"deactivate", "deleteUser"} :
            Begin(r, op, [Idle EXCEPT !.pc = "sweep", !.todo = {u}, !.owed = {u}])
      <4>1. \E u \in User, op \in {"deactivate", "deleteUser"} :
               Begin(r, op, [Idle EXCEPT !.pc = "sweep", !.todo = {u}, !.owed = {u}])
        <5> HIDE DEF TypeOK
        <5> QED BY ONLY <2>5 DEF BeginOnUser
      <4> QED BY ONLY <4>1
    <3>2. [Idle EXCEPT !.pc = "sweep", !.todo = {u}, !.owed = {u}] \in Req
      <4>1. {u} \in SUBSET User /\ "sweep" \in Pc
        BY DEF Pc
      <4> QED BY <4>1, IdleType DEF Req
    <3> QED BY <3>1, <3>2, BeginType DEF AllOps
  <2>6. CASE BeginBulk(r)
    <3>1. PICK us \in SUBSET User :
            \/ Begin(r, "bulkDeactivate", [Idle EXCEPT !.pc = "off", !.todo = us])
            \/ Begin(r, "bulkDelete", [Idle EXCEPT !.pc = "delete", !.todo = us])
      BY <2>6 DEF BeginBulk
    <3>2. /\ [Idle EXCEPT !.pc = "off", !.todo = us] \in Req
          /\ [Idle EXCEPT !.pc = "delete", !.todo = us] \in Req
      BY ConstantsOK DEF Idle, Req, Pc, AllOps
    <3> QED BY <3>1, <3>2, BeginType DEF AllOps
  <2> QED BY <1>2, <2>1, <2>2, <2>3, <2>4, <2>5, <2>6 DEF Arrive
<1>3. ASSUME NEW r \in Request, Step(r) PROVE TypeOK'
  <2>1. CASE Open(r)
    BY <2>1 DEF Open, Return, Exists, FreshSession, Idle, accounts, sessions, Req
  <2>2. CASE OpenFails(r)
    BY <2>2 DEF OpenFails, Return, Idle, accounts, sessions
  <2>3. CASE Check(r)
    <3>1. [req[r] EXCEPT !.pc = "rotate"] \in Req
      BY DEF Req, Pc
    <3> QED BY <2>3, <3>1 DEF Check, Goto, Return, accounts, sessions
  <2>4. CASE Rotate(r)
    BY <2>4 DEF Rotate, Return, Idle, accounts, sessions
  <2>5. CASE Lookup(r)
    BY <2>5 DEF Lookup, Return, Idle, accounts, sessions, Req, Pc, AllOps
  <2>6. CASE Write(r)
    BY <2>6 DEF Write, Exists, accounts, sessions, Req, Pc, AllOps
  <2>7. CASE WriteFails(r)
    BY <2>7 DEF WriteFails, Return, Idle, accounts, sessions
  <2>8. CASE Sweep(r)
    BY <2>8 DEF Sweep, EndSessions, SessionsOf, Return, Idle, accounts, sessions, Req, Pc,
         AllOps
  <2>9. CASE SweepFails(r)
    BY <2>9 DEF SweepFails, Return, Idle, accounts, sessions, Owing, Req
  <2>10. CASE Off(r)
    <3>1. PICK u \in req[r].todo : acct' = [acct EXCEPT ![u] = "inactive"] /\ Done(r, u)
      BY <2>10 DEF Off
    <3>2. req' \in [Request -> Req]
      BY <2>10, <3>1, DoneSlot DEF Off
    <3> QED BY <2>10, <3>1, <3>2 DEF Off, sessions
  <2>11. CASE Delete(r)
    <3>1. PICK u \in req[r].todo : Done(r, u)
      BY <2>11 DEF Delete
    <3>2. req' \in [Request -> Req]
      BY <2>11, <3>1, DoneSlot DEF Delete
    <3>3. /\ acct' \in [User -> {"absent", "active", "inactive"}]
          /\ reset' \in [User -> ResetToken \cup {NONE}]
      BY <2>11 DEF Delete
    <3>6. pw' \in [User -> 0..MaxPw]
      <4>1. 0 \in 0..MaxPw
        OBVIOUS
      <4>2. PICK w \in req[r].todo : pw' = [pw EXCEPT ![w] = 0]
        BY <2>11 DEF Delete
      <4> QED BY <4>1, <4>2
    <3>4. /\ owner' \in [Session -> User \cup {NONE}]
          /\ active' \subseteq Session
          /\ late' \subseteq Session
          /\ unswept' \subseteq User
      BY <2>11 DEF Delete
    <3>5. ver' \in [Session -> 0..MaxPw]
      BY <2>11 DEF Delete
    <3> QED BY <3>2, <3>3, <3>4, <3>5, <3>6
  <2>12. CASE UserWriteFails(r)
    BY <2>12, DoneSlot DEF UserWriteFails, accounts, sessions
  <2> QED BY <1>3, <2>1, <2>2, <2>3, <2>4, <2>5, <2>6, <2>7, <2>8, <2>9, <2>10, <2>11,
         <2>12 DEF Step
<1>4. ASSUME NEW u \in User, CreateUser(u) PROVE TypeOK'
  BY <1>4 DEF CreateUser, FreshUser, accounts, sessions
<1>5. ASSUME NEW u \in User, Activate(u) PROVE TypeOK'
  BY <1>5 DEF Activate, accounts, sessions
<1>6. ASSUME NEW u \in User, UpdateInactive(u) PROVE TypeOK'
  BY <1>6 DEF UpdateInactive, accounts, sessions
<1>7. ASSUME NEW u \in User, AdminReset(u) PROVE TypeOK'
  BY <1>7 DEF AdminReset, Exists, accounts, sessions
<1>8. ASSUME NEW u \in User, Forgot(u) PROVE TypeOK'
  BY <1>8 DEF Forgot, Exists, FreshToken, accounts, sessions
<1>9. ASSUME NEW u \in User, ResetExpires(u) PROVE TypeOK'
  BY <1>9 DEF ResetExpires, accounts, sessions
<1>10. ASSUME NEW u \in User, Logout(u) PROVE TypeOK'
  BY <1>10 DEF Logout, EndSessions, SessionsOf, accounts, sessions
<1>11. ASSUME NEW s \in active, Revoke(s) PROVE TypeOK'
  BY <1>11 DEF Revoke, accounts, sessions
<1>12. CASE Crash
  BY <1>12 DEF Crash, Idle, accounts, sessions, Owing, Req
<1> QED BY <1>1, <1>2, <1>3, <1>4, <1>5, <1>6, <1>7, <1>8, <1>9, <1>10, <1>11, <1>12 DEF Next

\* The accounts' state is well formed in every reachable state.
THEOREM TypeCorrect == Spec => []TypeOK
<1>1. Init => TypeOK
  BY IdleType, ConstantsOK DEF Init, TypeOK
<1> QED BY <1>1, TypeStep, PTL DEF Spec

(***************************************************************************)
(* The parts of the invariant, one at a time.                              *)
(***************************************************************************)

\* Sessions keep their account, and only rows are active.
LEMMA OwnersStep == TypeOK /\ SessionsHaveAccounts /\ ActiveOwned /\ PcInv /\ [Next]_vars
        => (SessionsHaveAccounts /\ ActiveOwned)'
<1> SUFFICES ASSUME TypeOK, SessionsHaveAccounts, ActiveOwned, PcInv, [Next]_vars
             PROVE (SessionsHaveAccounts /\ ActiveOwned)'
  OBVIOUS
<1> USE DEF SessionsHaveAccounts, ActiveOwned, Exists
<1>1. CASE UNCHANGED vars
  BY <1>1 DEF vars, accounts, sessions
<1>2. ASSUME NEW r \in Request, Arrive(r) PROVE (SessionsHaveAccounts /\ ActiveOwned)'
  <2>1. CASE BeginLogin(r)
    BY <2>1 DEF BeginLogin, Begin, Idle, accounts, sessions, TypeOK
  <2>2. CASE BeginRefresh(r)
    BY <2>2 DEF BeginRefresh, Begin, Idle, accounts, sessions, TypeOK
  <2>3. CASE BeginReset(r)
    BY <2>3 DEF BeginReset, Begin, Idle, accounts, sessions, TypeOK
  <2>4. CASE BeginChange(r)
    BY <2>4 DEF BeginChange, SessionsOf, Begin, Idle, accounts, sessions, TypeOK
  <2>5. CASE BeginOnUser(r)
    BY <2>5 DEF BeginOnUser, Begin, Idle, accounts, sessions, TypeOK
  <2>6. CASE BeginBulk(r)
    BY <2>6 DEF BeginBulk, Begin, Idle, accounts, sessions, TypeOK
  <2> QED BY <1>2, <2>1, <2>2, <2>3, <2>4, <2>5, <2>6 DEF Arrive
<1>3. ASSUME NEW r \in Request, Step(r) PROVE (SessionsHaveAccounts /\ ActiveOwned)'
  <2>1. CASE Open(r)
    BY <2>1 DEF Open, Return, FreshSession, Idle, accounts, sessions, TypeOK, PcInv, Req
  <2>2. CASE OpenFails(r)
    BY <2>2 DEF OpenFails, Return, Idle, accounts, sessions, TypeOK
  <2>3. CASE Check(r)
    BY <2>3 DEF Check, Goto, Return, Idle, accounts, sessions, TypeOK
  <2>4. CASE Rotate(r)
    BY <2>4 DEF Rotate, Return, Idle, accounts, sessions, TypeOK
  <2>5. CASE Lookup(r)
    BY <2>5 DEF Lookup, Return, Idle, accounts, sessions, TypeOK
  <2>6. CASE Write(r)
    BY <2>6 DEF Write, accounts, sessions, TypeOK
  <2>7. CASE WriteFails(r)
    BY <2>7 DEF WriteFails, Return, Idle, accounts, sessions, TypeOK
  <2>8. CASE Sweep(r)
    BY <2>8 DEF Sweep, EndSessions, SessionsOf, Return, Idle, accounts, sessions, TypeOK
  <2>9. CASE SweepFails(r)
    BY <2>9 DEF SweepFails, Return, Idle, accounts, sessions, TypeOK
  <2>10. CASE Off(r)
    BY <2>10 DEF Off, Done, Return, Idle, accounts, sessions, TypeOK
  <2>11. CASE Delete(r)
    BY <2>11 DEF Delete, Done, Return, SessionsOf, Idle, accounts, sessions, TypeOK
  <2>12. CASE UserWriteFails(r)
    BY <2>12 DEF UserWriteFails, Done, Return, Idle, accounts, sessions, TypeOK
  <2> QED BY <1>3, <2>1, <2>2, <2>3, <2>4, <2>5, <2>6, <2>7, <2>8, <2>9, <2>10, <2>11,
         <2>12 DEF Step
<1>4. ASSUME NEW u \in User, CreateUser(u) PROVE (SessionsHaveAccounts /\ ActiveOwned)'
  BY <1>4 DEF CreateUser, FreshUser, accounts, sessions, TypeOK
<1>5. ASSUME NEW u \in User, Activate(u) PROVE (SessionsHaveAccounts /\ ActiveOwned)'
  BY <1>5 DEF Activate, accounts, sessions, TypeOK
<1>6. ASSUME NEW u \in User, UpdateInactive(u) PROVE (SessionsHaveAccounts /\ ActiveOwned)'
  BY <1>6 DEF UpdateInactive, accounts, sessions, TypeOK
<1>7. ASSUME NEW u \in User, AdminReset(u) PROVE (SessionsHaveAccounts /\ ActiveOwned)'
  BY <1>7 DEF AdminReset, accounts, sessions, TypeOK
<1>8. ASSUME NEW u \in User, Forgot(u) PROVE (SessionsHaveAccounts /\ ActiveOwned)'
  BY <1>8 DEF Forgot, FreshToken, accounts, sessions, TypeOK
<1>9. ASSUME NEW u \in User, ResetExpires(u) PROVE (SessionsHaveAccounts /\ ActiveOwned)'
  BY <1>9 DEF ResetExpires, accounts, sessions, TypeOK
<1>10. ASSUME NEW u \in User, Logout(u) PROVE (SessionsHaveAccounts /\ ActiveOwned)'
  BY <1>10 DEF Logout, EndSessions, SessionsOf, accounts, sessions, TypeOK
<1>11. ASSUME NEW s \in active, Revoke(s) PROVE (SessionsHaveAccounts /\ ActiveOwned)'
  BY <1>11 DEF Revoke, accounts, sessions, TypeOK
<1>12. CASE Crash
  BY <1>12 DEF Crash, Idle, accounts, sessions, TypeOK
<1> QED BY <1>1, <1>2, <1>3, <1>4, <1>5, <1>6, <1>7, <1>8, <1>9, <1>10, <1>11, <1>12 DEF Next

\* Handlers reach their positions by the steps of their operation.
LEMMA PcStep == TypeOK /\ PcInv /\ TokenInv /\ [Next]_vars => PcInv'
<1> SUFFICES ASSUME TypeOK, PcInv, TokenInv, [Next]_vars PROVE PcInv'
  OBVIOUS
<1> USE DEF PcInv, TypeOK
<1>1. CASE UNCHANGED vars
  BY <1>1 DEF vars, accounts, sessions
<1>2. ASSUME NEW r \in Request, Arrive(r) PROVE PcInv'
  <2>1. CASE BeginLogin(r)
    BY <2>1, ConstantsOK DEF BeginLogin, Begin, Idle, accounts, sessions
  <2>2. CASE BeginRefresh(r)
    BY <2>2 DEF BeginRefresh, Begin, Idle, accounts, sessions, Req, Pc, AllOps
  <2>3. CASE BeginReset(r)
    BY <2>3, ConstantsOK DEF BeginReset, Begin, Idle, accounts, sessions, Req
  <2>4. CASE BeginChange(r)
    BY <2>4 DEF BeginChange, SessionsOf, Begin, Idle, accounts, sessions, Req, Pc, AllOps
  <2>5. CASE BeginOnUser(r)
    BY <2>5 DEF BeginOnUser, Exists, Begin, Idle, accounts, sessions, Req, Pc, AllOps
  <2>6. CASE BeginBulk(r)
    <3>1. PICK us \in SUBSET User :
            \/ Begin(r, "bulkDeactivate", [Idle EXCEPT !.pc = "off", !.todo = us])
            \/ Begin(r, "bulkDelete", [Idle EXCEPT !.pc = "delete", !.todo = us])
      BY <2>6 DEF BeginBulk
    <3>2. CASE Begin(r, "bulkDeactivate", [Idle EXCEPT !.pc = "off", !.todo = us])
      BY <3>2, ConstantsOK DEF Begin, Idle, accounts, sessions, Req
    <3>3. CASE Begin(r, "bulkDelete", [Idle EXCEPT !.pc = "delete", !.todo = us])
      BY <3>3, ConstantsOK DEF Begin, Idle, accounts, sessions, Req
    <3> QED BY <3>1, <3>2, <3>3
  <2> QED BY <1>2, <2>1, <2>2, <2>3, <2>4, <2>5, <2>6 DEF Arrive
<1>3. ASSUME NEW r \in Request, Step(r) PROVE PcInv'
  <2>1. CASE Open(r)
    BY <2>1 DEF Open, Return, Exists, FreshSession, Idle, accounts, sessions, Req, Pc, AllOps
  <2>2. CASE OpenFails(r)
    BY <2>2 DEF OpenFails, Return, Idle, accounts, sessions, Req, Pc, AllOps
  <2>3. CASE Check(r)
    BY <2>3 DEF Check, Goto, Return, Idle, accounts, sessions, Req, Pc, AllOps
  <2>4. CASE Rotate(r)
    BY <2>4 DEF Rotate, Return, Idle, accounts, sessions, Req, Pc, AllOps
  <2>5. CASE Lookup(r)
    <3>1. CASE req' = [req EXCEPT ![r] = Idle]
      BY <2>5, <3>1 DEF Lookup, accounts, sessions, Idle, Req
    <3>2. ASSUME NEW u \in User, reset[u] = req[r].token,
                 req' = [req EXCEPT ![r].pc = "write", ![r].todo = {u}]
          PROVE  PcInv'
      <4>1. req'[r] = [req[r] EXCEPT !.pc = "write", !.todo = {u}]
        BY <3>2
      <4>2. u = req[r].user
        BY <2>5, <3>2 DEF Lookup, PcInv, TokenInv
      <4>3. /\ req'[r].op = req[r].op /\ req'[r].user = req[r].user
            /\ req'[r].token = req[r].token /\ req'[r].owed = req[r].owed
            /\ req'[r].pc = "write" /\ req'[r].todo = {u}
        BY <4>1 DEF Req
      <4>4. \A q \in Request : q # r => req'[q] = req[q]
        BY <3>2
      <4>5. UNCHANGED <<accounts, sessions, unswept>> /\ req[r].pc = "lookup"
        BY <2>5 DEF Lookup
      <4> HIDE DEF TypeOK
      <4> QED BY <4>2, <4>3, <4>4, <4>5 DEF accounts
    <3> QED BY <2>5, <3>1, <3>2 DEF Lookup, Return
  <2>6. CASE Write(r)
    BY <2>6 DEF Write, Exists, accounts, sessions, Req, Pc, AllOps
  <2>7. CASE WriteFails(r)
    BY <2>7 DEF WriteFails, Return, Idle, accounts, sessions, Req, Pc, AllOps
  <2>8. CASE Sweep(r)
    <3>1. PICK u \in req[r].owed :
            IF req[r].owed # {u} THEN req' = [req EXCEPT ![r].owed = @ \ {u}]
            ELSE CASE req[r].op = "deactivate" -> req' = [req EXCEPT ![r].owed = {}, ![r].pc = "off"]
                   [] req[r].op = "deleteUser" -> req' = [req EXCEPT ![r].owed = {}, ![r].pc = "delete"]
                   [] OTHER -> Return(r)
      BY <2>8 DEF Sweep
    <3>2. \A q \in Request : q # r => req'[q] = req[q]
      BY <3>1 DEF Return
    <3>3. CASE req' = [req EXCEPT ![r].owed = @ \ {u}]
      BY <2>8, <3>2, <3>3 DEF Sweep, Req
    <3>4. CASE req[r].op = "deactivate" /\ req' = [req EXCEPT ![r].owed = {}, ![r].pc = "off"]
      BY <2>8, <3>2, <3>4 DEF Sweep, Req
    <3>5. CASE req[r].op = "deleteUser" /\ req' = [req EXCEPT ![r].owed = {}, ![r].pc = "delete"]
      BY <2>8, <3>2, <3>5 DEF Sweep, Req
    <3>6. CASE Return(r)
      BY <2>8, <3>2, <3>6 DEF Sweep, Req, Return, Idle
    <3> QED BY <3>1, <3>3, <3>4, <3>5, <3>6
  <2>9. CASE SweepFails(r)
    BY <2>9 DEF SweepFails, Return, Idle, accounts, sessions, Req, Pc, AllOps
  <2>10. CASE Off(r)
    <3>1. PICK u \in req[r].todo : Done(r, u)
      BY <2>10 DEF Off
    <3> QED BY <2>10, <3>1, DoneSlot DEF Off, Idle
  <2>11. CASE Delete(r)
    <3>1. PICK u \in req[r].todo : Done(r, u)
      BY <2>11 DEF Delete
    <3> QED BY <2>11, <3>1, DoneSlot DEF Delete, Idle
  <2>12. CASE UserWriteFails(r)
    <3>1. PICK u \in req[r].todo : Done(r, u)
      BY <2>12 DEF UserWriteFails
    <3> QED BY <2>12, <3>1, DoneSlot DEF UserWriteFails, Idle
  <2> QED BY <1>3, <2>1, <2>2, <2>3, <2>4, <2>5, <2>6, <2>7, <2>8, <2>9, <2>10, <2>11,
         <2>12 DEF Step
<1>4. ASSUME NEW u \in User, CreateUser(u) PROVE PcInv'
  BY <1>4 DEF CreateUser, FreshUser, accounts, sessions, Req, Pc, AllOps
<1>5. ASSUME NEW u \in User, Activate(u) PROVE PcInv'
  BY <1>5 DEF Activate, accounts, sessions, Req, Pc, AllOps
<1>6. ASSUME NEW u \in User, UpdateInactive(u) PROVE PcInv'
  BY <1>6 DEF UpdateInactive, accounts, sessions, Req, Pc, AllOps
<1>7. ASSUME NEW u \in User, AdminReset(u) PROVE PcInv'
  BY <1>7 DEF AdminReset, Exists, accounts, sessions, Req, Pc, AllOps
<1>8. ASSUME NEW u \in User, Forgot(u) PROVE PcInv'
  BY <1>8 DEF Forgot, Exists, FreshToken, accounts, sessions, Req, Pc, AllOps
<1>9. ASSUME NEW u \in User, ResetExpires(u) PROVE PcInv'
  BY <1>9 DEF ResetExpires, accounts, sessions, Req, Pc, AllOps
<1>10. ASSUME NEW u \in User, Logout(u) PROVE PcInv'
  BY <1>10 DEF Logout, EndSessions, SessionsOf, accounts, sessions, Req, Pc, AllOps
<1>11. ASSUME NEW s \in active, Revoke(s) PROVE PcInv'
  BY <1>11 DEF Revoke, accounts, sessions, Req, Pc, AllOps
<1>12. CASE Crash
  BY <1>12 DEF Crash, Idle, accounts, sessions, Req, Pc, AllOps
<1> QED BY <1>1, <1>2, <1>3, <1>4, <1>5, <1>6, <1>7, <1>8, <1>9, <1>10, <1>11, <1>12 DEF Next

\* Reset tokens stay with their user.
LEMMA TokenStep == TypeOK /\ PcInv /\ TokenInv /\ [Next]_vars => TokenInv'
<1> SUFFICES ASSUME TypeOK, PcInv, TokenInv, [Next]_vars PROVE TokenInv'
  OBVIOUS
<1> USE DEF TokenInv, TypeOK
<1>1. CASE UNCHANGED vars
  BY <1>1 DEF vars, accounts, sessions
<1>2. ASSUME NEW r \in Request, Arrive(r) PROVE TokenInv'
  <2>1. CASE BeginLogin(r)
    BY <2>1 DEF BeginLogin, Begin, Idle, accounts, sessions, Req
  <2>2. CASE BeginRefresh(r)
    BY <2>2 DEF BeginRefresh, Begin, Idle, accounts, sessions, Req
  <2>3. CASE BeginReset(r)
    BY <2>3 DEF BeginReset, Begin, Idle, accounts, sessions, Req
  <2>4. CASE BeginChange(r)
    BY <2>4 DEF BeginChange, SessionsOf, Begin, Idle, accounts, sessions, Req
  <2>5. CASE BeginOnUser(r)
    BY <2>5 DEF BeginOnUser, Exists, Begin, Idle, accounts, sessions, Req
  <2>6. CASE BeginBulk(r)
    <3>1. PICK us \in SUBSET User :
            \/ Begin(r, "bulkDeactivate", [Idle EXCEPT !.pc = "off", !.todo = us])
            \/ Begin(r, "bulkDelete", [Idle EXCEPT !.pc = "delete", !.todo = us])
      BY <2>6 DEF BeginBulk
    <3>2. CASE Begin(r, "bulkDeactivate", [Idle EXCEPT !.pc = "off", !.todo = us])
      BY <3>2, ConstantsOK DEF Begin, Idle, accounts, sessions, Req
    <3>3. CASE Begin(r, "bulkDelete", [Idle EXCEPT !.pc = "delete", !.todo = us])
      BY <3>3, ConstantsOK DEF Begin, Idle, accounts, sessions, Req
    <3> QED BY <3>1, <3>2, <3>3
  <2> QED BY <1>2, <2>1, <2>2, <2>3, <2>4, <2>5, <2>6 DEF Arrive
<1>3. ASSUME NEW r \in Request, Step(r) PROVE TokenInv'
  <2>1. CASE Open(r)
    BY <2>1 DEF Open, Return, Exists, FreshSession, Idle, accounts, sessions, Req
  <2>2. CASE OpenFails(r)
    BY <2>2 DEF OpenFails, Return, Idle, accounts, sessions, Req
  <2>3. CASE Check(r)
    <3>1. UNCHANGED <<accounts, sessions, unswept>>
      BY <2>3 DEF Check
    <3>2. CASE Goto(r, "rotate")
      BY <3>1, <3>2 DEF Goto, Return, Idle, accounts, sessions, Req
    <3>3. CASE Return(r)
      BY <3>1, <3>3 DEF Goto, Return, Idle, accounts, sessions, Req
    <3> QED BY <2>3, <3>2, <3>3 DEF Check
  <2>4. CASE Rotate(r)
    BY <2>4 DEF Rotate, Return, Idle, accounts, sessions, Req
  <2>5. CASE Lookup(r)
    <3>1. CASE req' = [req EXCEPT ![r] = Idle]
      BY <2>5, <3>1 DEF Lookup, accounts, sessions, Idle, Req
    <3>2. ASSUME NEW u \in User, reset[u] = req[r].token,
                 req' = [req EXCEPT ![r].pc = "write", ![r].todo = {u}]
          PROVE  TokenInv'
      <4>1. req'[r] = [req[r] EXCEPT !.pc = "write", !.todo = {u}]
        BY <3>2
      <4>2. u = req[r].user
        BY <2>5, <3>2 DEF Lookup, PcInv, TokenInv
      <4>3. /\ req'[r].op = req[r].op /\ req'[r].user = req[r].user
            /\ req'[r].token = req[r].token /\ req'[r].owed = req[r].owed
            /\ req'[r].pc = "write" /\ req'[r].todo = {u}
        BY <4>1 DEF Req
      <4>4. \A q \in Request : q # r => req'[q] = req[q]
        BY <3>2
      <4>5. UNCHANGED <<accounts, sessions, unswept>> /\ req[r].pc = "lookup"
        BY <2>5 DEF Lookup
      <4> HIDE DEF TypeOK
      <4> QED BY <4>2, <4>3, <4>4, <4>5 DEF accounts
    <3> QED BY <2>5, <3>1, <3>2 DEF Lookup, Return
  <2>6. CASE Write(r)
    BY <2>6 DEF Write, Exists, accounts, sessions, Req
  <2>7. CASE WriteFails(r)
    BY <2>7 DEF WriteFails, Return, Idle, accounts, sessions, Req
  <2>8. CASE Sweep(r)
    BY <2>8 DEF Sweep, EndSessions, SessionsOf, Return, Idle, accounts, sessions, Req
  <2>9. CASE SweepFails(r)
    BY <2>9 DEF SweepFails, Return, Idle, accounts, sessions, Req
  <2>10. CASE Off(r)
    <3>1. PICK u \in req[r].todo : Done(r, u)
      BY <2>10 DEF Off
    <3> QED BY <2>10, <3>1, DoneSlot DEF Off, Idle
  <2>11. CASE Delete(r)
    <3>1. PICK u \in req[r].todo : reset' = [reset EXCEPT ![u] = NONE] /\ Done(r, u)
      BY <2>11 DEF Delete
    <3> QED BY <2>11, <3>1, DoneSlot DEF Delete, Idle
  <2>12. CASE UserWriteFails(r)
    <3>1. PICK u \in req[r].todo : Done(r, u)
      BY <2>12 DEF UserWriteFails
    <3> QED BY <2>12, <3>1, DoneSlot DEF UserWriteFails, accounts, Idle
  <2> QED BY <1>3, <2>1, <2>2, <2>3, <2>4, <2>5, <2>6, <2>7, <2>8, <2>9, <2>10, <2>11,
         <2>12 DEF Step
<1>4. ASSUME NEW u \in User, CreateUser(u) PROVE TokenInv'
  BY <1>4 DEF CreateUser, FreshUser, accounts, sessions, Req
<1>5. ASSUME NEW u \in User, Activate(u) PROVE TokenInv'
  BY <1>5 DEF Activate, accounts, sessions, Req
<1>6. ASSUME NEW u \in User, UpdateInactive(u) PROVE TokenInv'
  BY <1>6 DEF UpdateInactive, accounts, sessions, Req
<1>7. ASSUME NEW u \in User, AdminReset(u) PROVE TokenInv'
  BY <1>7 DEF AdminReset, Exists, accounts, sessions, Req
<1>8. ASSUME NEW u \in User, Forgot(u) PROVE TokenInv'
  BY <1>8 DEF Forgot, Exists, FreshToken, accounts, sessions, Req
<1>9. ASSUME NEW u \in User, ResetExpires(u) PROVE TokenInv'
  BY <1>9 DEF ResetExpires, accounts, sessions, Req
<1>10. ASSUME NEW u \in User, Logout(u) PROVE TokenInv'
  BY <1>10 DEF Logout, EndSessions, SessionsOf, accounts, sessions, Req
<1>11. ASSUME NEW s \in active, Revoke(s) PROVE TokenInv'
  BY <1>11 DEF Revoke, accounts, sessions, Req
<1>12. CASE Crash
  BY <1>12 DEF Crash, Idle, accounts, sessions, Req
<1> QED BY <1>1, <1>2, <1>3, <1>4, <1>5, <1>6, <1>7, <1>8, <1>9, <1>10, <1>11, <1>12 DEF Next

\* No session is open in the gap of deactivateUser unless it was opened there.
LEMMA GapStep == TypeOK /\ ActiveOwned /\ GapLate /\ PcInv /\ [Next]_vars => GapLate'
<1> SUFFICES ASSUME TypeOK, ActiveOwned, GapLate, PcInv, [Next]_vars PROVE GapLate'
  OBVIOUS
<1> USE DEF GapLate, Gap, TypeOK
<1>1. CASE UNCHANGED vars
  BY <1>1 DEF vars, accounts, sessions
<1>2. ASSUME NEW r \in Request, Arrive(r) PROVE GapLate'
  <2>1. CASE BeginLogin(r)
    BY <2>1 DEF BeginLogin, Begin, Idle, accounts, sessions, Req
  <2>2. CASE BeginRefresh(r)
    BY <2>2 DEF BeginRefresh, Begin, Idle, accounts, sessions, Req
  <2>3. CASE BeginReset(r)
    BY <2>3 DEF BeginReset, Begin, Idle, accounts, sessions, Req
  <2>4. CASE BeginChange(r)
    BY <2>4 DEF BeginChange, SessionsOf, Begin, Idle, accounts, sessions, Req
  <2>5. CASE BeginOnUser(r)
    BY <2>5 DEF BeginOnUser, Exists, Begin, Idle, accounts, sessions, Req
  <2>6. CASE BeginBulk(r)
    <3>1. PICK us \in SUBSET User :
            \/ Begin(r, "bulkDeactivate", [Idle EXCEPT !.pc = "off", !.todo = us])
            \/ Begin(r, "bulkDelete", [Idle EXCEPT !.pc = "delete", !.todo = us])
      BY <2>6 DEF BeginBulk
    <3>2. CASE Begin(r, "bulkDeactivate", [Idle EXCEPT !.pc = "off", !.todo = us])
      BY <3>2, ConstantsOK DEF Begin, Idle, accounts, sessions, Req
    <3>3. CASE Begin(r, "bulkDelete", [Idle EXCEPT !.pc = "delete", !.todo = us])
      BY <3>3, ConstantsOK DEF Begin, Idle, accounts, sessions, Req
    <3> QED BY <3>1, <3>2, <3>3
  <2> QED BY <1>2, <2>1, <2>2, <2>3, <2>4, <2>5, <2>6 DEF Arrive
<1>3. ASSUME NEW r \in Request, Step(r) PROVE GapLate'
  <2>1. CASE Open(r)
    BY <2>1 DEF Open, Return, Exists, FreshSession, Idle, accounts, sessions, Req, Overtaken
  <2>2. CASE OpenFails(r)
    BY <2>2 DEF OpenFails, Return, Idle, accounts, sessions, Req
  <2>3. CASE Check(r)
    <3>1. UNCHANGED <<accounts, sessions, unswept>>
      BY <2>3 DEF Check
    <3>2. CASE Goto(r, "rotate")
      BY <3>1, <3>2 DEF Goto, Return, Idle, accounts, sessions, Req
    <3>3. CASE Return(r)
      BY <3>1, <3>3 DEF Goto, Return, Idle, accounts, sessions, Req
    <3> QED BY <2>3, <3>2, <3>3 DEF Check
  <2>4. CASE Rotate(r)
    BY <2>4 DEF Rotate, Return, Idle, accounts, sessions, Req
  <2>5. CASE Lookup(r)
    BY <2>5 DEF Lookup, Return, Idle, accounts, sessions, Req
  <2>6. CASE Write(r)
    BY <2>6 DEF Write, Exists, accounts, sessions, Req
  <2>7. CASE WriteFails(r)
    BY <2>7 DEF WriteFails, Return, Idle, accounts, sessions, Req
  <2>8. CASE Sweep(r)
    BY <2>8 DEF Sweep, EndSessions, SessionsOf, Return, Idle, accounts, sessions, Req
  <2>9. CASE SweepFails(r)
    BY <2>9 DEF SweepFails, Return, Idle, accounts, sessions, Req
  <2>10. CASE Off(r)
    <3>1. PICK u \in req[r].todo : Done(r, u)
      BY <2>10 DEF Off
    <3>2. UNCHANGED <<owner, active, late>>
      BY <2>10 DEF Off, sessions
    <3>3. \A q \in Request, v \in User : Gap(q, v)' => Gap(q, v)
      BY <2>10, <3>1, DoneSlot DEF Off, Gap, Idle
    <3> QED BY <3>2, <3>3 DEF ActiveOwned
  <2>11. CASE Delete(r)
    <3>1. PICK u \in req[r].todo :
            /\ owner' = [s \in Session |-> IF owner[s] = u THEN NONE ELSE owner[s]]
            /\ active' = active \ SessionsOf(u)
            /\ late' = late \ SessionsOf(u)
            /\ Done(r, u)
      BY <2>11 DEF Delete
    <3>2. \A s \in active' : s \in active /\ owner'[s] = owner[s] /\ s \notin SessionsOf(u)
      BY <3>1 DEF SessionsOf
    <3>3. \A q \in Request, v \in User : Gap(q, v)' => Gap(q, v)
      BY <2>11, <3>1, DoneSlot DEF Delete, Gap, Idle
    <3> QED BY <3>1, <3>2, <3>3 DEF ActiveOwned
  <2>12. CASE UserWriteFails(r)
    <3>1. PICK u \in req[r].todo : Done(r, u)
      BY <2>12 DEF UserWriteFails
    <3>2. UNCHANGED <<owner, active, late>>
      BY <2>12 DEF UserWriteFails, sessions
    <3>3. \A q \in Request, v \in User : Gap(q, v)' => Gap(q, v)
      BY <2>12, <3>1, DoneSlot DEF UserWriteFails, Gap, Idle
    <3> QED BY <3>2, <3>3 DEF ActiveOwned
  <2> QED BY <1>3, <2>1, <2>2, <2>3, <2>4, <2>5, <2>6, <2>7, <2>8, <2>9, <2>10, <2>11,
         <2>12 DEF Step
<1>4. ASSUME NEW u \in User, CreateUser(u) PROVE GapLate'
  BY <1>4 DEF CreateUser, FreshUser, accounts, sessions, Req
<1>5. ASSUME NEW u \in User, Activate(u) PROVE GapLate'
  BY <1>5 DEF Activate, accounts, sessions, Req
<1>6. ASSUME NEW u \in User, UpdateInactive(u) PROVE GapLate'
  BY <1>6 DEF UpdateInactive, accounts, sessions, Req
<1>7. ASSUME NEW u \in User, AdminReset(u) PROVE GapLate'
  BY <1>7 DEF AdminReset, Exists, accounts, sessions, Req
<1>8. ASSUME NEW u \in User, Forgot(u) PROVE GapLate'
  BY <1>8 DEF Forgot, Exists, FreshToken, accounts, sessions, Req
<1>9. ASSUME NEW u \in User, ResetExpires(u) PROVE GapLate'
  BY <1>9 DEF ResetExpires, accounts, sessions, Req
<1>10. ASSUME NEW u \in User, Logout(u) PROVE GapLate'
  BY <1>10 DEF Logout, EndSessions, SessionsOf, accounts, sessions, Req
<1>11. ASSUME NEW s \in active, Revoke(s) PROVE GapLate'
  BY <1>11 DEF Revoke, accounts, sessions, Req
<1>12. CASE Crash
  BY <1>12 DEF Crash, Idle, accounts, sessions, Req
<1> QED BY <1>1, <1>2, <1>3, <1>4, <1>5, <1>6, <1>7, <1>8, <1>9, <1>10, <1>11, <1>12 DEF Next

\* While an account is written no promise to end sessions is forgotten, and a
\* bulk deactivation makes one for it.
LEMMA OwingGrows ==
  ASSUME TypeOK, PcInv, NEW r \in Request, req[r].pc \in {"off", "delete"},
         NEW u \in req[r].todo, Done(r, u)
  PROVE  /\ \A q \in Request : Owing(q) \subseteq Owing(q)'
         /\ req[r].op = "bulkDeactivate" => u \in Owing(r)'
<1>1. \A q \in Request : q # r => req'[q] = req[q]
  BY DEF Done, Return, TypeOK
<1>2. CASE req[r].op \in {"bulkDeactivate", "bulkDelete"}
  <2>1. req'[r].op = req[r].op /\ req'[r].owed = req[r].owed \cup {u}
    BY <1>2 DEF Done, TypeOK, Req
  <2> QED BY <1>1, <2>1 DEF Owing
<1>3. CASE req[r].op \notin {"bulkDeactivate", "bulkDelete"}
  BY <1>1, <1>3 DEF Owing, PcInv
<1> QED BY <1>2, <1>3

\* No step leaves a session open without justification or explanation.
LEMMA SurvivorsStep == IInv /\ [Next]_vars => SurvivorsExplained'
<1> SUFFICES ASSUME IInv, [Next]_vars PROVE SurvivorsExplained'
  OBVIOUS
<1> USE DEF SurvivorsExplained, Unjustified, Owing
<1>1. CASE UNCHANGED vars
  BY <1>1 DEF vars, IInv
<1>2. ASSUME NEW r \in Request, Arrive(r) PROVE SurvivorsExplained'
  <2>1. CASE BeginLogin(r)
    BY <2>1 DEF BeginLogin, Begin, Idle, accounts, sessions, IInv, TypeOK, PcInv, Req,
         ActiveOwned
  <2>2. CASE BeginRefresh(r)
    BY <2>2 DEF BeginRefresh, Begin, Idle, accounts, sessions, IInv, TypeOK, PcInv, Req,
         ActiveOwned
  <2>3. CASE BeginReset(r)
    BY <2>3 DEF BeginReset, Begin, Idle, accounts, sessions, IInv, TypeOK, PcInv, Req,
         ActiveOwned
  <2>4. CASE BeginChange(r)
    BY <2>4 DEF BeginChange, SessionsOf, Begin, Idle, accounts, sessions, IInv, TypeOK,
         PcInv, Req, ActiveOwned
  <2>5. CASE BeginOnUser(r)
    BY <2>5 DEF BeginOnUser, Exists, Begin, Idle, accounts, sessions, IInv, TypeOK, PcInv,
         Req, ActiveOwned
  <2>6. CASE BeginBulk(r)
    BY <2>6 DEF BeginBulk, Begin, Idle, accounts, sessions, IInv, TypeOK, PcInv, Req,
         ActiveOwned
  <2> QED BY <1>2, <2>1, <2>2, <2>3, <2>4, <2>5, <2>6 DEF Arrive
<1>3. ASSUME NEW r \in Request, Step(r) PROVE SurvivorsExplained'
  <2>1. CASE Open(r)
    BY <2>1 DEF Open, Return, Exists, FreshSession, Idle, accounts, sessions, IInv, TypeOK,
         PcInv, Req, ActiveOwned, Overtaken
  <2>2. CASE OpenFails(r)
    BY <2>2 DEF OpenFails, Return, Idle, accounts, sessions, IInv, TypeOK, PcInv, Req,
         ActiveOwned
  <2>3. CASE Check(r)
    BY <2>3 DEF Check, Goto, Return, Idle, accounts, sessions, IInv, TypeOK, PcInv, Req,
         ActiveOwned
  <2>4. CASE Rotate(r)
    BY <2>4 DEF Rotate, Return, Idle, accounts, sessions, IInv, TypeOK, PcInv, Req,
         ActiveOwned
  <2>5. CASE Lookup(r)
    BY <2>5 DEF Lookup, Return, Idle, accounts, sessions, IInv, TypeOK, PcInv, Req,
         ActiveOwned
  <2>6. CASE Write(r)
    BY <2>6 DEF Write, Exists, accounts, sessions, IInv, TypeOK, PcInv, Req, ActiveOwned
  <2>7. CASE WriteFails(r)
    BY <2>7 DEF WriteFails, Return, Idle, accounts, sessions, IInv, TypeOK, PcInv, Req,
         ActiveOwned
  <2>8. CASE Sweep(r)
    <3>1. PICK u \in req[r].owed :
            /\ EndSessions(u)
            /\ UNCHANGED <<acct, pw>>
            /\ IF req[r].owed # {u} THEN req' = [req EXCEPT ![r].owed = @ \ {u}]
               ELSE CASE req[r].op = "deactivate" -> req' = [req EXCEPT ![r].owed = {}, ![r].pc = "off"]
                      [] req[r].op = "deleteUser" -> req' = [req EXCEPT ![r].owed = {}, ![r].pc = "delete"]
                      [] OTHER -> Return(r)
      BY <2>8 DEF Sweep, accounts
    <3>2. Owing(r) \ {u} \subseteq Owing(r)'
      BY <3>1 DEF Return, Idle, IInv, TypeOK, Req
    <3>3. \A q \in Request : q # r => Owing(q)' = Owing(q)
      BY <3>1 DEF Return, IInv, TypeOK
    <3> HIDE DEF Owing
    <3> QED BY <3>1, <3>2, <3>3 DEF EndSessions, SessionsOf, IInv, TypeOK, ActiveOwned
  <2>9. CASE SweepFails(r)
    BY <2>9 DEF SweepFails, Return, Idle, accounts, sessions, IInv, TypeOK, PcInv, Req,
         ActiveOwned
  <2>10. CASE Off(r)
    <3>1. PICK u \in req[r].todo :
            acct' = [acct EXCEPT ![u] = "inactive"] /\ Done(r, u)
      BY <2>10 DEF Off
    <3>2. /\ \A q \in Request : Owing(q) \subseteq Owing(q)'
          /\ req[r].op = "bulkDeactivate" => u \in Owing(r)'
      BY <2>10, <3>1, OwingGrows DEF Off, IInv
    <3>3. req[r].op = "bulkDeactivate" \/ Gap(r, u)
      BY <2>10, <3>1 DEF Off, IInv, PcInv, Gap
    <3>4. UNCHANGED <<pw, owner, active, ver, late, unswept>>
      BY <2>10 DEF Off, sessions
    <3> HIDE DEF Owing
    <3> QED BY <3>1, <3>2, <3>3, <3>4 DEF IInv, TypeOK, ActiveOwned, GapLate
  <2>11. CASE Delete(r)
    <3>1. PICK u \in req[r].todo :
            /\ acct' = [acct EXCEPT ![u] = "absent"]
            /\ pw' = [pw EXCEPT ![u] = 0]
            /\ owner' = [s \in Session |-> IF owner[s] = u THEN NONE ELSE owner[s]]
            /\ active' = active \ SessionsOf(u)
            /\ ver' = [s \in Session |-> IF owner[s] = u THEN 0 ELSE ver[s]]
            /\ late' = late \ SessionsOf(u)
            /\ unswept' = unswept \ {u}
            /\ Done(r, u)
      BY <2>11 DEF Delete
    <3>2. \A q \in Request : Owing(q) \subseteq Owing(q)'
      BY <2>11, <3>1, OwingGrows DEF Delete, IInv
    <3> HIDE DEF Owing
    <3> QED BY <3>1, <3>2 DEF IInv, TypeOK, ActiveOwned, SessionsOf
  <2>12. CASE UserWriteFails(r)
    <3>1. PICK u \in req[r].todo : Done(r, u)
      BY <2>12 DEF UserWriteFails
    <3>2. \A q \in Request : Owing(q) \subseteq Owing(q)'
      BY <2>12, <3>1, OwingGrows DEF UserWriteFails, IInv
    <3>3. UNCHANGED <<acct, pw, owner, active, ver, late, unswept>>
      BY <2>12 DEF UserWriteFails, accounts, sessions
    <3>4. SUFFICES ASSUME NEW s \in Session, Unjustified(s)',
                          ~(s \in late)', ~(owner[s] \in unswept)'
                   PROVE  \E q \in Request : (owner[s] \in Owing(q))'
      OBVIOUS
    <3>5. PICK q \in Request : owner[s] \in Owing(q)
      BY <3>3, <3>4 DEF IInv
    <3> HIDE DEF Owing
    <3> QED BY <3>2, <3>3, <3>5
  <2> QED BY <1>3, <2>1, <2>2, <2>3, <2>4, <2>5, <2>6, <2>7, <2>8, <2>9, <2>10, <2>11,
         <2>12 DEF Step
<1>4. ASSUME NEW u \in User, CreateUser(u) PROVE SurvivorsExplained'
  BY <1>4 DEF CreateUser, FreshUser, accounts, sessions, IInv, TypeOK, ActiveOwned,
         SessionsHaveAccounts, Exists
<1>5. ASSUME NEW u \in User, Activate(u) PROVE SurvivorsExplained'
  BY <1>5 DEF Activate, accounts, sessions, IInv, TypeOK, PcInv, Req, ActiveOwned
<1>6. ASSUME NEW u \in User, UpdateInactive(u) PROVE SurvivorsExplained'
  BY <1>6 DEF UpdateInactive, accounts, sessions, IInv, TypeOK, PcInv, Req, ActiveOwned
<1>7. ASSUME NEW u \in User, AdminReset(u) PROVE SurvivorsExplained'
  BY <1>7 DEF AdminReset, Exists, accounts, sessions, IInv, TypeOK, PcInv, Req, ActiveOwned
<1>8. ASSUME NEW u \in User, Forgot(u) PROVE SurvivorsExplained'
  BY <1>8 DEF Forgot, Exists, FreshToken, accounts, sessions, IInv, TypeOK, PcInv, Req,
         ActiveOwned
<1>9. ASSUME NEW u \in User, ResetExpires(u) PROVE SurvivorsExplained'
  BY <1>9 DEF ResetExpires, accounts, sessions, IInv, TypeOK, PcInv, Req, ActiveOwned
<1>10. ASSUME NEW u \in User, Logout(u) PROVE SurvivorsExplained'
  BY <1>10 DEF Logout, EndSessions, SessionsOf, accounts, sessions, IInv, TypeOK, PcInv,
         Req, ActiveOwned
<1>11. ASSUME NEW s \in active, Revoke(s) PROVE SurvivorsExplained'
  BY <1>11 DEF Revoke, accounts, sessions, IInv, TypeOK, PcInv, Req, ActiveOwned
<1>12. CASE Crash
  BY <1>12 DEF Crash, Idle, accounts, sessions, IInv, TypeOK, PcInv, Req, ActiveOwned
<1> QED BY <1>1, <1>2, <1>3, <1>4, <1>5, <1>6, <1>7, <1>8, <1>9, <1>10, <1>11, <1>12 DEF Next

\* The invariant holds of an empty system, and every step preserves it.
THEOREM Inductive == Spec => []IInv
<1>1. Init => IInv
  BY IdleType, ConstantsOK DEF Init, IInv, TypeOK, SessionsHaveAccounts, ActiveOwned, PcInv,
     TokenInv, GapLate, Gap, SurvivorsExplained, Unjustified, Idle
<1>2. IInv /\ [Next]_vars => IInv'
  BY TypeStep, OwnersStep, PcStep, TokenStep, GapStep, SurvivorsStep DEF IInv
<1> QED BY <1>1, <1>2, PTL DEF Spec

\* Whatever overlaps, fails or crashes, a session that outlives a password change
\* or a deactivation was opened by a login the change overtook, or is about to
\* be ended, or the step that was to end it is missing.
THEOREM Survivors == Spec => []SurvivorsExplained
<1>1. IInv => SurvivorsExplained
  BY DEF IInv
<1> QED BY <1>1, Inductive, PTL

\* A session that was ended is never open again, whatever is still in flight.
THEOREM EndedForGood == Spec => EndedSessionsStayEnded
<1> DEFINE Opens(s) == active' = active \cup {s} /\ owner[s] = NONE
<1>1. ASSUME [Next]_vars PROVE active' \subseteq active \/ \E s \in Session : Opens(s)
  <2>1. CASE UNCHANGED vars
    BY <2>1 DEF vars
  <2>2. ASSUME NEW r \in Request, Arrive(r) PROVE active' = active
    BY <2>2 DEF Arrive, BeginLogin, BeginRefresh, BeginReset, BeginChange, BeginOnUser,
                BeginBulk, Begin, sessions
  <2>3. ASSUME NEW r \in Request, Open(r) PROVE \E s \in Session : Opens(s)
    BY <2>3 DEF Open, FreshSession
  <2>4. ASSUME NEW r \in Request, Step(r), ~Open(r) PROVE active' \subseteq active
    BY <2>4 DEF Step, OpenFails, Check, Rotate, Lookup, Write, WriteFails, Sweep, SweepFails,
                Off, Delete, UserWriteFails, EndSessions, sessions
  <2>5. ASSUME NEW u \in User,
               \/ CreateUser(u) \/ Activate(u) \/ UpdateInactive(u)
               \/ AdminReset(u) \/ Forgot(u) \/ ResetExpires(u) \/ Logout(u)
        PROVE  active' \subseteq active
    BY <2>5 DEF CreateUser, Activate, UpdateInactive, AdminReset, Forgot, ResetExpires,
                Logout, EndSessions, sessions
  <2>6. ASSUME NEW s \in active, Revoke(s) PROVE active' \subseteq active
    BY <2>6 DEF Revoke
  <2>7. CASE Crash
    BY <2>7 DEF Crash, sessions
  <2> QED BY <1>1, <2>1, <2>2, <2>3, <2>4, <2>5, <2>6, <2>7 DEF Next
<1>2. [Next]_vars =>
        [\A s \in Session : owner[s] # NONE /\ s \notin active => s \notin active']_vars
  BY <1>1
<1> QED BY <1>2, PTL DEF Spec, EndedSessionsStayEnded

\* No session row is left without its account.
THEOREM AccountsOfSessions == Spec => []SessionsHaveAccounts
<1>1. IInv => SessionsHaveAccounts
  BY DEF IInv
<1> QED BY <1>1, Inductive, PTL

\* A handler that owes users the end of their sessions stops owing one only when
\* none of the user's other sessions is open any more, or when it fails.
DebtPaid ==
  \A r \in Request, u \in User :
    u \in Owing(r) /\ u \notin Owing(r)'
      => u \in unswept' \/ \A s \in active' : owner'[s] = u => Current(r, s)

\* The step behind ChangeEndsSessions, without its fairness: changePassword,
\* resetPassword and bulkDeactivate let go of a user they owe only in the step that
\* ends the user's other sessions, the late ones included, whatever runs meanwhile; a
\* handler that fails, or stops in the middle of its list, leaves the user among the
\* unswept.
THEOREM DebtsArePaid == Spec => [][DebtPaid]_vars
<1>1. ASSUME IInv, Next PROVE DebtPaid
  <2>0. TypeOK /\ PcInv
    BY <1>1 DEF IInv
  <2> DEFINE Kept(r) == Owing(r) \subseteq Owing(r)'
  <2>1. ASSUME NEW r \in Request, Arrive(r) PROVE \A q \in Request : Kept(q)
    <3>1. req[r].pc = "idle" /\ \A q \in Request : q # r => req'[q] = req[q]
      BY <2>0, <2>1 DEF Arrive, BeginLogin, BeginRefresh, BeginReset, BeginChange,
                        BeginOnUser, BeginBulk, Begin, TypeOK
    <3> QED BY <2>0, <3>1 DEF PcInv, Owing
  <2>2. ASSUME NEW r \in Request,
               \/ Open(r) \/ OpenFails(r) \/ Check(r) \/ Rotate(r) \/ Lookup(r)
               \/ Write(r) \/ WriteFails(r)
        PROVE  \A q \in Request : Kept(q)
    <3>1. /\ req[r].pc \in {"open", "check", "rotate", "lookup", "write"}
          /\ \A q \in Request : q # r => req'[q] = req[q]
      BY <2>0, <2>2 DEF Open, OpenFails, Check, Rotate, Lookup, Write, WriteFails, Goto,
                        Return, TypeOK
    <3> QED BY <2>0, <3>1 DEF PcInv, Owing
  <2>3. ASSUME NEW r \in Request, Off(r) \/ Delete(r) \/ UserWriteFails(r)
        PROVE  \A q \in Request : Kept(q)
    <3>1. req[r].pc \in {"off", "delete"} /\ \E u \in req[r].todo : Done(r, u)
      BY <2>3 DEF Off, Delete, UserWriteFails
    <3> QED BY <2>0, <3>1, OwingGrows
  <2>4. ASSUME NEW r \in Request, Sweep(r) PROVE DebtPaid
    <3>1. PICK u \in req[r].owed :
            /\ EndSessions(u)
            /\ IF req[r].owed # {u} THEN req' = [req EXCEPT ![r].owed = @ \ {u}]
               ELSE CASE req[r].op = "deactivate" -> req' = [req EXCEPT ![r].owed = {}, ![r].pc = "off"]
                      [] req[r].op = "deleteUser" -> req' = [req EXCEPT ![r].owed = {}, ![r].pc = "delete"]
                      [] OTHER -> Return(r)
      BY <2>4 DEF Sweep
    <3>2. Owing(r) \ {u} \subseteq Owing(r)'
      BY <2>0, <3>1 DEF Return, Idle, TypeOK, Req, Owing
    <3>3. \A q \in Request : q # r => Owing(q)' = Owing(q)
      BY <2>0, <3>1 DEF Return, TypeOK, Owing
    <3>4. \A s \in active' : owner'[s] # u
      BY <2>0, <3>1 DEF EndSessions, SessionsOf, TypeOK
    <3> QED BY <3>2, <3>3, <3>4 DEF DebtPaid
  <2>5. ASSUME NEW r \in Request, SweepFails(r) PROVE DebtPaid
    <3>1. /\ unswept' = unswept \cup Owing(r)
          /\ \A q \in Request : q # r => req'[q] = req[q]
      BY <2>0, <2>5 DEF SweepFails, Return, TypeOK
    <3> QED BY <3>1 DEF DebtPaid, Owing
  <2>6. ASSUME UNCHANGED req PROVE \A q \in Request : Kept(q)
    BY <2>6 DEF Owing
  <2>7. CASE Crash
    BY <2>7 DEF Crash, DebtPaid
  <2>8. ASSUME NEW u \in User, \/ CreateUser(u) \/ Activate(u) \/ UpdateInactive(u)
                               \/ AdminReset(u) \/ Forgot(u) \/ ResetExpires(u) \/ Logout(u)
        PROVE  UNCHANGED req
    BY <2>8 DEF CreateUser, Activate, UpdateInactive, AdminReset, Forgot, ResetExpires, Logout
  <2>9. ASSUME NEW s \in active, Revoke(s) PROVE UNCHANGED req
    BY <2>9 DEF Revoke
  <2>10. (\A q \in Request : Kept(q)) => DebtPaid
    BY DEF DebtPaid
  <2> QED BY <1>1, <2>1, <2>2, <2>3, <2>4, <2>5, <2>6, <2>7, <2>8, <2>9, <2>10 DEF Next, Step
<1>2. IInv /\ [Next]_vars => [DebtPaid]_vars
  BY <1>1
<1> QED BY <1>2, Inductive, PTL DEF Spec

\* No session is opened for an account that has changed since its login read it.
NoneOvertaken == \A r \in Request : Open(r) => ~Overtaken(r)

\* Requests that overlap as they like, without failures and without the two
\* operations that end no session: when no login is overtaken by a change of its
\* account, an open session that the account no longer justifies (login,
\* changePassword, resetPassword, bulkDeactivate, deactivateUser) is owed its end by
\* a handler in flight.
THEOREM CalmSessionsJustified ==
  ASSUME Faults = {}, "adminReset" \notin Ops, "updateUser" \notin Ops
  PROVE  Spec /\ [][NoneOvertaken]_vars
           => [](\A s \in Session : Unjustified(s) => \E r \in Request : owner[s] \in Owing(r))
<1> DEFINE Calm == late = {} /\ unswept = {}
<1>1. Init => Calm
  BY DEF Init
<1>2. Calm /\ [Next]_vars /\ [NoneOvertaken]_vars => Calm'
  <2> SUFFICES ASSUME Calm, [Next]_vars, [NoneOvertaken]_vars PROVE Calm'
    OBVIOUS
  <2>1. CASE UNCHANGED vars
    BY <2>1 DEF vars
  <2>2. ASSUME NEW r \in Request, Arrive(r) PROVE Calm'
    BY <2>2 DEF Arrive, BeginLogin, BeginRefresh, BeginReset, BeginChange, BeginOnUser,
                BeginBulk, Begin, sessions
  <2>3. ASSUME NEW r \in Request, Open(r), NoneOvertaken PROVE Calm'
    BY <2>3 DEF Open, NoneOvertaken
  <2>4. ASSUME NEW r \in Request, Step(r), ~Open(r) PROVE Calm'
    BY <2>4 DEF Step, OpenFails, Check, Rotate, Lookup, Write, WriteFails, Sweep, SweepFails,
                Off, Delete, UserWriteFails, EndSessions, sessions
  <2>5. ASSUME NEW u \in User,
               \/ CreateUser(u) \/ Activate(u) \/ UpdateInactive(u)
               \/ AdminReset(u) \/ Forgot(u) \/ ResetExpires(u) \/ Logout(u)
        PROVE  Calm'
    BY <2>5 DEF CreateUser, Activate, UpdateInactive, AdminReset, Forgot, ResetExpires,
                Logout, EndSessions, sessions
  <2>6. ASSUME NEW s \in active, Revoke(s) PROVE Calm'
    BY <2>6 DEF Revoke
  <2>7. ~Crash
    BY DEF Crash
  <2> QED BY <2>1, <2>2, <2>3, <2>4, <2>5, <2>6, <2>7 DEF Next
<1>3. IInv /\ Calm
        => \A s \in Session : Unjustified(s) => \E r \in Request : owner[s] \in Owing(r)
  BY DEF IInv, SurvivorsExplained
<1> QED BY <1>1, <1>2, <1>3, Inductive, PTL DEF Spec

\* One request at a time, without failures and without the two operations that
\* end no session: when it is over, every open session was opened with the
\* account's present password, and the account is active.
Serial == \A r \in Request, q \in Request : r = q

THEOREM SerialSessionsJustified ==
  ASSUME Serial, Faults = {}, "adminReset" \notin Ops, "updateUser" \notin Ops
  PROVE  Spec => []QuiescentSessionsJustified
<1> DEFINE Fresh(r) == req[r].pc = "open" =>
                         req[r].ver = pw[req[r].user] /\ acct[req[r].user] = "active"
           Calm == late = {} /\ unswept = {} /\ \A r \in Request : Fresh(r)
<1>1. Init => Calm
  BY DEF Init, Idle
<1>2. IInv /\ Calm /\ [Next]_vars => Calm'
  <2> SUFFICES ASSUME IInv, Calm, [Next]_vars PROVE Calm'
    OBVIOUS
  <2>0. TypeOK /\ PcInv /\ \A r \in Request : req[r] \in Req
    BY DEF IInv, TypeOK
  <2>1. CASE UNCHANGED vars
    BY <2>1 DEF vars, accounts, sessions
  <2>2. ASSUME NEW r \in Request, Arrive(r) PROVE Calm'
    <3> HIDE DEF Calm
    <3>1. UNCHANGED <<acct, pw, late, unswept>>
      BY ONLY <2>2 DEF Arrive, BeginLogin, BeginRefresh, BeginReset, BeginChange,
                    BeginOnUser, BeginBulk, Begin, accounts, sessions
    <3>2. CASE BeginLogin(r)
      <4>1. PICK u \in User :
              /\ acct[u] = "active"
              /\ Begin(r, "login", [Idle EXCEPT !.pc = "open", !.user = u, !.ver = pw[u]])
        BY ONLY <3>2 DEF BeginLogin
      <4>2. req'[r].user = u /\ req'[r].ver = pw[u]
        BY <2>0, <4>1 DEF Begin, Idle, TypeOK
      <4> QED BY <3>1, <4>1, <4>2 DEF Calm, Serial
    <3>3. CASE ~BeginLogin(r)
      <4>1. req'[r].pc # "open"
        <5>1. CASE BeginRefresh(r)
          BY <2>0, <5>1 DEF BeginRefresh, Begin, Idle, TypeOK
        <5>2. CASE BeginReset(r)
          BY <2>0, <5>2 DEF BeginReset, Begin, Idle, TypeOK
        <5>3. CASE BeginChange(r)
          BY <2>0, <5>3 DEF BeginChange, Begin, Idle, TypeOK
        <5>4. CASE BeginOnUser(r)
          BY <2>0, <5>4 DEF BeginOnUser, Begin, Idle, TypeOK
        <5>5. CASE BeginBulk(r)
          <6>1. PICK us \in SUBSET User :
                  \/ Begin(r, "bulkDeactivate", [Idle EXCEPT !.pc = "off", !.todo = us])
                  \/ Begin(r, "bulkDelete", [Idle EXCEPT !.pc = "delete", !.todo = us])
            BY <5>5 DEF BeginBulk
          <6>2. TypeOK /\ "off" # "open" /\ "delete" # "open"
            BY <2>0
          <6> QED BY ONLY <6>1, <6>2 DEF Begin, Idle, TypeOK
        <5> QED BY <2>2, <3>3, <5>1, <5>2, <5>3, <5>4, <5>5 DEF Arrive
      <4> QED BY <3>1, <4>1 DEF Calm, Serial
    <3> QED BY <3>2, <3>3
  <2>3. ASSUME NEW r \in Request, Step(r) PROVE Calm'
    <3>1. req'[r].pc # "open"
      <4> HIDE DEF Calm
      <4>1. CASE Off(r) \/ Delete(r) \/ UserWriteFails(r)
        <5>1. req[r].pc \in {"off", "delete"} /\ \E u \in req[r].todo : Done(r, u)
          BY <4>1 DEF Off, Delete, UserWriteFails
        <5> QED BY <2>0, <5>1, DoneSlot DEF Idle
      <4>2. CASE Sweep(r)
        <5>1. req[r].pc = "sweep"
          BY <4>2 DEF Sweep
        <5>2. PICK u \in req[r].owed :
                \/ req' = [req EXCEPT ![r].owed = @ \ {u}]
                \/ req' = [req EXCEPT ![r].owed = {}, ![r].pc = "off"]
                \/ req' = [req EXCEPT ![r].owed = {}, ![r].pc = "delete"]
                \/ Return(r)
          BY <4>2 DEF Sweep
        <5> QED BY <2>0, <5>1, <5>2 DEF Return, Idle, TypeOK, Req
      <4>3. CASE Check(r)
        BY <2>0, <4>3 DEF Check, Goto, Return, Idle, TypeOK, Req
      <4>4. CASE Lookup(r)
        BY <2>0, <4>4 DEF Lookup, Return, Idle, TypeOK, Req
      <4>5. CASE Write(r)
        BY <2>0, <4>5 DEF Write, TypeOK, Req
      <4>6. CASE Open(r) \/ OpenFails(r) \/ Rotate(r) \/ WriteFails(r) \/ SweepFails(r)
        <5>1. Return(r)
          BY <4>6 DEF Open, OpenFails, Rotate, WriteFails, SweepFails
        <5> QED BY <2>0, <5>1 DEF Return, Idle, TypeOK
      <4> QED BY <2>3, <4>1, <4>2, <4>3, <4>4, <4>5, <4>6 DEF Step
    <3>2. late' = {} /\ unswept' = {}
      <4>1. CASE Open(r)
        <5>1. ~Overtaken(r)
          <6>1. \A q \in Request : req[q].pc = "open"
            BY <4>1 DEF Open, Serial
          <6> QED BY <4>1, <6>1 DEF Open, Overtaken, Gap
        <5>2. late' = late /\ unswept' = unswept
          BY <4>1, <5>1 DEF Open
        <5> QED BY <5>2
      <4>2. CASE Sweep(r)
        BY <4>2 DEF Sweep, EndSessions
      <4>3. CASE Delete(r)
        BY <4>3 DEF Delete
      <4>4. ~SweepFails(r)
        BY DEF SweepFails
      <4>5. CASE OpenFails(r) \/ Check(r) \/ Rotate(r) \/ Lookup(r) \/ Write(r)
                 \/ WriteFails(r) \/ Off(r) \/ UserWriteFails(r)
        BY <4>5 DEF OpenFails, Check, Rotate, Lookup, Write, WriteFails, Off,
                    UserWriteFails, sessions
      <4> QED BY <2>3, <4>1, <4>2, <4>3, <4>4, <4>5 DEF Step
    <3>3. \A q \in Request : q = r
      BY DEF Serial
    <3> QED BY <3>1, <3>2, <3>3
  <2>4. ASSUME NEW u \in User, CreateUser(u) \/ Activate(u) PROVE Calm'
    <3>1. /\ UNCHANGED <<pw, req, late, unswept>>
          /\ \A v \in User : v # u => acct'[v] = acct[v]
          /\ acct[u] # "active"
      BY <2>0, <2>4 DEF CreateUser, Activate, FreshUser, sessions, TypeOK
    <3>2. \A r \in Request : req[r].pc = "open" => req[r].user \in User
      BY <2>0 DEF PcInv, Req
    <3> QED BY <3>1, <3>2
  <2>5. ASSUME NEW u \in User, \/ UpdateInactive(u) \/ AdminReset(u) \/ Forgot(u)
                               \/ ResetExpires(u) \/ Logout(u)
        PROVE Calm'
    BY <2>5 DEF UpdateInactive, AdminReset, Forgot, ResetExpires, Logout, EndSessions,
                accounts, sessions
  <2>6. ASSUME NEW s \in active, Revoke(s) PROVE Calm'
    BY <2>6 DEF Revoke, accounts
  <2>7. ~Crash
    BY DEF Crash
  <2> QED BY <2>1, <2>2, <2>3, <2>4, <2>5, <2>6, <2>7 DEF Next
<1>3. IInv /\ Calm => QuiescentSessionsJustified
  BY DEF IInv, PcInv, SurvivorsExplained, QuiescentSessionsJustified, Quiescent, Owing
<1> QED BY <1>1, <1>2, <1>3, Inductive, PTL DEF Spec
=============================================================================

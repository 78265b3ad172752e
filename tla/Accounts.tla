------------------------------ MODULE Accounts ------------------------------
(***************************************************************************)
(* User accounts and their sessions: tables "users" and "user_sessions",   *)
(* the handlers of the auth service (login, refresh, logout, passwords)    *)
(* and of the users service (activation, deletion, bulk operations).       *)
(*                                                                         *)
(* No handler opens a transaction, so each await on the database is one    *)
(* action.  An operation that looks a row up only to answer "not found"    *)
(* and then writes it in one statement is that one statement.  Tokens are  *)
(* random: the model keeps which session a token opens, not the token.     *)
(***************************************************************************)
EXTENDS Naturals

CONSTANTS
  User,        \* user ids
  Session,     \* session ids (cuid, one per login)
  ResetToken,  \* the tokens of forgotten passwords
  Request,     \* request slots: how many handlers are in flight together
  MaxPw,       \* bound: how often a password is changed
  Ops,         \* the operations clients call
  Faults,      \* the failures that may happen: "database", "crash"
  NONE         \* SQL NULL, or no row

AllOps == {"login", "refresh", "logout", "revoke", "forgot", "reset", "change",
           "adminReset", "createUser", "updateUser", "activate", "deactivate",
           "bulkDeactivate", "deleteUser", "bulkDelete"}

ASSUME ConstantsOK ==
  /\ NONE \notin User \cup Session \cup ResetToken \cup AllOps
  /\ MaxPw \in Nat
  /\ Ops \subseteq AllOps
  /\ Faults \subseteq {"database", "crash"}

VARIABLES
  acct,       \* user -> "absent", "active" or "inactive"
  pw,         \* user -> how often the password has been written
  reset,      \* user -> the reset token that is outstanding, or NONE
  owner,      \* session row -> its userId, NONE when there is no such row
  active,     \* session rows with isActive
  ver,        \* session row -> the password its login was checked against
  req,        \* request slot -> the handler's position and local variables
  late,       \* history: open sessions whose login was overtaken
  unswept     \* history: users whose sessions nobody will end

vars == <<acct, pw, reset, owner, active, ver, req, late, unswept>>
accounts == <<acct, pw, reset>>
sessions == <<owner, active, ver, late>>

Pc == {"idle", "open", "check", "rotate", "lookup", "write", "sweep", "off", "delete"}

Req == [op: AllOps \cup {NONE}, pc: Pc,
        user: User \cup {NONE},   \* the account read first
        ver: 0..MaxPw,            \* the password it had then
        sess: Session \cup {NONE},\* the session the client uses
        token: ResetToken \cup {NONE},
        todo: SUBSET User,        \* accounts yet to be written
        owed: SUBSET User]        \* accounts whose sessions are yet to be ended

Idle == [op |-> NONE, pc |-> "idle", user |-> NONE, ver |-> 0, sess |-> NONE,
         token |-> NONE, todo |-> {}, owed |-> {}]

----------------------------------------------------------------------------
Exists(u) == acct[u] # "absent"

SessionsOf(u) == {s \in Session : owner[s] = u}

\* A cuid: an id no row and no handler mentions.
FreshUser(u) ==
  /\ acct[u] = "absent"
  /\ \A r \in Request : u # req[r].user /\ u \notin req[r].todo \cup req[r].owed

FreshSession(s) == owner[s] = NONE /\ \A r \in Request : req[r].sess # s

\* Mutant: a token another user may hold.
FreshTokenAny(t) == t \in ResetToken

\* 32 random bytes: a token no row and no handler mentions.
FreshToken(t) ==
  /\ \A u \in User : reset[u] # t
  /\ \A r \in Request : req[r].token # t

\* The handlers that have written what should end the sessions of these users,
\* and have yet to end them.
Owing(r) == IF req[r].op \in {"change", "reset", "bulkDeactivate"}
            THEN req[r].owed ELSE {}

\* deactivateUser has ended the sessions and not yet switched the account off.
Gap(r, u) == req[r].op = "deactivate" /\ req[r].pc = "off" /\ u \in req[r].todo

Init ==
  /\ acct = [u \in User |-> "absent"]
  /\ pw = [u \in User |-> 0]
  /\ reset = [u \in User |-> NONE]
  /\ owner = [s \in Session |-> NONE]
  /\ active = {}
  /\ ver = [s \in Session |-> 0]
  /\ req = [r \in Request |-> Idle]
  /\ late = {}
  /\ unswept = {}

----------------------------------------------------------------------------
(* Requests arrive. *)

Begin(r, op, rec) ==
  /\ req[r].pc = "idle"
  /\ op \in Ops
  /\ req' = [req EXCEPT ![r] = [rec EXCEPT !.op = op]]
  /\ UNCHANGED <<accounts, sessions, unswept>>

\* The account is read and the client's password checked against it.
BeginLogin(r) ==
  \E u \in User :
    /\ acct[u] = "active"
    /\ Begin(r, "login", [Idle EXCEPT !.pc = "open", !.user = u, !.ver = pw[u]])

\* The refresh token finds an active session.
BeginRefresh(r) ==
  \E s \in active :
    Begin(r, "refresh", [Idle EXCEPT !.pc = "check", !.user = owner[s], !.sess = s])

\* resetPassword's own lookup of the token; the repository repeats it.
BeginReset(r) ==
  \E u \in User :
    /\ reset[u] # NONE
    /\ Begin(r, "reset",
             [Idle EXCEPT !.pc = "lookup", !.user = u, !.token = reset[u]])

\* changePassword: the access token comes from some session of the user, open
\* or not; register hands one out without a session.
BeginChange(r) ==
  \E u \in User :
    /\ acct[u] = "active"
    /\ \E s \in SessionsOf(u) \cup {NONE} :
         Begin(r, "change", [Idle EXCEPT !.pc = "write", !.todo = {u}, !.sess = s])

\* deactivateUser and deleteUser end the sessions first.
BeginOnUser(r) ==
  \E u \in User, op \in {"deactivate", "deleteUser"} :
    /\ Exists(u)
    /\ Begin(r, op, [Idle EXCEPT !.pc = "sweep", !.todo = {u}, !.owed = {u}])

\* bulkDeactivate and bulkDelete write the accounts first.
BeginBulk(r) ==
  \E us \in (SUBSET User) \ {{}} :
    \/ Begin(r, "bulkDeactivate", [Idle EXCEPT !.pc = "off", !.todo = us])
    \/ Begin(r, "bulkDelete", [Idle EXCEPT !.pc = "delete", !.todo = us])

----------------------------------------------------------------------------
(* The handlers' steps. *)

Goto(r, pc) == req' = [req EXCEPT ![r].pc = pc]
Return(r) == req' = [req EXCEPT ![r] = Idle]

\* The account was changed after the login read it, or is about to be.
Overtaken(r) ==
  LET u == req[r].user IN
  \/ req[r].ver # pw[u]
  \/ acct[u] # "active"
  \/ \E q \in Request : Gap(q, u)

\* userSession.create: the foreign key needs the account, nothing else is
\* checked again.
Open(r) ==
  /\ req[r].pc = "open"
  /\ Exists(req[r].user)
  /\ \E s \in Session :
       /\ FreshSession(s)
       /\ owner' = [owner EXCEPT ![s] = req[r].user]
       /\ active' = active \cup {s}
       /\ ver' = [ver EXCEPT ![s] = req[r].ver]
       /\ late' = IF Overtaken(r) THEN late \cup {s} ELSE late
  /\ Return(r)
  /\ UNCHANGED <<accounts, unswept>>

OpenFails(r) ==
  /\ req[r].pc = "open"
  /\ \/ "database" \in Faults
     \/ ~Exists(req[r].user)
     \/ ~\E s \in Session : FreshSession(s)
  /\ Return(r)
  /\ UNCHANGED <<accounts, sessions, unswept>>

\* refreshToken reads the account of the session it found.
Check(r) ==
  /\ req[r].pc = "check"
  /\ \/ acct[req[r].user] = "active" /\ Goto(r, "rotate")
     \/ (acct[req[r].user] # "active" \/ "database" \in Faults) /\ Return(r)
  /\ UNCHANGED <<accounts, sessions, unswept>>

\* Mutant: the refreshed session is marked active, as a new one is.
RotateRevives(r) ==
  /\ req[r].pc = "rotate"
  /\ Return(r)
  /\ active' = active \cup ({req[r].sess} \ {s \in Session : owner[s] = NONE})
  /\ UNCHANGED <<accounts, owner, ver, late, unswept>>

\* The session row, by id, gets new tokens and nothing else; a row that is gone
\* or a failure throws.
Rotate(r) ==
  /\ req[r].pc = "rotate"
  /\ Return(r)
  /\ UNCHANGED <<accounts, sessions, unswept>>

\* Mutant: the token is taken for the id.
LookupByToken(r) ==
  /\ req[r].pc = "lookup"
  /\ req' = [req EXCEPT ![r].pc = "write", ![r].todo = {req[r].token}]
  /\ UNCHANGED <<accounts, sessions, unswept>>

\* The repository's second lookup: whoever has the token now will be written.
Lookup(r) ==
  /\ req[r].pc = "lookup"
  /\ \/ \E u \in User : /\ reset[u] = req[r].token
                        /\ req' = [req EXCEPT ![r].pc = "write", ![r].todo = {u}]
     \/ /\ "database" \in Faults \/ \A u \in User : reset[u] # req[r].token
        /\ Return(r)
  /\ UNCHANGED <<accounts, sessions, unswept>>

\* The new password, by id.  Only a reset clears the reset token.  The sessions
\* ended next are those of the account read first.
Write(r) ==
  /\ req[r].pc = "write"
  /\ \E u \in req[r].todo :
       /\ Exists(u)
       /\ pw[u] < MaxPw
       /\ pw' = [pw EXCEPT ![u] = @ + 1]
       /\ reset' = IF req[r].op = "reset" THEN [reset EXCEPT ![u] = NONE] ELSE reset
       /\ req' = [req EXCEPT ![r].pc = "sweep", ![r].todo = {},
                    ![r].owed = {IF req[r].op = "reset" THEN req[r].user ELSE u}]
  /\ UNCHANGED <<acct, sessions, unswept>>

WriteFails(r) ==
  /\ req[r].pc = "write"
  /\ "database" \in Faults \/ \E u \in req[r].todo : ~Exists(u)
  /\ Return(r)
  /\ UNCHANGED <<accounts, sessions, unswept>>

\* deactivateAllUserSessions: one updateMany.
EndSessions(u) ==
  /\ active' = active \ SessionsOf(u)
  /\ late' = late \ SessionsOf(u)
  /\ unswept' = unswept \ {u}
  /\ UNCHANGED <<owner, ver>>

\* Mutant: stops after the first user of the list.
SweepFirst(r) ==
  /\ req[r].pc = "sweep"
  /\ \E u \in req[r].owed : EndSessions(u)
  /\ Return(r)
  /\ UNCHANGED accounts

Sweep(r) ==
  /\ req[r].pc = "sweep"
  /\ \E u \in req[r].owed :
       /\ EndSessions(u)
       /\ IF req[r].owed # {u} THEN req' = [req EXCEPT ![r].owed = @ \ {u}]
          ELSE CASE req[r].op = "deactivate" -> req' = [req EXCEPT ![r].owed = {}, ![r].pc = "off"]
                 [] req[r].op = "deleteUser" -> req' = [req EXCEPT ![r].owed = {}, ![r].pc = "delete"]
                 [] OTHER -> Return(r)
  /\ UNCHANGED accounts

\* It throws, and the rest of the list is not tried.
SweepFails(r) ==
  /\ req[r].pc = "sweep"
  /\ "database" \in Faults
  /\ unswept' = unswept \cup Owing(r)
  /\ Return(r)
  /\ UNCHANGED <<accounts, sessions>>

\* A bulk operation goes through its list, whether or not an account could be
\* written, and then through it again to end the sessions.
Done(r, u) ==
  IF req[r].op \in {"bulkDeactivate", "bulkDelete"}
  THEN req' = [req EXCEPT ![r].todo = @ \ {u}, ![r].owed = @ \cup {u},
                          ![r].pc = IF req[r].todo = {u} THEN "sweep" ELSE @]
  ELSE Return(r)

Off(r) ==
  /\ req[r].pc = "off"
  /\ \E u \in req[r].todo :
       /\ Exists(u)
       /\ acct' = [acct EXCEPT ![u] = "inactive"]
       /\ Done(r, u)
  /\ UNCHANGED <<pw, reset, sessions, unswept>>

\* Mutant: the rows of the sessions stay when their account goes.
DeleteKeepsSessions(r) ==
  /\ req[r].pc = "delete"
  /\ \E u \in req[r].todo :
       /\ Exists(u)
       /\ acct' = [acct EXCEPT ![u] = "absent"]
       /\ pw' = [pw EXCEPT ![u] = 0]
       /\ reset' = [reset EXCEPT ![u] = NONE]
       /\ unswept' = unswept \ {u}
       /\ Done(r, u)
  /\ UNCHANGED sessions

\* user.delete: the foreign key of user_sessions cascades.
Delete(r) ==
  /\ req[r].pc = "delete"
  /\ \E u \in req[r].todo :
       /\ Exists(u)
       /\ acct' = [acct EXCEPT ![u] = "absent"]
       /\ pw' = [pw EXCEPT ![u] = 0]
       /\ reset' = [reset EXCEPT ![u] = NONE]
       /\ owner' = [s \in Session |-> IF owner[s] = u THEN NONE ELSE owner[s]]
       /\ active' = active \ SessionsOf(u)
       /\ ver' = [s \in Session |-> IF owner[s] = u THEN 0 ELSE ver[s]]
       /\ late' = late \ SessionsOf(u)
       /\ unswept' = unswept \ {u}
       /\ Done(r, u)

\* The account is gone, the database fails, or contents or media of the user
\* restrict its deletion.  A bulk operation counts that and goes on.
UserWriteFails(r) ==
  /\ req[r].pc \in {"off", "delete"}
  /\ \E u \in req[r].todo :
       /\ "database" \in Faults \/ ~Exists(u)
       /\ Done(r, u)
  /\ UNCHANGED <<accounts, sessions, unswept>>

----------------------------------------------------------------------------
(* Single-statement operations, and crashes. *)

\* register (which opens no session), createUser (which may create the account
\* switched off).
CreateUser(u) ==
  /\ "createUser" \in Ops
  /\ FreshUser(u)
  /\ \E st \in {"active", "inactive"} : acct' = [acct EXCEPT ![u] = st]
  /\ UNCHANGED <<pw, reset, sessions, req, unswept>>

\* activateUser, bulkActivate, updateUser with isActive true.
Activate(u) ==
  /\ "activate" \in Ops
  /\ acct[u] = "inactive"
  /\ acct' = [acct EXCEPT ![u] = "active"]
  /\ UNCHANGED <<pw, reset, sessions, req, unswept>>

\* updateUser with isActive false: no session is ended.
UpdateInactive(u) ==
  /\ "updateUser" \in Ops
  /\ acct[u] = "active"
  /\ acct' = [acct EXCEPT ![u] = "inactive"]
  /\ unswept' = unswept \cup {u}
  /\ UNCHANGED <<pw, reset, sessions, req>>

\* resetUserPassword: no session is ended, no reset token cleared.
AdminReset(u) ==
  /\ "adminReset" \in Ops
  /\ Exists(u)
  /\ pw[u] < MaxPw
  /\ pw' = [pw EXCEPT ![u] = @ + 1]
  /\ unswept' = unswept \cup {u}
  /\ UNCHANGED <<acct, reset, sessions, req>>

\* forgotPassword: a new token replaces the old one, for inactive users too.
Forgot(u) ==
  /\ "forgot" \in Ops
  /\ Exists(u)
  /\ \E t \in ResetToken : FreshToken(t) /\ reset' = [reset EXCEPT ![u] = t]
  /\ UNCHANGED <<acct, pw, sessions, req, unswept>>

\* An hour passes.
ResetExpires(u) ==
  /\ reset[u] # NONE
  /\ reset' = [reset EXCEPT ![u] = NONE]
  /\ UNCHANGED <<acct, pw, sessions, req, unswept>>

\* logout, revokeAllSessions.
Logout(u) ==
  /\ "logout" \in Ops
  /\ EndSessions(u)
  /\ UNCHANGED <<accounts, req>>

\* revokeSession of one of the user's own sessions.
Revoke(s) ==
  /\ "revoke" \in Ops
  /\ active' = active \ {s}
  /\ late' = late \ {s}
  /\ UNCHANGED <<accounts, owner, ver, req, unswept>>

Crash ==
  /\ "crash" \in Faults
  /\ req' = [r \in Request |-> Idle]
  /\ unswept' = unswept \cup UNION {Owing(r) : r \in Request}
  /\ UNCHANGED <<accounts, sessions>>

Arrive(r) ==
  \/ BeginLogin(r) \/ BeginRefresh(r) \/ BeginReset(r)
  \/ BeginChange(r) \/ BeginOnUser(r) \/ BeginBulk(r)

Step(r) ==
  \/ Open(r) \/ OpenFails(r) \/ Check(r) \/ Rotate(r) \/ Lookup(r)
  \/ Write(r) \/ WriteFails(r) \/ Sweep(r) \/ SweepFails(r)
  \/ Off(r) \/ Delete(r) \/ UserWriteFails(r)

Next ==
  \/ \E r \in Request : Arrive(r) \/ Step(r)
  \/ \E u \in User : \/ CreateUser(u) \/ Activate(u) \/ UpdateInactive(u)
                     \/ AdminReset(u) \/ Forgot(u) \/ ResetExpires(u) \/ Logout(u)
  \/ \E s \in active : Revoke(s)
  \/ Crash

Spec == Init /\ [][Next]_vars

\* A handler that has started runs on: Node resumes every await that settles.
FairSpec == Spec /\ \A r \in Request : WF_vars(Step(r))

----------------------------------------------------------------------------
(* Properties. *)

\* The rows of users and user_sessions and the requests of AuthService and
\* HRUserService: a session row never names two users, nor a password that no
\* user ever had.
TypeOK ==
  /\ acct \in [User -> {"absent", "active", "inactive"}]
  /\ pw \in [User -> 0..MaxPw]
  /\ reset \in [User -> ResetToken \cup {NONE}]
  /\ owner \in [Session -> User \cup {NONE}]
  /\ active \subseteq Session
  /\ ver \in [Session -> 0..MaxPw]
  /\ req \in [Request -> Req]
  /\ late \subseteq Session
  /\ unswept \subseteq User

\* An open session that the account's password or state no longer justifies.
Unjustified(s) ==
  /\ s \in active
  /\ ver[s] # pw[owner[s]] \/ acct[owner[s]] # "active"

\* A session outlives a password change or a deactivation only if its login had
\* read the account before, or slipped between the two steps of deactivateUser,
\* or a handler is still to end it, or that handler failed or crashed, or the
\* change came by resetUserPassword or updateUser, which end no session
\* (auth.service.ts login, resetPassword, changePassword; users.service.ts
\* deactivateUser, bulkDeactivate).
SurvivorsExplained ==
  \A s \in Session : Unjustified(s) =>
    \/ s \in late
    \/ owner[s] \in unswept
    \/ \E r \in Request : owner[s] \in Owing(r)

\* Open sessions belong to accounts that exist, also while deletions and logins
\* overlap (user-session.repository.ts create, users.repository.ts delete).
SessionsHaveAccounts ==
  \A s \in Session : owner[s] # NONE => Exists(owner[s])

\* A session that was ended is never open again, even when a refresh that had
\* found it active completes afterwards (auth.service.ts refreshToken).
EndedSessionsStayEnded ==
  [][\A s \in Session : owner[s] # NONE /\ s \notin active => s \notin active']_vars

Quiescent == \A r \in Request : req[r].pc = "idle"

\* One request at a time, without failures: when it is over, every open session
\* was opened with the account's present password, and the account is active
\* (all handlers that change passwords or switch accounts off, except
\* resetUserPassword and updateUser).
QuiescentSessionsJustified == Quiescent => \A s \in Session : ~Unjustified(s)

\* The session in which the client changes the password: whether it should stay
\* open is a question of its own, see CurrentSessionKept.
Current(r, s) == req[r].op = "change" /\ req[r].sess = s

\* Once a password is changed or reset, or accounts are switched off in bulk,
\* every other session open at that time is ended, late ones included, unless the
\* loop that ends them fails or the process crashes on the way, which leaves the
\* user among those whose sessions nobody will end (auth.service.ts
\* resetPassword, changePassword; users.service.ts bulkDeactivate).
ChangeEndsSessions ==
  \A s \in Session, u \in User :
    (/\ s \in active /\ owner[s] = u
     /\ \E r \in Request : u \in Owing(r) /\ ~Current(r, s))
      ~> (s \notin active \/ u \in unswept)

\* "Deactivate all sessions except current": changePassword leaves the session
\* open that the client changes the password in (auth.service.ts changePassword).
CurrentSessionKept ==
  [][\A r \in Request, s \in active :
       Current(r, s) /\ req'[r] # req[r] => s \in active']_vars
=============================================================================

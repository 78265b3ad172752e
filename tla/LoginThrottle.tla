---------------------------- MODULE LoginThrottle ----------------------------
(***************************************************************************)
(* The limit on failed logins (AuthService.login, validateLoginAttempt,    *)
(* LoginAttemptRepository).  A login counts the failures of the last 15    *)
(* minutes for its e-mail address and for its IP address in two statements *)
(* of one Promise.all, is refused when a count has reached the limit, and  *)
(* only after the password comparison adds its own failure.                *)
(*                                                                         *)
(* Whose account the address names, and whether the password is right, are *)
(* left open: both are decided between the counts and the record.          *)
(***************************************************************************)
EXTENDS Handlers, Integers

CONSTANTS Email, IP,
          Attempt,      \* slots for failed rows of table login_attempts
          MaxAttempts   \* 5 in the code

ASSUME ThrottleAssumption ==
  /\ MaxAttempts \in Nat \ {0}
  /\ IsFiniteSet(Request) /\ IsFiniteSet(Attempt)
  /\ NONE \notin Email \cup IP

VARIABLES failed,  \* the failed attempts of the last 15 minutes
          from,    \* the address columns of those rows
          req      \* the logins in flight

vars == <<failed, from, req>>

-----------------------------------------------------------------------------
Limits == {"email", "ip"}

Address == [email : Email \cup {NONE}, ip : IP \cup {NONE}]
Nowhere == [email |-> NONE, ip |-> NONE]

\* A login: its addresses, the counts it has not read yet, whether a count it
\* has read had reached the limit, and a history: the limits that have been
\* reached at every moment since it began.
Req == [pc : {"idle", "count", "compare", "record", "open"}, from : Address,
        unread : SUBSET Limits, over : BOOLEAN, shut : SUBSET Limits]

Idle == [pc |-> "idle", from |-> Nowhere, unread |-> {}, over |-> FALSE, shut |-> {}]

\* The rows that the count of limit l reads for the address x.
Failures(l, x) == {a \in failed : from[a][l] = x}

\* Mutant: one attempt too many.
ReachedLate(rows) == Cardinality(rows) > MaxAttempts

Reached(rows) == Cardinality(rows) >= MaxAttempts

\* The limits of address x that the failures in rows reach.
Shut(x, rows) == {l \in Limits : Reached(Failures(l, x[l]) \cap rows)}

Init == /\ failed = {}
        /\ from = [a \in Attempt |-> Nowhere]
        /\ req = [r \in Request |-> Idle]

-----------------------------------------------------------------------------
Goto(r, q) == req' = [req EXCEPT ![r] = q] /\ UNCHANGED <<failed, from>>

Begin(r) ==
  /\ req[r].pc = "idle"
  /\ \E e \in Email, i \in IP :
       LET x == [email |-> e, ip |-> i] IN
       Goto(r, [pc |-> "count", from |-> x, unread |-> Limits, over |-> FALSE,
                shut |-> Shut(x, failed)])

\* Mutants: a refused login counts as a failure; the count that returns last
\* decides alone; the count that returns first does.
CountedAsFailure(q, l, over) ==
  IF q.unread # {l} THEN [q EXCEPT !.unread = @ \ {l}, !.over = over]
  ELSE [q EXCEPT !.unread = {}, !.pc = IF over THEN "record" ELSE "compare"]

CountedLast(q, l, over) ==
  IF q.unread # {l} THEN [q EXCEPT !.unread = @ \ {l}]
  ELSE IF over THEN Idle
  ELSE [q EXCEPT !.unread = {}, !.pc = "compare"]

CountedFirst(q, l, over) ==
  IF over THEN Idle ELSE [q EXCEPT !.unread = @ \ {l}, !.pc = "compare"]

\* A login after the count of limit l: it waits for the other count, and with
\* both goes on or is refused.  A refused login records nothing.
Counted(q, l, over) ==
  IF q.unread # {l} THEN [q EXCEPT !.unread = @ \ {l}, !.over = over]
  ELSE IF over THEN Idle
  ELSE [q EXCEPT !.unread = {}, !.pc = "compare"]

\* getFailedAttemptsCount or getIPFailedAttemptsCount returns.
Count(r, l) ==
  /\ req[r].pc = "count" /\ l \in req[r].unread
  /\ Goto(r, Counted(req[r], l, req[r].over \/ Reached(Failures(l, req[r].from[l]))))

\* findByEmail and bcrypt.compare.
Compare(r) ==
  /\ req[r].pc = "compare"
  /\ \E pc \in {"record", "open"} : Goto(r, [req[r] EXCEPT !.pc = pc])

\* recordLoginAttempt of a failure.  Attempt bounds the rows of the window.
Record(r) ==
  /\ req[r].pc = "record"
  /\ \E a \in Attempt \ failed : /\ failed' = failed \cup {a}
                                 /\ from' = [from EXCEPT ![a] = req[r].from]
  /\ req' = [req EXCEPT ![r] = Idle]

\* updateLastLogin, the session and the successful attempt, which no count reads.
Open(r) == req[r].pc = "open" /\ Goto(r, Idle)

\* A database error or a crash ends a login.
Abort(r) == req[r].pc # "idle" /\ Goto(r, Idle)

\* A failure leaves the window of 15 minutes.
Expire(a) ==
  /\ a \in failed
  /\ failed' = failed \ {a}
  /\ from' = [from EXCEPT ![a] = Nowhere]
  /\ req' = [r \in Request |-> [req[r] EXCEPT !.shut = @ \cap Shut(req[r].from, failed \ {a})]]

Step(r) == (\E l \in Limits : Count(r, l)) \/ Compare(r) \/ Record(r) \/ Open(r)

Next == \/ \E r \in Request : Begin(r) \/ Step(r) \/ Abort(r)
        \/ \E a \in Attempt : Expire(a)

Spec == Init /\ [][Next]_vars

\* Time passes, and Node resumes its handlers.
FairSpec == /\ Spec
            /\ \A a \in Attempt : WF_vars(Expire(a))
            /\ \A r \in Request : WF_vars(Step(r))

-----------------------------------------------------------------------------
(* Properties *)

\* The rows of the window and the logins in flight (validateLoginAttempt): a
\* login waits for its counts exactly as long as one of them is out.
TypeOK == /\ failed \subseteq Attempt
          /\ from \in [Attempt -> Address]
          /\ req \in [Request -> Req]
          /\ \A r \in Request : (req[r].pc = "count") <=> (req[r].unread # {})

\* Logins that overlap may all count before any of them records, so that the
\* limit of validateLoginAttempt is exceeded, but by no more than the logins
\* that are in flight together.
FailuresBounded ==
  \A l \in Limits, x \in Email \cup IP :
    Cardinality(Failures(l, x)) <= MaxAttempts - 1 + Cardinality(Request)

\* A login (AuthService.login) one of whose addresses had reached its limit when
\* it began, and has been at it ever since, gets neither to the password nor to
\* a session, although it reads its two counts at different times and refuses
\* only after the second.
NothingPassesWhileShut ==
  \A r \in Request : req[r].pc \in {"compare", "open"} => req[r].shut = {}

\* An address that has reached its limit (validateLoginAttempt) comes free
\* again, however many logins keep coming: a refused login is not a failure.
LimitLifts ==
  \A l \in Limits, x \in Email \cup IP :
    Reached(Failures(l, x)) ~> ~Reached(Failures(l, x))
=============================================================================

---------------------------- MODULE ReadsProofs -----------------------------
(* What holds of the limit on failed logins for every number of logins,      *)
(* addresses and rows and for every limit, of the menus for every number of  *)
(* items, and of logins, menus and routes when the steps of all interleave.  *)
EXTENDS MCReads, FiniteSetTheorems, TLAPS

(***************************************************************************)
(* The limit on failed logins: typing.                                     *)
(***************************************************************************)

\* A login that read a count is still well formed.
LEMMA CountedType ==
  ASSUME NEW q \in Req, q.pc = "count", NEW l \in q.unread, NEW over \in BOOLEAN
  PROVE  /\ Counted(q, l, over) \in Req
         /\ (Counted(q, l, over).pc = "count") <=> (Counted(q, l, over).unread # {})
<1>1. CASE q.unread # {l}
  <2>1. Counted(q, l, over) = [q EXCEPT !.unread = @ \ {l}, !.over = over]
    BY <1>1 DEF Counted
  <2> QED BY <1>1, <2>1 DEF Req
<1>2. CASE q.unread = {l} /\ over
  <2>1. Counted(q, l, over) = Idle
    BY <1>2 DEF Counted
  <2> QED BY <2>1 DEF Req, Idle, Nowhere, Address
<1>3. CASE q.unread = {l} /\ ~over
  <2>1. Counted(q, l, over) = [q EXCEPT !.unread = {}, !.pc = "compare"]
    BY <1>3 DEF Counted
  <2> QED BY <2>1 DEF Req
<1> QED BY <1>1, <1>2, <1>3

\* Every step of a login, and the passing of time, keep the state well formed.
LEMMA TypeStep == TypeOK /\ [Next]_vars => TypeOK'
<1> SUFFICES ASSUME TypeOK, [Next]_vars PROVE TypeOK'
  OBVIOUS
<1> USE DEF TypeOK
<1>1. CASE UNCHANGED vars
  BY <1>1 DEF vars
<1>2. ASSUME NEW r \in Request, Begin(r) PROVE TypeOK'
  BY <1>2 DEF Begin, Goto, Req, Address, Limits, Shut
<1>3. ASSUME NEW r \in Request, NEW l \in Limits, Count(r, l) PROVE TypeOK'
  <2> DEFINE over == req[r].over \/ Reached(Failures(l, req[r].from[l]))
  <2>1. over \in BOOLEAN
    OBVIOUS
  <2>2. /\ req[r] \in Req /\ req[r].pc = "count" /\ l \in req[r].unread
        /\ Goto(r, Counted(req[r], l, over))
    BY <1>3 DEF Count
  <2> HIDE DEF over
  <2>3. /\ Counted(req[r], l, over) \in Req
        /\ (Counted(req[r], l, over).pc = "count")
             <=> (Counted(req[r], l, over).unread # {})
    BY <2>1, <2>2, CountedType
  <2> QED BY <2>2, <2>3 DEF Goto
<1>4. ASSUME NEW r \in Request, Compare(r) PROVE TypeOK'
  BY <1>4 DEF Compare, Goto, Req
<1>5. ASSUME NEW r \in Request, Record(r) PROVE TypeOK'
  BY <1>5 DEF Record, Req, Idle, Nowhere, Address
<1>6. ASSUME NEW r \in Request, Open(r) \/ Abort(r) PROVE TypeOK'
  <2>1. Idle \in Req /\ Idle.pc # "count" /\ Idle.unread = {}
    BY DEF Req, Idle, Nowhere, Address
  <2>2. req' = [req EXCEPT ![r] = Idle] /\ UNCHANGED <<failed, from>>
    BY <1>6 DEF Open, Abort, Goto
  <2> QED BY <2>1, <2>2
<1>7. ASSUME NEW a \in Attempt, Expire(a) PROVE TypeOK'
  <2> DEFINE shut(r) == req[r].shut \cap Shut(req[r].from, failed \ {a})
  <2>1. /\ failed' = failed \ {a} /\ from' = [from EXCEPT ![a] = Nowhere]
        /\ req' = [r \in Request |-> [req[r] EXCEPT !.shut = shut(r)]]
    BY <1>7 DEF Expire
  <2>2. Nowhere \in Address
    BY DEF Nowhere, Address
  <2>3. \A r \in Request : shut(r) \subseteq Limits
    BY DEF Shut
  <2> HIDE DEF shut
  <2>4. \A r \in Request : /\ [req[r] EXCEPT !.shut = shut(r)] \in Req
                           /\ [req[r] EXCEPT !.shut = shut(r)].pc = req[r].pc
                           /\ [req[r] EXCEPT !.shut = shut(r)].unread = req[r].unread
    BY <2>3 DEF Req
  <2> QED BY <2>1, <2>2, <2>4
<1> QED BY <1>1, <1>2, <1>3, <1>4, <1>5, <1>6, <1>7 DEF Next, Step

\* The throttle's state is well formed in every reachable state.
THEOREM TypeCorrect == Spec => []TypeOK
<1>1. Init => TypeOK
  BY DEF Init, TypeOK, Req, Idle, Nowhere, Address
<1> QED BY <1>1, TypeStep, PTL DEF Spec

(***************************************************************************)
(* The bound on failures.  It is not inductive: what keeps it is that the  *)
(* failures of an address, together with the logins that may still add one *)
(* without reading that address's count again, are within it.              *)
(***************************************************************************)

\* The logins that no longer ask whether x has reached limit l.
Committed(l, x) ==
  {r \in Request : /\ req[r].from[l] = x
                   /\ \/ req[r].pc \in {"compare", "record"}
                      \/ req[r].pc = "count" /\ l \notin req[r].unread /\ ~req[r].over}

Within(l, x) ==
  Cardinality(Failures(l, x)) + Cardinality(Committed(l, x))
    <= MaxAttempts - 1 + Cardinality(Request)

CommittedBounded == \A l \in Limits, x \in Email \cup IP : Within(l, x)

\* The sets that are counted are finite.
LEMMA Finite ==
  ASSUME TypeOK, NEW l, NEW x
  PROVE  /\ IsFiniteSet(Failures(l, x)) /\ Cardinality(Failures(l, x)) \in Nat
         /\ IsFiniteSet(Committed(l, x)) /\ Cardinality(Committed(l, x)) \in Nat
         /\ Cardinality(Committed(l, x)) <= Cardinality(Request)
         /\ Cardinality(Request) \in Nat
<1>1. Failures(l, x) \subseteq Attempt /\ Committed(l, x) \subseteq Request
  BY DEF TypeOK, Failures, Committed
<1>2. IsFiniteSet(Attempt) /\ IsFiniteSet(Request)
  BY ThrottleAssumption
<1> QED BY <1>1, <1>2, FS_Subset, FS_CardinalityType

\* A step after which fewer rows count and fewer logins are committed.
LEMMA WithinShrinks ==
  ASSUME TypeOK, TypeOK', NEW l, NEW x, Within(l, x),
         Failures(l, x)' \subseteq Failures(l, x),
         Committed(l, x)' \subseteq Committed(l, x)
  PROVE  Within(l, x)'
<1>1. /\ Cardinality(Failures(l, x)') <= Cardinality(Failures(l, x))
      /\ Cardinality(Failures(l, x)') \in Nat
  BY Finite, FS_Subset, FS_CardinalityType
<1>2. /\ Cardinality(Committed(l, x)') <= Cardinality(Committed(l, x))
      /\ Cardinality(Committed(l, x)') \in Nat
  BY Finite, FS_Subset, FS_CardinalityType
<1>3. /\ Cardinality(Failures(l, x)) \in Nat /\ Cardinality(Committed(l, x)) \in Nat
      /\ Cardinality(Request) \in Nat /\ MaxAttempts \in Nat
  BY Finite, ThrottleAssumption
<1> QED BY <1>1, <1>2, <1>3 DEF Within

\* A step that leaves the rows alone and finds them below the limit.
LEMMA WithinBelow ==
  ASSUME TypeOK, TypeOK', NEW l, NEW x,
         failed' = failed, from' = from, ~Reached(Failures(l, x))
  PROVE  Within(l, x)'
<1>1. Cardinality(Failures(l, x)) \in Nat
  BY Finite
<1>2. Cardinality(Failures(l, x)) <= MaxAttempts - 1
  BY <1>1, ThrottleAssumption DEF Reached
<1>3. Failures(l, x)' = Failures(l, x)
  BY DEF Failures
<1>4. IsFiniteSet(Request) /\ Committed(l, x)' \subseteq Request
  BY ThrottleAssumption DEF Committed
<1>5. /\ Cardinality(Committed(l, x)') <= Cardinality(Request)
      /\ Cardinality(Committed(l, x)') \in Nat /\ Cardinality(Request) \in Nat
  BY <1>4, FS_Subset, FS_CardinalityType
<1> QED BY <1>1, <1>2, <1>3, <1>5, ThrottleAssumption DEF Within

\* A step that turns one committed login into one row.
LEMMA WithinRecords ==
  ASSUME TypeOK, TypeOK', NEW l, NEW x, Within(l, x),
         NEW r \in Committed(l, x), NEW a,
         Failures(l, x)' \subseteq Failures(l, x) \cup {a},
         Committed(l, x)' \subseteq Committed(l, x) \ {r}
  PROVE  Within(l, x)'
<1>1. IsFiniteSet(Failures(l, x)) /\ IsFiniteSet(Committed(l, x))
  BY Finite
<1>2. /\ IsFiniteSet(Failures(l, x) \cup {a})
      /\ Cardinality(Failures(l, x) \cup {a}) <= Cardinality(Failures(l, x)) + 1
  <2>1. Cardinality(Failures(l, x)) \in Nat
    BY <1>1, FS_CardinalityType
  <2>2. /\ IsFiniteSet(Failures(l, x) \cup {a})
        /\ \/ Cardinality(Failures(l, x) \cup {a}) = Cardinality(Failures(l, x))
           \/ Cardinality(Failures(l, x) \cup {a}) = Cardinality(Failures(l, x)) + 1
    BY <1>1, FS_AddElement
  <2> QED BY <2>1, <2>2
<1>3. /\ IsFiniteSet(Committed(l, x) \ {r})
      /\ Cardinality(Committed(l, x) \ {r}) = Cardinality(Committed(l, x)) - 1
  BY <1>1, FS_RemoveElement
<1>4. /\ Cardinality(Failures(l, x)') <= Cardinality(Failures(l, x) \cup {a})
      /\ Cardinality(Failures(l, x)') \in Nat
      /\ Cardinality(Failures(l, x) \cup {a}) \in Nat
  BY <1>2, FS_Subset, FS_CardinalityType
<1>5. /\ Cardinality(Committed(l, x)') <= Cardinality(Committed(l, x) \ {r})
      /\ Cardinality(Committed(l, x)') \in Nat
      /\ Cardinality(Committed(l, x) \ {r}) \in Nat
  BY <1>3, FS_Subset, FS_CardinalityType
<1>6. /\ Cardinality(Failures(l, x)) \in Nat /\ Cardinality(Committed(l, x)) \in Nat
      /\ Cardinality(Request) \in Nat /\ MaxAttempts \in Nat
  BY Finite, ThrottleAssumption
<1> QED BY <1>2, <1>3, <1>4, <1>5, <1>6 DEF Within

\* No row and no committed login is new.
Shrinks(l, x) == /\ Failures(l, x)' \subseteq Failures(l, x)
                 /\ Committed(l, x)' \subseteq Committed(l, x)

\* A committed login becomes a row, at most.
Lands(l, x) == \E r \in Committed(l, x), a \in Attempt :
                 /\ Failures(l, x)' \subseteq Failures(l, x) \cup {a}
                 /\ Committed(l, x)' \subseteq Committed(l, x) \ {r}

\* What a step does to the rows of an address and to the logins committed to it:
\* another login commits itself only when it finds the address below the limit.
LEMMA CommitStep ==
  ASSUME TypeOK, [Next]_vars, NEW l \in Limits, NEW x \in Email \cup IP
  PROVE  \/ Shrinks(l, x) \/ Lands(l, x)
         \/ failed' = failed /\ from' = from /\ ~Reached(Failures(l, x))
<1> USE DEF Shrinks
<1>2. CASE UNCHANGED vars
  BY <1>2 DEF vars, Failures, Committed
<1>3. ASSUME NEW r \in Request, Begin(r) PROVE Shrinks(l, x)
  BY <1>3 DEF TypeOK, Begin, Goto, Failures, Committed, Limits
<1>4. ASSUME NEW r \in Request, NEW k \in Limits, Count(r, k)
      PROVE  Shrinks(l, x) \/ (failed' = failed /\ from' = from /\ ~Reached(Failures(l, x)))
  <2>1. failed' = failed /\ from' = from /\ Failures(l, x)' = Failures(l, x)
    BY <1>4 DEF Count, Goto, Failures
  <2>2. CASE k = l /\ req[r].from[l] = x /\ ~Reached(Failures(l, x))
    BY <2>1, <2>2
  <2>3. CASE k # l \/ req[r].from[l] # x \/ Reached(Failures(l, x))
    <3> DEFINE over == req[r].over \/ Reached(Failures(k, req[r].from[k]))
    <3>1. /\ req[r].pc = "count" /\ k \in req[r].unread /\ req[r] \in Req
          /\ req' = [req EXCEPT ![r] = Counted(req[r], k, over)]
      BY <1>4 DEF Count, Goto, TypeOK
    <3>2. req[r].over => over
      OBVIOUS
    <3>3. k = l /\ req[r].from[l] = x => over
      BY <2>3
    <3> HIDE DEF over
    <3>4. r \in Committed(l, x)' => r \in Committed(l, x)
      <4>1. SUFFICES ASSUME r \in Committed(l, x)' PROVE r \in Committed(l, x)
        OBVIOUS
      <4>2. req'[r] = Counted(req[r], k, over)
        BY <3>1 DEF TypeOK
      <4>3. /\ req'[r].from[l] = x
            /\ \/ req'[r].pc \in {"compare", "record"}
               \/ req'[r].pc = "count" /\ l \notin req'[r].unread /\ ~req'[r].over
        BY <4>1 DEF Committed
      <4>4. CASE req[r].unread # {k}
        BY <3>1, <3>2, <3>3, <4>2, <4>3, <4>4 DEF Counted, Committed, Req
      <4>5. CASE req[r].unread = {k} /\ over
        BY <4>2, <4>3, <4>5 DEF Counted, Idle
      <4>6. CASE req[r].unread = {k} /\ ~over
        BY <3>1, <3>2, <3>3, <4>2, <4>3, <4>6 DEF Counted, Committed, Req
      <4> QED BY <4>4, <4>5, <4>6
    <3>5. \A p \in Request \ {r} : p \in Committed(l, x)' => p \in Committed(l, x)
      BY <3>1 DEF Committed, TypeOK
    <3> QED BY <2>1, <3>4, <3>5 DEF Committed
  <2> QED BY <2>2, <2>3
<1>5. ASSUME NEW r \in Request, Compare(r) PROVE Shrinks(l, x)
  BY <1>5 DEF TypeOK, Compare, Goto, Failures, Committed, Req
<1>6. ASSUME NEW r \in Request, Record(r)
      PROVE  Shrinks(l, x) \/ Lands(l, x)
  <2>1. PICK a \in Attempt \ failed : /\ failed' = failed \cup {a}
                                      /\ from' = [from EXCEPT ![a] = req[r].from]
    BY <1>6 DEF Record
  <2>2. req' = [req EXCEPT ![r] = Idle] /\ req[r].pc = "record"
    BY <1>6 DEF Record
  <2>3. Committed(l, x)' \subseteq Committed(l, x) \ {r}
    BY <2>2 DEF TypeOK, Committed, Idle
  <2>4. CASE req[r].from[l] = x
    BY <2>1, <2>2, <2>3, <2>4 DEF TypeOK, Failures, Committed, Lands
  <2>5. CASE req[r].from[l] # x
    BY <2>1, <2>3, <2>5 DEF TypeOK, Failures
  <2> QED BY <2>4, <2>5
<1>7. ASSUME NEW r \in Request, Open(r) \/ Abort(r) PROVE Shrinks(l, x)
  BY <1>7 DEF TypeOK, Open, Abort, Goto, Failures, Committed, Idle
<1>8. ASSUME NEW a \in Attempt, Expire(a) PROVE Shrinks(l, x)
  BY <1>8 DEF TypeOK, Expire, Failures, Committed, Req
<1> QED BY <1>2, <1>3, <1>4, <1>5, <1>6, <1>7, <1>8 DEF Next, Step

\* Every step keeps the failures and the committed logins within the bound.
LEMMA WithinStep ==
  TypeOK /\ TypeOK' /\ CommittedBounded /\ [Next]_vars => CommittedBounded'
<1> SUFFICES ASSUME TypeOK, TypeOK', CommittedBounded, [Next]_vars,
                    NEW l \in Limits, NEW x \in Email \cup IP
             PROVE  Within(l, x)'
  BY DEF CommittedBounded
<1>0. Within(l, x)
  BY DEF CommittedBounded
<1>1. CASE Shrinks(l, x)
  BY <1>0, <1>1, WithinShrinks DEF Shrinks
<1>2. CASE failed' = failed /\ from' = from /\ ~Reached(Failures(l, x))
  BY <1>2, WithinBelow
<1>3. CASE Lands(l, x)
  BY <1>0, <1>3, WithinRecords DEF Lands
<1> QED BY <1>1, <1>2, <1>3, CommitStep

\* Before the first login nothing has failed and nothing is committed.
LEMMA WithinInit == Init => CommittedBounded
<1> SUFFICES ASSUME Init, NEW l \in Limits, NEW x \in Email \cup IP
             PROVE  Within(l, x)
  BY DEF CommittedBounded
<1>1. Failures(l, x) = {} /\ Committed(l, x) = {}
  BY DEF Init, Failures, Committed, Idle
<1>2. Cardinality(Request) \in Nat
  BY ThrottleAssumption, FS_CardinalityType
<1> QED BY <1>1, <1>2, FS_EmptySet, ThrottleAssumption DEF Within

\* Overlapping logins exceed the limit of validateLoginAttempt by no more than
\* the logins in flight together, whatever the limit and however many they are.
THEOREM OvershootBounded == Spec => []FailuresBounded
<1>1. TypeOK /\ CommittedBounded => FailuresBounded
  <2> SUFFICES ASSUME TypeOK, CommittedBounded, NEW l \in Limits, NEW x \in Email \cup IP
               PROVE  Cardinality(Failures(l, x)) <= MaxAttempts - 1 + Cardinality(Request)
    BY DEF FailuresBounded
  <2>1. Within(l, x)
    BY DEF CommittedBounded
  <2>2. /\ Cardinality(Failures(l, x)) \in Nat /\ Cardinality(Committed(l, x)) \in Nat
        /\ Cardinality(Request) \in Nat /\ MaxAttempts \in Nat
    BY Finite, ThrottleAssumption
  <2> QED BY <2>1, <2>2 DEF Within
<1> QED BY <1>1, WithinInit, WithinStep, TypeCorrect, PTL DEF Spec

\* While an address is at its limit: the logins that may still add a failure to it
\* only become fewer, and each of them adds one row at most.
ShutAddressDrains ==
  \A l \in Limits, x \in Email \cup IP :
    Reached(Failures(l, x)) => Shrinks(l, x) \/ Lands(l, x)

\* The descent behind LimitLifts, without its fairness: at an address that has
\* reached its limit (validateLoginAttempt) no step lets another login through to the
\* record, whatever arrives, so only the finitely many that had passed before can
\* delay the moment at which the window has emptied.
THEOREM AddressesDrain == Spec => [][ShutAddressDrains]_vars
<1>1. TypeOK /\ [Next]_vars => [ShutAddressDrains]_vars
  BY CommitStep DEF ShutAddressDrains
<1> QED BY <1>1, TypeCorrect, PTL DEF Spec

(***************************************************************************)
(* No login passes a limit that stays reached.                             *)
(***************************************************************************)

\* A limit in the history of a login is still reached, and the login either has
\* yet to read its count or has already seen one that was too high.
Justified(q) ==
  \A l \in q.shut : /\ q.pc = "count"
                    /\ l \in Shut(q.from, failed)
                    /\ l \in q.unread \/ q.over

ShutInv == \A r \in Request : Justified(req[r])

\* More rows reach what fewer rows reach.
LEMMA ReachedGrows ==
  ASSUME NEW S \in SUBSET Attempt, NEW T \in SUBSET S, Reached(T)
  PROVE  Reached(S)
<1>1. IsFiniteSet(S)
  BY ThrottleAssumption, FS_Subset
<1>2. IsFiniteSet(T) /\ Cardinality(T) <= Cardinality(S)
  BY <1>1, FS_Subset
<1>3. Cardinality(T) \in Nat /\ Cardinality(S) \in Nat
  BY <1>1, <1>2, FS_CardinalityType
<1> QED BY <1>2, <1>3, ThrottleAssumption DEF Reached

\* A step that leaves the rows alone and one login justified.
LEMMA JustifiedGoto ==
  ASSUME TypeOK, ShutInv, NEW r \in Request, NEW q, Goto(r, q), Justified(q)
  PROVE  ShutInv'
<1>1. ASSUME NEW y PROVE Shut(y, failed)' = Shut(y, failed)
  BY DEF Goto, Shut, Failures, Reached
<1>2. ASSUME NEW p \in Request PROVE Justified(req'[p])
  BY DEF Goto, TypeOK, ShutInv
<1>3. ASSUME NEW p, Justified(p) PROVE Justified(p)'
  BY <1>1, <1>3 DEF Justified
<1> SUFFICES ASSUME NEW p \in Request PROVE Justified(req[p])'
  BY DEF ShutInv
<1>4. PICK y : y = req'[p]
  OBVIOUS
<1>5. Justified(y)'
  BY <1>2, <1>3, <1>4
<1> QED BY <1>4, <1>5 DEF Justified

\* Every step keeps the history of each login justified.
LEMMA ShutStep == TypeOK /\ TypeOK' /\ ShutInv /\ [Next]_vars => ShutInv'
<1> SUFFICES ASSUME TypeOK, TypeOK', ShutInv, [Next]_vars PROVE ShutInv'
  OBVIOUS
<1>1. CASE UNCHANGED vars
  BY <1>1 DEF vars, ShutInv, Justified, Shut, Failures, Reached
<1>2. ASSUME NEW r \in Request, Begin(r) PROVE ShutInv'
  <2>1. PICK e \in Email, i \in IP :
          Goto(r, [pc |-> "count", from |-> [email |-> e, ip |-> i], unread |-> Limits,
                   over |-> FALSE, shut |-> Shut([email |-> e, ip |-> i], failed)])
    BY <1>2 DEF Begin
  <2>2. Shut([email |-> e, ip |-> i], failed) \subseteq Limits
    BY DEF Shut
  <2>3. Justified([pc |-> "count", from |-> [email |-> e, ip |-> i], unread |-> Limits,
                   over |-> FALSE, shut |-> Shut([email |-> e, ip |-> i], failed)])
    BY <2>2 DEF Justified
  <2> QED BY <2>1, <2>3, JustifiedGoto
<1>3. ASSUME NEW r \in Request, NEW k \in Limits, Count(r, k) PROVE ShutInv'
  <2> DEFINE over == req[r].over \/ Reached(Failures(k, req[r].from[k]))
  <2>1. /\ req[r] \in Req /\ req[r].pc = "count" /\ k \in req[r].unread
        /\ Goto(r, Counted(req[r], k, over))
    BY <1>3 DEF Count, TypeOK
  <2>2. over \in BOOLEAN /\ (req[r].over => over)
    BY <2>1 DEF Req
  <2>3. Justified(req[r])
    BY DEF ShutInv
  <2>4. k \in req[r].shut => over
    <3>1. SUFFICES ASSUME k \in req[r].shut PROVE Reached(Failures(k, req[r].from[k]))
      OBVIOUS
    <3>2. Reached(Failures(k, req[r].from[k]) \cap failed)
      BY <2>3, <3>1 DEF Justified, Shut
    <3>3. Failures(k, req[r].from[k]) \cap failed = Failures(k, req[r].from[k])
      BY DEF Failures
    <3> QED BY <3>2, <3>3
  <2> HIDE DEF over
  <2>5. Justified(Counted(req[r], k, over))
    <3>1. CASE req[r].unread # {k}
      BY <2>1, <2>2, <2>3, <2>4, <3>1 DEF Counted, Req, Justified
    <3>2. CASE req[r].unread = {k} /\ over
      BY <3>2 DEF Counted, Idle, Justified
    <3>3. CASE req[r].unread = {k} /\ ~over
      <4>1. req[r].shut = {}
        BY <2>2, <2>3, <2>4, <3>3 DEF Justified
      <4> QED BY <2>1, <3>3, <4>1 DEF Counted, Req, Justified
    <3> QED BY <3>1, <3>2, <3>3
  <2> QED BY <2>1, <2>5, JustifiedGoto
<1>4. ASSUME NEW r \in Request, Compare(r) PROVE ShutInv'
  <2>1. PICK pc \in {"record", "open"} : Goto(r, [req[r] EXCEPT !.pc = pc])
    BY <1>4 DEF Compare
  <2>2. req[r] \in Req /\ req[r].pc = "compare" /\ Justified(req[r])
    BY <1>4 DEF Compare, TypeOK, ShutInv
  <2>3. req[r].shut = {}
    BY <2>2 DEF Justified
  <2>4. Justified([req[r] EXCEPT !.pc = pc])
    BY <2>2, <2>3 DEF Justified, Req
  <2> QED BY <2>1, <2>4, JustifiedGoto
<1>5. ASSUME NEW r \in Request, Record(r) PROVE ShutInv'
  <2>1. PICK a \in Attempt \ failed : /\ failed' = failed \cup {a}
                                      /\ from' = [from EXCEPT ![a] = req[r].from]
    BY <1>5 DEF Record
  <2>2. req' = [req EXCEPT ![r] = Idle]
    BY <1>5 DEF Record
  <2>3. ASSUME NEW l, NEW y
        PROVE  Failures(l, y) \cap failed \subseteq Failures(l, y)' \cap failed'
    BY <2>1 DEF TypeOK, Failures
  <2>4. ASSUME NEW y PROVE Shut(y, failed) \subseteq Shut(y, failed)'
    <3>1. SUFFICES ASSUME NEW l \in Limits, Reached(Failures(l, y[l]) \cap failed)
                   PROVE  Reached(Failures(l, y[l])' \cap failed')
      BY DEF Shut, Reached
    <3>2. failed' \subseteq Attempt
      BY DEF TypeOK
    <3> QED BY <2>3, <3>1, <3>2, ReachedGrows
  <2> SUFFICES ASSUME NEW p \in Request PROVE Justified(req[p])'
    BY DEF ShutInv
  <2>5. CASE p = r
    BY <2>2, <2>5 DEF TypeOK, Idle, Justified
  <2>6. CASE p # r
    <3>1. req'[p] = req[p] /\ Justified(req[p])
      BY <2>2, <2>6 DEF TypeOK, ShutInv
    <3>2. PICK q : q = req[p]
      OBVIOUS
    <3>3. Justified(q)'
      BY <2>4, <3>1, <3>2 DEF Justified
    <3> QED BY <3>1, <3>2, <3>3 DEF Justified
  <2> QED BY <2>5, <2>6
<1>6. ASSUME NEW r \in Request, Open(r) \/ Abort(r) PROVE ShutInv'
  <2>1. Goto(r, Idle)
    BY <1>6 DEF Open, Abort
  <2>2. Justified(Idle)
    BY DEF Idle, Justified
  <2> QED BY <2>1, <2>2, JustifiedGoto
<1>7. ASSUME NEW a \in Attempt, Expire(a) PROVE ShutInv'
  <2>1. /\ failed' = failed \ {a} /\ from' = [from EXCEPT ![a] = Nowhere]
        /\ req' = [r \in Request |->
             [req[r] EXCEPT !.shut = @ \cap Shut(req[r].from, failed \ {a})]]
    BY <1>7 DEF Expire
  <2>2. ASSUME NEW l, NEW y
        PROVE  Failures(l, y)' \cap failed' = Failures(l, y) \cap (failed \ {a})
    BY <2>1 DEF TypeOK, Failures
  <2>3. ASSUME NEW y PROVE Shut(y, failed)' = Shut(y, failed \ {a})
    BY <2>2 DEF Shut, Reached
  <2> SUFFICES ASSUME NEW p \in Request PROVE Justified(req[p])'
    BY DEF ShutInv
  <2>4. req[p] \in Req /\ Justified(req[p])
    BY DEF TypeOK, ShutInv
  <2>5. PICK q : q = [req[p] EXCEPT !.shut = @ \cap Shut(req[p].from, failed \ {a})]
    OBVIOUS
  <2>6. /\ q.pc = req[p].pc /\ q.from = req[p].from
        /\ q.unread = req[p].unread /\ q.over = req[p].over
        /\ q.shut = req[p].shut \cap Shut(q.from, failed \ {a})
    BY <2>4, <2>5 DEF Req
  <2>7. Justified(q)'
    BY <2>3, <2>4, <2>6 DEF Justified
  <2>8. req'[p] = q
    BY <2>1, <2>5
  <2> QED BY <2>7, <2>8 DEF Justified
<1> QED BY <1>1, <1>2, <1>3, <1>4, <1>5, <1>6, <1>7 DEF Next, Step

\* A login whose address stays at its limit (AuthService.login) never gets to
\* the password comparison or to a session.
THEOREM ShutAddressesStayOut == Spec => []NothingPassesWhileShut
<1>1. Init => ShutInv
  BY DEF Init, ShutInv, Justified, Idle
<1>2. ShutInv => NothingPassesWhileShut
  BY DEF ShutInv, Justified, NothingPassesWhileShut
<1> QED BY <1>1, <1>2, ShutStep, TypeCorrect, PTL DEF Spec

(***************************************************************************)
(* Menus.                                                                  *)
(***************************************************************************)

\* Whatever is written to menus and items, an item that exists names a menu
\* that exists and a parent that exists, and a row that is gone names neither.
LEMMA NavTypeStep == NavTypeOK /\ [NavNext]_navVars => NavTypeOK'
<1> SUFFICES ASSUME NavTypeOK, [NavNext]_navVars PROVE NavTypeOK'
  OBVIOUS
<1> USE NavAssumption DEF NavTypeOK, Items
<1>m. NavChange => navMoves' \in 0..MaxMoves
  BY DEF NavChange
<1>1. ASSUME NEW m \in Menu, CreateMenu(m) PROVE NavTypeOK'
  BY <1>1, <1>m DEF CreateMenu
<1>2. ASSUME NEW m \in Menu, DeleteMenu(m) PROVE NavTypeOK'
  <2> DEFINE gone == {i \in Item : navMenu[i] = m}
  <2>1. /\ menus' = menus \ {m} /\ navMoves' \in 0..MaxMoves /\ UNCHANGED navReq
        /\ navMenu' = [i \in Item |-> IF navMenu[i] = m THEN NONE ELSE navMenu[i]]
        /\ navParent' = [i \in Item |-> IF i \in gone \/ navParent[i] \in gone THEN NONE
                                        ELSE navParent[i]]
    BY <1>2, <1>m DEF DeleteMenu, Cleared
  <2>2. Items' = Items \ gone
    BY <1>2, <2>1 DEF DeleteMenu
  <2>3. navParent' \in [Item -> Items' \cup {NONE}]
    BY <2>1, <2>2
  <2>4. navMenu' \in [Item -> menus' \cup {NONE}]
    BY <2>1
  <2>5. \A i \in Item \ Items' : navParent'[i] = NONE
    BY <2>1, <2>2
  <2> QED BY <2>1, <2>3, <2>4, <2>5
<1>3. ASSUME NEW i \in Item, CreateItem(i) \/ UpdateItem(i) PROVE NavTypeOK'
  <2>1. PICK m \in menus, p \in Items \cup {NONE} :
          /\ navMenu' = [navMenu EXCEPT ![i] = m]
          /\ navParent' = [navParent EXCEPT ![i] = p]
    BY <1>3 DEF CreateItem, UpdateItem
  <2>2. navMoves' \in 0..MaxMoves /\ UNCHANGED <<menus, navReq>>
    BY <1>3, <1>m DEF CreateItem, UpdateItem
  <2>3. Items' = Items \cup {i}
    BY <2>1
  <2> QED BY <2>1, <2>2, <2>3
<1>4. ASSUME NEW i \in Item, DeleteItem(i) PROVE NavTypeOK'
  <2>1. /\ navMenu' = [navMenu EXCEPT ![i] = NONE] /\ UNCHANGED <<menus, navReq>>
        /\ navParent' = [j \in Item |-> IF j \in {i} \/ navParent[j] \in {i} THEN NONE
                                        ELSE navParent[j]]
        /\ navMoves' \in 0..MaxMoves
    BY <1>4, <1>m DEF DeleteItem, Cleared
  <2>2. Items' = Items \ {i}
    BY <2>1
  <2>3. navParent' \in [Item -> Items' \cup {NONE}]
    BY <2>1, <2>2
  <2>4. \A j \in Item \ Items' : navParent'[j] = NONE
    BY <2>1, <2>2
  <2> QED BY <2>1, <2>3, <2>4
<1>5. ASSUME NEW r \in Request, BeginBreadcrumb(r) \/ Breadcrumb(r) PROVE NavTypeOK'
  <2>1. UNCHANGED navRows
    BY <1>5 DEF BeginBreadcrumb, Breadcrumb
  <2>2. navReq' \in [Request -> Item \cup {NONE}]
    BY <1>5 DEF BeginBreadcrumb, Breadcrumb, NextCrumb
  <2> QED BY <2>1, <2>2 DEF navRows
<1>6. CASE UNCHANGED navVars
  BY <1>6 DEF navVars, navRows
<1> QED BY <1>1, <1>2, <1>3, <1>4, <1>5, <1>6 DEF NavNext

\* A menu item never names a menu or a parent that is gone, whatever is created,
\* moved and deleted, menus with all their items included.
THEOREM NavTypeCorrect == NavSpec => []NavTypeOK
<1>1. NavInit => NavTypeOK
  BY NavAssumption DEF NavInit, NavTypeOK, Items
<1> QED BY <1>1, NavTypeStep, PTL DEF NavSpec

\* The rows above a row that has a parent: the parent, and those above the parent.
LEMMA AboveParent ==
  ASSUME NEW D, NEW p \in [D -> D \cup {NONE}], NONE \notin D, NEW x \in D, p[x] # NONE
  PROVE  p[x] \in D /\ Above(p, x) = {p[x]} \cup Above(p, p[x])
<1> DEFINE Closed(C) == \A z \in C : p[z] \in C \cup {NONE}
           y == p[x]
<1>0. DOMAIN p = D /\ y \in D
  OBVIOUS
<1>1. ASSUME NEW w \in D
      PROVE  /\ Above(p, w) \subseteq D
             /\ \A v \in D : v \in Above(p, w)
                  <=> \A C \in SUBSET D : Closed(C) /\ p[w] \in C \cup {NONE} => v \in C
  BY <1>0 DEF Above
<1>2. ASSUME NEW v \in Above(p, x) PROVE v \in {y} \cup Above(p, y)
  <2>1. ASSUME NEW z \in {y} \cup Above(p, y) PROVE p[z] \in Above(p, y) \cup {NONE}
    <3>1. z \in D
      BY <1>0, <1>1, <2>1
    <3> SUFFICES ASSUME p[z] # NONE, NEW C \in SUBSET D, Closed(C), p[y] \in C \cup {NONE}
                 PROVE  p[z] \in C
      BY <1>0, <1>1, <3>1
    <3> QED BY <1>0, <1>1, <2>1, <3>1
  <2>2. {y} \cup Above(p, y) \in SUBSET D /\ Closed({y} \cup Above(p, y))
    BY <1>0, <1>1, <2>1
  <2> HIDE DEF Closed
  <2> QED BY <1>1, <2>2
<1>3. ASSUME NEW v \in {y} \cup Above(p, y) PROVE v \in Above(p, x)
  <2>1. v \in D
    BY <1>0, <1>1
  <2> SUFFICES ASSUME NEW C \in SUBSET D, Closed(C), y \in C \cup {NONE} PROVE v \in C
    BY <1>1, <2>1
  <2>2. y \in C /\ p[y] \in C \cup {NONE}
    OBVIOUS
  <2> HIDE DEF Closed
  <2> QED BY <1>0, <1>1, <2>1, <2>2
<1> QED BY <1>0, <1>2, <1>3

\* A cycle among the items above the one that a breadcrumb has reached.
CycleAbove(i) == \E j \in Above(navParent, i) \cup {i} : OnCycle(navParent, j)

\* How many items a breadcrumb has yet to read.
Ahead(i) == Cardinality(Above(navParent, i))

\* A turn of the loop leaves fewer items to read.
LEMMA TurnClimbs ==
  ASSUME NavTypeOK, NEW i \in Item, navParent[i] # NONE, ~CycleAbove(i)
  PROVE  /\ Ahead(navParent[i]) \in Nat /\ Ahead(i) \in Nat
         /\ Ahead(navParent[i]) < Ahead(i)
<1> DEFINE j == navParent[i]
<1>1. navParent \in [Item -> Item \cup {NONE}] /\ NONE \notin Item /\ IsFiniteSet(Item)
  BY NavAssumption DEF NavTypeOK, Items
<1>2. j \in Item /\ Above(navParent, i) = {j} \cup Above(navParent, j)
  BY <1>1, AboveParent
<1>3. j \notin Above(navParent, j)
  BY <1>2 DEF CycleAbove, OnCycle
<1>4. Above(navParent, i) \subseteq Item /\ Above(navParent, j) \subseteq Item
  BY <1>1 DEF Above
<1>5. IsFiniteSet(Above(navParent, i)) /\ IsFiniteSet(Above(navParent, j))
  BY <1>1, <1>4, FS_Subset
<1>6. Ahead(j) = Cardinality(Above(navParent, i) \ {j})
  BY <1>2, <1>3 DEF Ahead
<1>7. j \in Above(navParent, i)
  BY <1>2
<1>8. Cardinality(Above(navParent, i) \ {j}) = Cardinality(Above(navParent, i)) - 1
  BY <1>5, <1>7, FS_RemoveElement
<1>9. Ahead(i) \in Nat /\ Ahead(j) \in Nat
  BY <1>5, FS_CardinalityType DEF Ahead
<1> QED BY <1>6, <1>8, <1>9 DEF Ahead

\* getBreadcrumb: below no cycle, whatever happens next is a change of the menus,
\* which is counted, or leaves every item where it is; then the breadcrumb stays
\* where it is, ends, or has fewer items to read than before.
BreadcrumbsClimb ==
  \A r \in Request :
    navReq[r] # NONE /\ ~CycleAbove(navReq[r]) =>
      \/ navMoves' = navMoves + 1 /\ navMoves < MaxMoves
      \/ /\ UNCHANGED navRows
         /\ \/ navReq'[r] \in {navReq[r], NONE}
            \/ Ahead(navReq[r])' < Ahead(navReq[r]) /\ Ahead(navReq[r])' \in Nat

\* What one step does to the breadcrumbs in flight.
LEMMA ClimbStep == NavTypeOK /\ [NavNext]_navVars => [BreadcrumbsClimb]_navVars
<1> SUFFICES ASSUME NavTypeOK, NavNext, NEW r \in Request,
                    navReq[r] # NONE, ~CycleAbove(navReq[r])
             PROVE  \/ navMoves' = navMoves + 1 /\ navMoves < MaxMoves
                    \/ /\ UNCHANGED navRows
                       /\ \/ navReq'[r] \in {navReq[r], NONE}
                          \/ Ahead(navReq[r])' < Ahead(navReq[r]) /\ Ahead(navReq[r])' \in Nat
  BY DEF BreadcrumbsClimb
<1>1. ASSUME NEW m \in Menu, CreateMenu(m) \/ DeleteMenu(m)
      PROVE  navMoves' = navMoves + 1 /\ navMoves < MaxMoves
  BY <1>1 DEF CreateMenu, DeleteMenu, NavChange
<1>2. ASSUME NEW i \in Item, CreateItem(i) \/ UpdateItem(i) \/ DeleteItem(i)
      PROVE  navMoves' = navMoves + 1 /\ navMoves < MaxMoves
  BY <1>2 DEF CreateItem, UpdateItem, DeleteItem, NavChange
<1>3. ASSUME NEW q \in Request, q # r, BeginBreadcrumb(q) \/ Breadcrumb(q)
      PROVE  UNCHANGED navRows /\ navReq'[r] = navReq[r]
  BY <1>3 DEF BeginBreadcrumb, Breadcrumb, NavTypeOK
<1>4. CASE Breadcrumb(r)
  <2> DEFINE i == navReq[r]
  <2>1. /\ UNCHANGED navRows /\ navReq'[r] = navParent[i] /\ i \in Item
        /\ navParent' = navParent
    BY <1>4 DEF Breadcrumb, NextCrumb, NavTypeOK, navRows
  <2>2. CASE navParent[i] = NONE
    BY <2>1, <2>2
  <2>3. CASE navParent[i] # NONE
    <3>1. /\ Ahead(navParent[i]) \in Nat /\ Ahead(i) \in Nat
          /\ Ahead(navParent[i]) < Ahead(i)
      BY <2>1, <2>3, TurnClimbs
    <3>2. Ahead(navReq[r])' = Ahead(navParent[i])
      BY <2>1 DEF Ahead
    <3> QED BY <2>1, <3>1, <3>2
  <2> QED BY <2>2, <2>3
<1>5. ~BeginBreadcrumb(r)
  BY DEF BeginBreadcrumb
<1> QED BY <1>1, <1>2, <1>3, <1>4, <1>5 DEF NavNext

\* The safety half of BreadcrumbsEnd (MenuItemService.getBreadcrumb), for any number
\* of items, changes and requests: the pair of the changes still to come and the items
\* still ahead decreases with every turn and grows with no step, so a breadcrumb that
\* Node resumes again and again comes to an end.
THEOREM BreadcrumbsAdvance == NavSpec => [][BreadcrumbsClimb]_navVars
  BY ClimbStep, NavTypeCorrect, PTL DEF NavSpec

(***************************************************************************)
(* Routes.                                                                 *)
(***************************************************************************)

\* A walk over the layers stays among them.
LEMMA RouterTypeStep == RouterTypeOK /\ [RouterNext]_routerVars => RouterTypeOK'
<1> SUFFICES ASSUME RouterTypeOK, [RouterNext]_routerVars PROVE RouterTypeOK'
  OBVIOUS
<1> DEFINE n == Len(Layers)
<1>0. n \in Nat
  BY RouterAssumption
<1> HIDE DEF n
<1>t. asked \in 0..(n + 1) /\ layer \in 0..(n + 1) /\ answer \in Answers
  BY DEF RouterTypeOK, NoAsk, n
<1>g. asked' \in 0..(n + 1) /\ layer' \in 0..(n + 1) /\ answer' \in Answers => RouterTypeOK'
  BY DEF RouterTypeOK, NoAsk, n
<1>1. CASE Ask \/ Pass
  <2>1. Ask => asked' \in 0..n /\ layer' = 1 /\ UNCHANGED answer
    BY DEF Ask, n
  <2>2. Pass => layer <= n /\ layer' = layer + 1 /\ UNCHANGED <<asked, answer>>
    BY DEF Pass, n
  <2> QED BY <1>0, <1>1, <1>t, <1>g, <2>1, <2>2
<1>2. CASE NotFound
  BY <1>2, <1>t, <1>g DEF NotFound, Answers
<1>3. CASE Serve
  BY <1>3, <1>t, <1>g DEF Serve, Verdict, Answers
<1>4. CASE EndAsk
  <2>1. asked' = n + 1 /\ layer' = 0 /\ answer' = "none"
    BY <1>4 DEF EndAsk, NoAsk, n
  <2> QED BY <1>0, <1>g, <2>1 DEF Answers
<1>5. CASE UNCHANGED routerVars
  BY <1>5, <1>t, <1>g DEF routerVars
<1> QED BY <1>1, <1>2, <1>3, <1>4, <1>5 DEF RouterNext

\* Every request is walked along the declared layers and gets one of the answers.
THEOREM RouterTypeCorrect == RouterSpec => []RouterTypeOK
<1>1. RouterInit => RouterTypeOK
  BY RouterAssumption DEF RouterInit, RouterTypeOK, NoAsk, Answers
<1> QED BY <1>1, RouterTypeStep, PTL DEF RouterSpec

\* The layers that the walk has passed do not fit the request; the one that
\* answers a request fits it.
Passed ==
  /\ asked \in 1..Len(Layers) =>
       /\ layer \in 1..asked
       /\ \A k \in 1..(layer - 1) : ~Fits(Layers[k], Layers[asked])
       /\ answer # "none" => answer # "not found" /\ Fits(Layers[layer], Layers[asked])
  /\ asked = NoAsk => answer = "none"

\* A walk passes a layer only when it does not fit, and comes no further than the
\* layer that the client means.
LEMMA PassedStep == RouterTypeOK /\ Passed /\ [RouterNext]_routerVars => Passed'
<1> SUFFICES ASSUME RouterTypeOK, Passed, [RouterNext]_routerVars PROVE Passed'
  OBVIOUS
<1> DEFINE n == Len(Layers)
<1>0. n \in Nat /\ NoAsk = n + 1
  BY RouterAssumption DEF NoAsk
<1>n. n + 1 \notin 1..n /\ \A a \in 1..n : \A l \in 1..a : l <= n
  <2> HIDE DEF n
  <2> QED BY <1>0
<1>s. \A r : Fits(r, r)
  BY DEF Fits
<1>1. CASE Ask
  <2>1. layer' = 1 /\ answer' = "none"
    BY <1>1 DEF Ask, Passed
  <2>2. asked' \in 1..n => 1 \in 1..asked'
    <3> HIDE DEF n
    <3> QED BY <1>0
  <2>3. \A k \in 1..(1 - 1) : FALSE
    OBVIOUS
  <2> QED BY <2>1, <2>2, <2>3 DEF Passed
<1>2. CASE Pass
  <2>1. /\ asked' = asked /\ asked # NoAsk /\ layer' = layer + 1 /\ answer' = "none"
        /\ asked \in 1..n => ~Fits(Layers[layer], Layers[asked])
    <3>1. asked \in 1..n => asked # 0
      <4> HIDE DEF n
      <4> QED BY <1>0
    <3> QED BY <1>2, <3>1 DEF Pass, Walking, LayerFits
  <2> SUFFICES ASSUME asked \in 1..n
               PROVE  /\ layer' \in 1..asked
                      /\ \A k \in 1..(layer' - 1) : ~Fits(Layers[k], Layers[asked])
    BY <2>1 DEF Passed
  <2>2. layer # asked
    BY <1>s, <2>1
  <2>3. layer \in 1..asked /\ \A k \in 1..(layer - 1) : ~Fits(Layers[k], Layers[asked])
    BY DEF Passed
  <2>4. layer + 1 \in 1..asked /\ \A k \in 1..(layer + 1 - 1) : k \in 1..(layer - 1) \/ k = layer
    <3>1. asked \in Nat /\ layer \in Nat
      <4> HIDE DEF n
      <4> QED BY <1>0, <2>3
    <3> QED BY <3>1, <2>2, <2>3
  <2> QED BY <2>1, <2>3, <2>4
<1>3. CASE NotFound
  <2>1. layer > n /\ asked # NoAsk /\ UNCHANGED <<asked, layer>>
    BY <1>3 DEF NotFound, Walking
  <2>2. asked \in 1..n => layer \in 1..asked /\ layer <= n
    BY <1>n DEF Passed
  <2>3. ~(asked \in 1..n)
    <3>1. layer \in Nat \/ ~(asked \in 1..n)
      <4> HIDE DEF n
      <4> QED BY <1>0, <2>2
    <3> HIDE DEF n
    <3> QED BY <1>0, <2>1, <2>2, <3>1
  <2> QED BY <2>1, <2>3 DEF Passed
<1>4. CASE Serve
  <2>1. /\ asked' = asked /\ asked # NoAsk /\ layer' = layer
        /\ Fits(Layers[layer], Layers[asked]) /\ answer' # "not found"
    BY <1>4 DEF Serve, Walking, LayerFits, Verdict
  <2> QED BY <2>1 DEF Passed
<1>5. CASE EndAsk
  <2>1. asked' = n + 1 /\ answer' = "none"
    BY <1>0, <1>5 DEF EndAsk
  <2> QED BY <1>n, <2>1 DEF Passed
<1>6. CASE UNCHANGED routerVars
  BY <1>6 DEF routerVars, Passed
<1> QED BY <1>1, <1>2, <1>3, <1>4, <1>5, <1>6 DEF RouterNext

\* The walk keeps to the order of the table, whatever the table holds: a layer is
\* passed only when it does not fit, and the layer that answers fits.
LEMMA FirstLayerAnswers == RouterSpec => []Passed
<1>1. RouterInit => Passed
  <2>1. Len(Layers) + 1 \notin 1..Len(Layers)
    <3> DEFINE n == Len(Layers)
    <3>1. n \in Nat
      BY RouterAssumption
    <3> HIDE DEF n
    <3>2. n + 1 \notin 1..n
      BY <3>1
    <3> QED BY <3>2 DEF n
  <2> QED BY <2>1 DEF RouterInit, Passed, NoAsk
<1> QED BY <1>1, PassedStep, RouterTypeCorrect, PTL DEF RouterSpec

\* Layer j is the first of the layers that fit the requests for route i.
FirstFit(i, j) == /\ Fits(Layers[j], Layers[i])
                  /\ \A k \in 1..(j - 1) : ~Fits(Layers[k], Layers[i])

\* The declared routes, without any request: each of them is hidden or shares the
\* handler of the first layer that fits it.
TableKnown ==
  \A i, j \in 1..Len(Layers) :
    FirstFit(i, j) => Hidden(i) \/ Layers[j].handler = Layers[i].handler

\* A path that nobody declares fits no layer.
UnknownUnserved == asked = 0 => answer \in {"none", "not found"}

\* The walk adds nothing to the table: when all the routes that stand below another
\* one that fits their requests are listed (app.module, the controllers), then every
\* request for a route that is not listed is answered by the handler it is meant for,
\* and a path that nobody declares by nobody.  The hypothesis has no variable: it is
\* what TLC computes for the declared routes when it checks the same property.
THEOREM DispatchFollowsTheTable == TableKnown => (RouterSpec => []OnlyKnownRoutesHidden)
<1> SUFFICES ASSUME TableKnown PROVE RouterSpec => []OnlyKnownRoutesHidden
  OBVIOUS
<1>1. RouterInit => UnknownUnserved
  BY DEF RouterInit, UnknownUnserved
<1>2. Passed /\ UnknownUnserved /\ [RouterNext]_routerVars => UnknownUnserved'
  <2>1. NoAsk # 0
    <3> DEFINE n == Len(Layers)
    <3>1. n \in Nat
      BY RouterAssumption
    <3> HIDE DEF n
    <3>2. n + 1 # 0
      BY <3>1
    <3> QED BY <3>2 DEF NoAsk, n
  <2>2. Passed /\ asked = NoAsk => answer = "none"
    BY DEF Passed
  <2> QED BY <2>1, <2>2 DEF UnknownUnserved, RouterNext, routerVars, Ask, Pass, NotFound,
                            Serve, EndAsk, LayerFits
<1>3. RouterTypeOK /\ Passed /\ UnknownUnserved => OnlyKnownRoutesHidden
  <2> DEFINE n == Len(Layers)
  <2> SUFFICES ASSUME RouterTypeOK, Passed, UnknownUnserved, asked # NoAsk, asked # 0
               PROVE  Hidden(asked) \/ ServedAsAsked
    BY DEF OnlyKnownRoutesHidden, UnknownUnserved, ServedAsAsked
  <2>1. asked \in 1..n
    <3>1. n \in Nat /\ asked \in 0..(n + 1) /\ asked # n + 1
      BY RouterAssumption DEF RouterTypeOK, NoAsk
    <3> HIDE DEF n
    <3> QED BY <3>1
  <2>2. /\ layer \in 1..asked
        /\ \A k \in 1..(layer - 1) : ~Fits(Layers[k], Layers[asked])
        /\ answer # "none" => answer # "not found" /\ Fits(Layers[layer], Layers[asked])
    BY <2>1 DEF Passed
  <2>3. layer \in 1..n
    <3>1. n \in Nat
      BY RouterAssumption
    <3>2. \A a \in 1..n : \A k \in 1..a : k \in 1..n
      <4> HIDE DEF n
      <4> QED BY <3>1
    <3> QED BY <3>2, <2>1, <2>2
  <2>4. CASE answer = "none"
    BY <2>4 DEF ServedAsAsked
  <2>5. CASE answer # "none"
    <3>1. FirstFit(asked, layer)
      BY <2>2, <2>5 DEF FirstFit
    <3>2. Hidden(asked) \/ Layers[layer].handler = Layers[asked].handler
      BY <2>1, <2>3, <3>1 DEF TableKnown
    <3> QED BY <2>2, <2>5, <3>2 DEF ServedAsAsked
  <2> QED BY <2>4, <2>5
<1> QED BY <1>1, <1>2, <1>3, RouterTypeCorrect, FirstLayerAnswers, PTL DEF RouterSpec

(***************************************************************************)
(* Logins, menus and routes together.                                      *)
(***************************************************************************)

\* The server answers requests of all three kinds at once: between two steps of a
\* login come any steps of breadcrumbs and of the dispatch, each on variables of its
\* own.  In a behaviour of ReadsSpec only one of the three moves.
TogetherNext == \/ Next /\ UNCHANGED <<navVars, routerVars>>
                \/ NavNext /\ UNCHANGED <<vars, routerVars>>
                \/ RouterNext /\ UNCHANGED <<vars, navVars>>

togetherVars == <<vars, navVars, routerVars>>

TogetherSpec == Init /\ NavInit /\ RouterInit /\ [][TogetherNext]_togetherVars

\* Each step is, for each of the three, a step of its own or none.
LEMMA TogetherSteps ==
  [TogetherNext]_togetherVars => [Next]_vars /\ [NavNext]_navVars /\ [RouterNext]_routerVars
  BY DEF TogetherNext, togetherVars

\* What TLC explores is part of what the theorems below speak of.
LEMMA ReadsRunIsTogether == ReadsSpec => TogetherSpec
<1>1. ReadsInit => Init /\ NavInit /\ RouterInit
  BY DEF ReadsInit
<1>2. [ReadsNext]_readsVars => [TogetherNext]_togetherVars
  BY DEF ReadsNext, readsVars, StepOf, TogetherNext, togetherVars
<1> QED BY <1>1, <1>2, PTL DEF ReadsSpec, TogetherSpec

\* Logins, menu items, breadcrumbs and requests in dispatch are well formed in
\* every reachable state, with the steps of all of them interleaved.
THEOREM ReadsTypeCorrect == TogetherSpec => []ReadsTypeOK
<1>1. NavInit => NavTypeOK
  BY NavAssumption DEF NavInit, NavTypeOK, Items
<1>2. RouterInit => RouterTypeOK
  BY RouterAssumption DEF RouterInit, RouterTypeOK, NoAsk, Answers
<1>3. ReadsTypeOK <=> TypeOK /\ NavTypeOK /\ RouterTypeOK
  BY DEF ReadsTypeOK
<1> QED BY <1>1, <1>2, <1>3, TogetherSteps, TypeCorrect, NavTypeStep, RouterTypeStep, PTL
        DEF TogetherSpec, Spec

\* With the steps of logins, menus and dispatch interleaved: logins are limited, a
\* shut address stays shut, breadcrumbs climb, and only known routes are hidden when
\* the table hides no others (auth.service.ts, menu-item.service.ts, the controllers).
\* It is everything but liveness that the run of the three checks.
THEOREM ReadsAreSafe ==
  TableKnown =>
    (TogetherSpec =>
       /\ [](FailuresBounded /\ NothingPassesWhileShut /\ OnlyKnownRoutesHidden)
       /\ [][ShutAddressDrains]_vars /\ [][BreadcrumbsClimb]_navVars)
<1>1. TogetherSpec => Spec /\ RouterSpec
  BY TogetherSteps, PTL DEF TogetherSpec, Spec, RouterSpec
<1>2. ReadsTypeOK /\ [TogetherNext]_togetherVars => [BreadcrumbsClimb]_navVars
  BY TogetherSteps, ClimbStep DEF ReadsTypeOK
<1>3. TogetherSpec => [][BreadcrumbsClimb]_navVars
  BY <1>2, ReadsTypeCorrect, PTL DEF TogetherSpec
<1> QED BY <1>1, <1>3, OvershootBounded, ShutAddressesStayOut, DispatchFollowsTheTable,
           AddressesDrain, PTL
=============================================================================

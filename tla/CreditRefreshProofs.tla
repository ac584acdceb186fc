------------------------- MODULE CreditRefreshProofs -------------------------
(***************************************************************************)
(* Theorems about CreditRefresh, for any number of refreshes and requests  *)
(* and any bounds.                                                         *)
(***************************************************************************)
EXTENDS CreditRefresh, TLAPS

-----------------------------------------------------------------------------
(* Type correctness.                                                       *)

LEMMA IdleQueryType == IdleQuery \in QueryState
  BY DEF IdleQuery, QueryState, NoReply, History

\* What TypeOK says of the columns that refreshes and requests copy.
LEMMA Columns ==
  ASSUME TypeOK
  PROVE  /\ row.credential \in Nat /\ row.revision \in Nat
         /\ row.operation \in Request \union {NoOperation}
         /\ row.credential + 1 \in Nat /\ row.revision + 1 \in Nat
         /\ boundaries + 1 \in Nat
  BY DEF TypeOK, Row

LEMMA ZeroPeriod == 0 \in Period /\ 0 \in Consumed
  BY BoundsNatural DEF Period, Consumed

LEMMA StatusType ==
  /\ "unknown" \in Status /\ "refreshing" \in Status /\ "ready" \in Status
  /\ "stale" \in Status /\ "no_operation" \in Status
  /\ "unsupported" \in Status /\ "error" \in Status
  /\ Downgraded \in Status
  BY DEF Downgraded, Status

\* What TypeOK says of the local state of one refresh.
LEMMA QueryColumns ==
  ASSUME TypeOK, NEW q \in Query
  PROVE  /\ query[q] \in QueryState
         /\ query[q].credential \in Nat /\ query[q].revision + 1 \in Nat
         /\ query[q].asked \in History
         /\ query[q].reply.kind = "balance" => query[q].reply \in Balance
  BY DEF TypeOK, QueryState, Balance, Refusal, NoReply

LEMMA ReplyType ==
  ASSUME TypeOK, NEW q \in Query, query[q].reply.kind = "balance"
  PROVE  /\ query[q].reply.consumed \in Consumed
         /\ PeriodAfter(query[q].reply) \in Period
  BY QueryColumns, BoundsNatural DEF TypeOK, Row, Balance, Period, PeriodAfter

LEMMA BoundaryType ==
  ASSUME TypeOK, NEW operation \in Request \union {NoOperation}, Boundary(operation)
  PROVE  row' \in Row /\ boundaries' \in Nat
<1>1. row \in Row
  BY DEF TypeOK
<1>2. QED
  BY <1>1, Columns, StatusType DEF Boundary, Row

\* A refresh that takes a well-typed local state keeps them all well typed.
LEMMA BecomeType ==
  ASSUME TypeOK, NEW q \in Query, NEW state \in QueryState, Become(q, state)
  PROVE  query' \in [Query -> QueryState]
  BY DEF TypeOK, Become

LEMMA GotoType ==
  ASSUME TypeOK, NEW q \in Query, Goto(q, "recovering") \/ Goto(q, "fallingBack")
                 \/ Goto(q, "refused") \/ Goto(q, "releasing")
  PROVE  query' \in [Query -> QueryState]
  BY BecomeType DEF Goto, TypeOK, QueryState

LEMMA FinishType ==
  ASSUME TypeOK, NEW q \in Query, Finish(q)
  PROVE  query' \in [Query -> QueryState]
  BY BecomeType, IdleQueryType DEF Finish

LEMMA AfterAttemptType ==
  ASSUME TypeOK, NEW q \in Query, AfterAttempt(q)
  PROVE  query' \in [Query -> QueryState]
  BY GotoType, FinishType DEF AfterAttempt

\* Type correctness of every reachable state: the columns and the local states
\* of refreshes and requests keep their types through every SQL statement.
THEOREM TypeCorrect == Spec => []TypeOK
<1>1. Init => TypeOK
  BY IdleQueryType, BoundsNatural
     DEF Init, TypeOK, Row, RequestState, Period, Consumed, Status, History
<1>2. ASSUME TypeOK, NEW q \in Query, Load(q) PROVE TypeOK'
  <2>1. [IdleQuery EXCEPT !.pc = "loaded", !.credential = row.credential,
                             !.revision = row.revision, !.operation = row.operation]
         \in QueryState
    BY <1>2, IdleQueryType, Columns, QueryColumns DEF QueryState
  <2>2. query' \in [Query -> QueryState]
    BY <1>2, <2>1, BecomeType DEF Load
  <2>3. QED
    BY <1>2, <2>2 DEF TypeOK, Load, UnchangedHistory
<1>3. ASSUME TypeOK, NEW q \in Query, Authenticate(q) PROVE TypeOK'
  <2>1. [query[q] EXCEPT !.pc = "built", !.credential = row.credential]
         \in QueryState
    BY <1>3, Columns, QueryColumns DEF QueryState
  <2>2. query' \in [Query -> QueryState]
    BY <1>3, <2>1, BecomeType DEF Authenticate
  <2>3. QED
    BY <1>3, <2>2 DEF TypeOK, Authenticate, UnchangedHistory
<1>4. ASSUME TypeOK, NEW q \in Query, AttemptWithoutLease(q) PROVE TypeOK'
  <2>1. row' \in Row
    BY <1>4, Columns, StatusType DEF TypeOK, AttemptWithoutLease, Row
  <2>2. query' \in [Query -> QueryState]
    BY <1>4, FinishType DEF AttemptWithoutLease
  <2>3. QED
    BY <1>4, <2>1, <2>2 DEF TypeOK, AttemptWithoutLease, UnchangedHistory
<1>5. ASSUME TypeOK, NEW q \in Query, Claim(q) PROVE TypeOK'
  <2>1. row' \in Row
    BY <1>5, Columns, StatusType, QueryColumns DEF TypeOK, Claim, Row
  <2>2. [query[q] EXCEPT !.pc = "asking", !.claimed = query[q].revision + 1]
         \in QueryState
    BY <1>5, Columns, QueryColumns DEF QueryState
  <2>3. query' \in [Query -> QueryState]
    BY <1>5, <2>2, BecomeType DEF Claim
  <2>4. QED
    BY <1>5, <2>1, <2>3 DEF TypeOK, Claim, UnchangedHistory
<1>6. ASSUME TypeOK, NEW q \in Query, Busy(q) PROVE TypeOK'
  <2>1. query' \in [Query -> QueryState]
    BY <1>6, FinishType DEF Busy
  <2>2. QED
    BY <1>6, <2>1 DEF TypeOK, Busy, UnchangedHistory
<1>7. ASSUME TypeOK, NEW q \in Query, Answer(q) PROVE TypeOK'
  <2>1. PICK reply \in Balance \union Refusal :
           Become(q, [query[q] EXCEPT !.pc = "answered", !.reply = reply, !.asked = Now])
    BY <1>7 DEF Answer
  <2>2. [query[q] EXCEPT !.pc = "answered", !.reply = reply, !.asked = Now] \in QueryState
    <3>1. query[q] \in QueryState
      BY <1>7, QueryColumns
    <3>2. Now \in History
      BY <1>7 DEF TypeOK, Now, History
    <3> HIDE DEF Now
    <3> QED
      BY <2>1, <3>1, <3>2 DEF QueryState
  <2>3. query' \in [Query -> QueryState]
    BY <1>7, <2>1, <2>2, BecomeType
  <2>4. QED
    BY <1>7, <2>3 DEF TypeOK, Answer, UnchangedHistory
<1>8. ASSUME TypeOK, NEW q \in Query, PublishTokens(q) PROVE TypeOK'
  <2>1. row' \in Row /\ asOf' \in History
    BY <1>8, Columns, StatusType, QueryColumns, ReplyType, BoundsNatural DEF TypeOK, PublishTokens, Row
  <2>2. [query[q] EXCEPT !.pc = "releasing", !.reply = NoReply]
         \in QueryState
    BY <1>8, Columns, QueryColumns DEF QueryState
  <2>3. query' \in [Query -> QueryState]
    BY <1>8, <2>2, BecomeType DEF PublishTokens
  <2>4. QED
    BY <1>8, <2>1, <2>3 DEF TypeOK, PublishTokens, UnchangedHistory
<1>9. ASSUME TypeOK, NEW q \in Query, TokensSuperseded(q) PROVE TypeOK'
  <2>1. [query[q] EXCEPT !.pc = "rejected", !.reply = NoReply]
         \in QueryState
    BY <1>9, Columns, QueryColumns DEF QueryState
  <2>2. query' \in [Query -> QueryState]
    BY <1>9, <2>1, BecomeType DEF TokensSuperseded
  <2>3. QED
    BY <1>9, <2>2 DEF TypeOK, TokensSuperseded, UnchangedHistory
<1>10. ASSUME TypeOK, NEW q \in Query, PublishOperation(q) PROVE TypeOK'
  <2>1. row' \in Row /\ asOf' \in History
    <3>1. CASE ~OwnsRow(q) \/ row.source = "tokens"
      BY <1>10, <3>1, StatusType DEF TypeOK, PublishOperation, Row
    <3>2. CASE OwnsRow(q) /\ row.source # "tokens"
      <4>1. /\ query[q].reply.kind = "balance"
            /\ asOf' = query[q].asked
            /\ row' = [row EXCEPT !.lease = NoLease, !.live = FALSE, !.status = "ready",
                                  !.available = TRUE, !.source = "operation",
                                  !.period = 0, !.consumed = query[q].reply.consumed,
                                  !.snapshotCredential = query[q].credential]
        BY <1>10, <3>2 DEF PublishOperation
      <4>2. row \in Row
        BY <1>10 DEF TypeOK
      <4>3. QED
        BY <1>10, <4>1, <4>2, StatusType, QueryColumns, ReplyType, ZeroPeriod DEF Row
    <3>3. QED
      BY <3>1, <3>2
  <2>2. [query[q] EXCEPT !.pc = "releasing", !.reply = NoReply]
         \in QueryState
    BY <1>10, Columns, QueryColumns DEF QueryState
  <2>3. query' \in [Query -> QueryState]
    BY <1>10, <2>2, BecomeType DEF PublishOperation
  <2>4. QED
    BY <1>10, <2>1, <2>3 DEF TypeOK, PublishOperation, UnchangedHistory
<1>11. ASSUME TypeOK, NEW q \in Query, TokensRefused(q) PROVE TypeOK'
  <2>1. [query[q] EXCEPT !.pc = "releasing", !.reply = NoReply] \in QueryState
    BY <1>11 DEF TypeOK, QueryState
  <2>2. query' \in [Query -> QueryState]
    BY <1>11, <2>1, BecomeType, GotoType DEF TokensRefused
  <2>3. QED
    BY <1>11, <2>2 DEF TypeOK, TokensRefused, UnchangedHistory
<1>12. ASSUME TypeOK, NEW q \in Query, OperationRefused(q) PROVE TypeOK'
  <2>1. query' \in [Query -> QueryState]
    BY <1>12, GotoType DEF OperationRefused
  <2>2. QED
    BY <1>12, <2>1 DEF TypeOK, OperationRefused, UnchangedHistory
<1>13. ASSUME TypeOK, NEW q \in Query, RecordAttempt(q) PROVE TypeOK'
  <2>1. PICK state \in Status :
           row' = row \/ row' = [row EXCEPT !.lease = NoLease, !.live = FALSE, !.status = state]
    BY <1>13, StatusType DEF RecordAttempt
  <2>2. row' \in Row
    BY <1>13, <2>1 DEF TypeOK, Row
  <2>3. query' \in [Query -> QueryState]
    BY <1>13, GotoType DEF RecordAttempt
  <2>4. QED
    BY <1>13, <2>2, <2>3 DEF TypeOK, RecordAttempt, UnchangedHistory
<1>14. ASSUME TypeOK, NEW q \in Query, Release(q) PROVE TypeOK'
  <2>1. row' \in Row
    BY <1>14, Columns, StatusType DEF TypeOK, Release, Row
  <2>2. query' \in [Query -> QueryState]
    BY <1>14, AfterAttemptType DEF Release
  <2>3. QED
    BY <1>14, <2>1, <2>2 DEF TypeOK, Release, UnchangedHistory
<1>15. ASSUME TypeOK, NEW q \in Query, ReleaseFails(q) PROVE TypeOK'
  <2>1. row' \in Row
    BY <1>15, Columns, StatusType DEF TypeOK, ReleaseFails, Row
  <2>2. query' \in [Query -> QueryState]
    BY <1>15, AfterAttemptType DEF ReleaseFails
  <2>3. QED
    BY <1>15, <2>1, <2>2 DEF TypeOK, ReleaseFails, UnchangedHistory
<1>16. ASSUME TypeOK, NEW q \in Query, Recover(q) PROVE TypeOK'
  <2>1. [IdleQuery EXCEPT !.pc = "loaded", !.endpoint = query[q].endpoint,
                             !.retried = TRUE, !.credential = row.credential,
                             !.revision = row.revision, !.operation = row.operation]
         \in QueryState
    BY <1>16, IdleQueryType, Columns, QueryColumns DEF QueryState
  <2>2. query' \in [Query -> QueryState]
    BY <1>16, <2>1, BecomeType DEF Recover
  <2>3. QED
    BY <1>16, <2>2 DEF TypeOK, Recover, UnchangedHistory
<1>17. ASSUME TypeOK, NEW q \in Query, RecoveryFails(q) PROVE TypeOK'
  <2>1. query' \in [Query -> QueryState]
    BY <1>17, FinishType DEF RecoveryFails
  <2>2. QED
    BY <1>17, <2>1 DEF TypeOK, RecoveryFails, UnchangedHistory
<1>18. ASSUME TypeOK, NEW q \in Query, FallBack(q) PROVE TypeOK'
  <2> DEFINE exists == row.operation # NoOperation
             state == [query[q] EXCEPT !.pc = IF exists THEN "loaded" ELSE "unmarked",
                                       !.endpoint = IF exists THEN "operation" ELSE "tokens",
                                       !.credential = row.credential,
                                       !.revision = row.revision,
                                       !.operation = row.operation,
                                       !.reply = NoReply]
  <2>1. state \in QueryState
    BY <1>18, Columns DEF TypeOK, QueryState
  <2>2. query' \in [Query -> QueryState]
    BY <1>18, <2>1, BecomeType DEF FallBack
  <2>3. QED
    BY <1>18, <2>2 DEF TypeOK, FallBack, UnchangedHistory
<1>19. ASSUME TypeOK, NEW q \in Query, MarkNoOperation(q) PROVE TypeOK'
  <2>1. row' \in Row
    BY <1>19, Columns, StatusType DEF TypeOK, MarkNoOperation, Row
  <2>2. query' \in [Query -> QueryState]
    BY <1>19, FinishType DEF MarkNoOperation
  <2>3. QED
    BY <1>19, <2>1, <2>2 DEF TypeOK, MarkNoOperation, UnchangedHistory
<1>20. ASSUME TypeOK, NEW q \in Query, Crash(q) PROVE TypeOK'
  <2>1. row' \in Row
    BY <1>20, Columns, StatusType DEF TypeOK, Crash, Row
  <2>2. query' \in [Query -> QueryState]
    BY <1>20, FinishType DEF Crash
  <2>3. QED
    BY <1>20, <2>1, <2>2 DEF TypeOK, Crash, UnchangedHistory
<1>21. ASSUME TypeOK, NEW r \in Request, Send(r) PROVE TypeOK'
  BY <1>21, Columns DEF TypeOK, Send, RequestState, UnchangedHistory
<1>22. ASSUME TypeOK, NEW r \in Request, RememberOperation(r) PROVE TypeOK'
  <2>1. row' \in Row /\ boundaries' \in Nat
    BY <1>22, BoundaryType DEF TypeOK, RememberOperation
  <2>2. QED
    BY <1>22, <2>1 DEF TypeOK, RememberOperation, RequestState
<1>23. ASSUME TypeOK, NEW r \in Request, CompleteOperation(r) PROVE TypeOK'
  <2>1. row' \in Row /\ boundaries' \in Nat
    BY <1>23, BoundaryType DEF TypeOK, CompleteOperation
  <2>2. QED
    BY <1>23, <2>1 DEF TypeOK, CompleteOperation, RequestState
<1>24. ASSUME TypeOK, CredentialRenewed PROVE TypeOK'
  BY <1>24 DEF TypeOK, CredentialRenewed, Row, UnchangedHistory
<1>25. ASSUME TypeOK, CredentialReplaced PROVE TypeOK'
  <2>1. row' \in Row
    BY <1>25, Columns, StatusType, ZeroPeriod DEF TypeOK, CredentialReplaced, Row
  <2>2. QED
    BY <1>25, <2>1 DEF TypeOK, CredentialReplaced
<1>26. ASSUME TypeOK, LeaseExpires PROVE TypeOK'
  BY <1>26 DEF TypeOK, LeaseExpires, Row, UnchangedHistory
<1>27. ASSUME TypeOK, PeriodEnds PROVE TypeOK'
  BY <1>27, BoundsNatural DEF TypeOK, PeriodEnds, Period, UnchangedHistory
<1>28. ASSUME TypeOK, UNCHANGED vars PROVE TypeOK'
  BY <1>28 DEF TypeOK, vars
<1>29. TypeOK /\ [Next]_vars => TypeOK'
  BY <1>2, <1>3, <1>4, <1>5, <1>6, <1>7, <1>8, <1>9, <1>10, <1>11, <1>12,
     <1>13, <1>14, <1>15, <1>16, <1>17, <1>18, <1>19, <1>20, <1>21, <1>22,
     <1>23, <1>24, <1>25, <1>26, <1>27, <1>28
     DEF Next, Refresh, Operate
<1>30. QED
  BY <1>1, <1>29, PTL DEF Spec

-----------------------------------------------------------------------------
(* Safety: the inductive invariant IInv.                                   *)

\* A refresh step leaves the other refreshes alone.
LEMMA Became ==
  ASSUME TypeOK, NEW q \in Query, NEW state, Become(q, state)
  PROVE  /\ query'[q] = state
         /\ \A p \in Query \ {q} : query'[p] = query[p]
  BY DEF TypeOK, Become

\* Every step of a refresh but the claim preserves the invariant, whatever it
\* writes, as long as it keeps the claimed revision and only a step that still
\* leaves an owner behind leaves the row refreshing.
LEMMA RefreshStep ==
  ASSUME TypeOK, IInv, NEW q \in Query, NEW state \in QueryState, Become(q, state),
         row'.revision \in Nat, row'.revision >= row.revision, boundaries' = boundaries,
         state.pc \in Holding =>
             query[q].pc \in Holding /\ state.claimed = query[q].claimed,
         state.pc = "answered" => state.asked.boundaries = boundaries,
         row'.status = "ready" => asOf'.boundaries = boundaries,
         row'.status = "refreshing" =>
             /\ row.status = "refreshing" /\ row'.revision = row.revision
             /\ \/ row'.lease = DeadLease
                \/ row'.lease = row.lease /\ (row.lease = q => state.pc \in Holding)
  PROVE  IInv'
<1>1. /\ query'[q] = state
      /\ \A p \in Query \ {q} : query'[p] = query[p]
  BY Became
<1>2. row.revision \in Nat /\ \A p \in Query : query[p].claimed \in Nat
  BY DEF TypeOK, Row, QueryState
<1>3. RevisionsDistinct'
  BY <1>1, <1>2 DEF IInv, RevisionsDistinct
<1>4. RefreshingIsOwned'
  BY <1>1, <1>2, NamesDistinct DEF IInv, RefreshingIsOwned
<1>5. AnswerIsCurrent'
  <2> SUFFICES ASSUME NEW p \in Query, query'[p].pc = "answered",
                      query'[p].claimed = row'.revision
               PROVE  query'[p].asked.boundaries = boundaries'
    BY DEF AnswerIsCurrent
  <2>1. CASE p = q
    BY <1>1, <2>1
  <2>2. CASE p # q
    <3>1. query[p].claimed <= row.revision
      BY <1>1, <2>2 DEF IInv, RevisionsDistinct, Holding
    <3>2. query[p].claimed = row.revision
      BY <1>1, <1>2, <2>2, <3>1
    <3>3. QED
      BY <1>1, <2>2, <3>2 DEF IInv, AnswerIsCurrent
  <2>3. QED
    BY <2>1, <2>2
<1>6. ReadyIsCurrent'
  BY DEF ReadyIsCurrent
<1>7. QED
  BY <1>3, <1>4, <1>5, <1>6 DEF IInv

\* A step that writes only columns of the row and keeps the claims fenced: it
\* takes a new revision if it is a boundary, and never starts refreshing.
LEMMA RowStep ==
  ASSUME TypeOK, IInv, query' = query, asOf' = asOf,
         row'.revision \in Nat, row'.revision >= row.revision,
         boundaries' = boundaries \/ row'.revision > row.revision,
         row'.status = "ready" => row.status = "ready" /\ boundaries' = boundaries,
         row'.status = "refreshing" =>
             /\ row.status = "refreshing" /\ row'.revision = row.revision
             /\ row'.lease = row.lease
  PROVE  IInv'
<1>1. row.revision \in Nat /\ \A p \in Query : query[p].claimed \in Nat
  BY DEF TypeOK, Row, QueryState
<1>2. RevisionsDistinct'
  BY <1>1 DEF IInv, RevisionsDistinct
<1>3. RefreshingIsOwned'
  BY <1>1 DEF IInv, RefreshingIsOwned
<1>4. AnswerIsCurrent'
  <2> SUFFICES ASSUME NEW p \in Query, query[p].pc = "answered",
                      query[p].claimed = row'.revision
               PROVE  query[p].asked.boundaries = boundaries'
    BY DEF AnswerIsCurrent
  <2>1. query[p].claimed <= row.revision
    BY DEF IInv, RevisionsDistinct, Holding
  <2>2. boundaries' = boundaries /\ query[p].claimed = row.revision
    BY <1>1, <2>1
  <2>3. QED
    BY <2>2 DEF IInv, AnswerIsCurrent
<1>5. ReadyIsCurrent'
  BY DEF IInv, ReadyIsCurrent
<1>6. QED
  BY <1>2, <1>3, <1>4, <1>5 DEF IInv

LEMMA InitInvariant == Init => IInv
  BY DEF Init, IInv, RevisionsDistinct, RefreshingIsOwned, AnswerIsCurrent,
         ReadyIsCurrent, Holding, IdleQuery

\* A claim takes a revision above every claimed one and owns the row.
LEMMA ClaimStep ==
  ASSUME TypeOK, IInv, NEW q \in Query, Claim(q)
  PROVE  IInv'
<1> DEFINE state == [query[q] EXCEPT !.pc = "asking", !.claimed = query[q].revision + 1]
<1>1. /\ query'[q] = state
      /\ \A p \in Query \ {q} : query'[p] = query[p]
  BY Became DEF Claim
<1>2. state.pc = "asking" /\ state.claimed = row.revision + 1
  BY QueryColumns DEF QueryState, Claim, CanClaim
<1>3. /\ row'.revision = row.revision + 1 /\ row'.lease = q /\ row'.status = "refreshing"
  <2>1. row' = [row EXCEPT !.revision = row.revision + 1,
                           !.lease = q, !.live = TRUE, !.status = "refreshing"]
    BY DEF Claim, CanClaim
  <2>2. QED
    BY <2>1 DEF TypeOK, Row
<1>4. row.revision \in Nat /\ \A p \in Query : query[p].claimed \in Nat
  BY DEF TypeOK, Row, QueryState
<1> HIDE DEF state
<1>5. RevisionsDistinct'
  <2> SUFFICES ASSUME NEW q1 \in Query, NEW q2 \in Query, query'[q1].pc \in Holding
               PROVE  /\ query'[q1].claimed <= row'.revision
                      /\ q1 # q2 /\ query'[q2].pc \in Holding
                           => query'[q1].claimed # query'[q2].claimed
    BY DEF RevisionsDistinct
  <2>1. \A p \in Query \ {q} : query'[p].pc \in Holding => query'[p].claimed <= row.revision
    BY <1>1 DEF IInv, RevisionsDistinct
  <2>2. query'[q].claimed = row.revision + 1
    BY <1>1, <1>2
  <2>3. query'[q1].claimed <= row'.revision
    BY <1>1, <1>3, <1>4, <2>1, <2>2
  <2>4. ASSUME q1 # q2, query'[q2].pc \in Holding
        PROVE  query'[q1].claimed # query'[q2].claimed
    <3>1. CASE q1 = q
      BY <1>1, <1>4, <2>1, <2>2, <2>4, <3>1
    <3>2. CASE q2 = q
      BY <1>1, <1>4, <2>1, <2>2, <2>4, <3>2
    <3>3. CASE q1 # q /\ q2 # q
      BY <1>1, <2>4, <3>3 DEF IInv, RevisionsDistinct
    <3>4. QED
      BY <3>1, <3>2, <3>3
  <2>5. QED
    BY <2>3, <2>4
<1>6. RefreshingIsOwned'
  BY <1>1, <1>2, <1>3, NamesDistinct DEF RefreshingIsOwned, Holding
<1>7. AnswerIsCurrent'
  <2> SUFFICES ASSUME NEW p \in Query, query'[p].pc = "answered"
               PROVE  query'[p].claimed # row'.revision
    BY DEF AnswerIsCurrent
  <2>1. p # q /\ query[p].pc = "answered"
    BY <1>1, <1>2
  <2>2. query[p].claimed <= row.revision
    BY <2>1 DEF IInv, RevisionsDistinct, Holding
  <2>3. QED
    BY <1>1, <1>3, <1>4, <2>1, <2>2
<1>8. ReadyIsCurrent'
  BY <1>3 DEF ReadyIsCurrent
<1>9. QED
  BY <1>5, <1>6, <1>7, <1>8 DEF IInv

\* A refresh that runs no attempt does not own a refreshing row.
LEMMA NotOwner ==
  ASSUME TypeOK, IInv, NEW q \in Query, query[q].pc \notin Holding, row.status = "refreshing"
  PROVE  row.lease # q
  BY DEF IInv, RefreshingIsOwned

LEMMA IdleState == IdleQuery.pc = "idle" /\ IdleQuery \in QueryState
  BY IdleQueryType DEF IdleQuery

\* Moving on keeps the rest of the local state.
LEMMA Relabelled ==
  ASSUME TypeOK, NEW q \in Query,
         NEW label \in {"refused", "releasing", "recovering", "fallingBack"}
  PROVE  /\ [query[q] EXCEPT !.pc = label] \in QueryState
         /\ [query[q] EXCEPT !.pc = label].pc = label
         /\ [query[q] EXCEPT !.pc = label].claimed = query[q].claimed
  BY DEF TypeOK, QueryState

LEMMA Released ==
  ASSUME TypeOK, NEW q \in Query
  PROVE  /\ [query[q] EXCEPT !.pc = "releasing", !.reply = NoReply] \in QueryState
         /\ [query[q] EXCEPT !.pc = "releasing", !.reply = NoReply].pc = "releasing"
         /\ [query[q] EXCEPT !.pc = "releasing", !.reply = NoReply].claimed
               = query[q].claimed
  BY DEF TypeOK, QueryState

\* After an attempt a refresh runs none, until it claims again.
LEMMA AfterAttemptState ==
  ASSUME TypeOK, NEW q \in Query, AfterAttempt(q)
  PROVE  \E state \in QueryState : Become(q, state) /\ state.pc \notin Holding
<1>1. CASE Goto(q, "recovering")
  BY <1>1, Relabelled DEF Goto, Holding
<1>2. CASE Goto(q, "fallingBack")
  BY <1>2, Relabelled DEF Goto, Holding
<1>3. CASE Finish(q)
  BY <1>3, IdleState DEF Finish, Holding
<1>4. QED
  BY <1>1, <1>2, <1>3 DEF AfterAttempt

\* Writing a status and giving up the lease keeps the revision.
LEMMA StatusWritten ==
  ASSUME TypeOK, NEW status,
         row' = [row EXCEPT !.lease = NoLease, !.live = FALSE, !.status = status]
  PROVE  /\ row'.revision = row.revision /\ row'.status = status
         /\ row'.revision \in Nat /\ row'.revision >= row.revision
<1>1. row'.revision = row.revision /\ row'.status = status
  BY DEF TypeOK, Row
<1>2. QED
  BY <1>1, Columns

\* A step between attempts writes nothing to the row.
LEMMA QuietStep ==
  ASSUME TypeOK, IInv, NEW q \in Query, NEW state \in QueryState, Become(q, state),
         query[q].pc \notin Holding, state.pc \notin Holding,
         row' = row, boundaries' = boundaries, asOf' = asOf
  PROVE  IInv'
<1>1. row.revision \in Nat
  BY Columns
<1>2. state.pc # "answered"
  BY DEF Holding
<1>3. row.status = "ready" => asOf.boundaries = boundaries
  BY DEF IInv, ReadyIsCurrent
<1>4. row.status = "refreshing" => row.lease # q
  BY NotOwner
<1>5. QED
  BY <1>1, <1>2, <1>3, <1>4, RefreshStep

\* A step of a running attempt that writes nothing to the row.
LEMMA RunningStep ==
  ASSUME TypeOK, IInv, NEW q \in Query, NEW state \in QueryState, Become(q, state),
         query[q].pc \in Holding, state.pc \in Holding,
         state.claimed = query[q].claimed,
         state.pc = "answered" => state.asked.boundaries = boundaries,
         row' = row, boundaries' = boundaries, asOf' = asOf
  PROVE  IInv'
<1>1. row.revision \in Nat
  BY Columns
<1>2. row.status = "ready" => asOf.boundaries = boundaries
  BY DEF IInv, ReadyIsCurrent
<1>3. QED
  BY <1>1, <1>2, RefreshStep

\* A step that leaves the row as it is or writes it without refreshing and
\* without publishing.
LEMMA RecordStep ==
  ASSUME TypeOK, IInv, NEW q \in Query, NEW state \in QueryState, Become(q, state),
         state.pc \notin {"answered"},
         state.pc \in Holding =>
             query[q].pc \in Holding /\ state.claimed = query[q].claimed,
         \/ row' = row /\ (row.status = "refreshing" /\ row.lease = q => state.pc \in Holding)
         \/ /\ row'.revision \in Nat /\ row'.revision >= row.revision
            /\ row'.status \notin {"ready", "refreshing"}
         \/ /\ row'.revision = row.revision /\ row'.status = row.status
            /\ row'.lease = IF row.lease = q THEN DeadLease ELSE row.lease,
         boundaries' = boundaries, asOf' = asOf
  PROVE  IInv'
<1>1. row.revision \in Nat
  BY Columns
<1>2. row.status = "ready" => asOf.boundaries = boundaries
  BY DEF IInv, ReadyIsCurrent
<1>3. QED
  BY <1>1, <1>2, RefreshStep

\* Every step preserves the invariant.
LEMMA InvariantSteps == TypeOK /\ IInv /\ [Next]_vars => IInv'
<1> USE DEF UnchangedHistory
<1>1. ASSUME TypeOK, IInv, NEW q \in Query, Load(q) PROVE IInv'
  <2> DEFINE state == [IdleQuery EXCEPT !.pc = "loaded", !.credential = row.credential,
                     !.revision = row.revision, !.operation = row.operation]
  <2>1. state \in QueryState /\ state.pc \notin Holding
    BY <1>1, Columns, QueryColumns, IdleState DEF QueryState, Holding, Load
  <2>2. QED
    BY <1>1, <2>1, QuietStep DEF Load, Holding
<1>2. ASSUME TypeOK, IInv, NEW q \in Query, Authenticate(q) PROVE IInv'
  <2> DEFINE state == [query[q] EXCEPT !.pc = "built", !.credential = row.credential]
  <2>1. state \in QueryState /\ state.pc \notin Holding
    BY <1>2, Columns, QueryColumns, IdleState DEF QueryState, Holding, Authenticate
  <2>2. QED
    BY <1>2, <2>1, QuietStep DEF Authenticate, Holding
<1>3. ASSUME TypeOK, IInv, NEW q \in Query, Busy(q) PROVE IInv'
  BY <1>3, IdleState, QuietStep DEF Busy, Finish, Holding
<1>4. ASSUME TypeOK, IInv, NEW q \in Query, Recover(q) PROVE IInv'
  <2> DEFINE state == [IdleQuery EXCEPT !.pc = "loaded", !.endpoint = query[q].endpoint,
                     !.retried = TRUE, !.credential = row.credential,
                     !.revision = row.revision, !.operation = row.operation]
  <2>1. state \in QueryState /\ state.pc \notin Holding
    BY <1>4, Columns, QueryColumns, IdleState DEF QueryState, Holding, Recover
  <2>2. QED
    BY <1>4, <2>1, QuietStep DEF Recover, Holding
<1>5. ASSUME TypeOK, IInv, NEW q \in Query, RecoveryFails(q) PROVE IInv'
  BY <1>5, IdleState, QuietStep DEF RecoveryFails, Finish, Holding
<1>6. ASSUME TypeOK, IInv, NEW q \in Query, FallBack(q) PROVE IInv'
  <2> DEFINE state == [query[q] EXCEPT !.pc = IF row.operation # NoOperation THEN "loaded" ELSE "unmarked",
                     !.endpoint = IF row.operation # NoOperation THEN "operation" ELSE "tokens",
                     !.credential = row.credential,
                     !.revision = row.revision, !.operation = row.operation,
                     !.reply = NoReply]
  <2>1. state \in QueryState /\ state.pc \notin Holding
    BY <1>6, Columns, QueryColumns, IdleState DEF QueryState, Holding, FallBack
  <2>2. QED
    BY <1>6, <2>1, QuietStep DEF FallBack, Holding
<1>7. ASSUME TypeOK, IInv, NEW q \in Query, TokensSuperseded(q) PROVE IInv'
  <2> DEFINE state == [query[q] EXCEPT !.pc = "rejected", !.reply = NoReply]
  <2>1. /\ state \in QueryState /\ state.pc \in Holding /\ state.pc # "answered"
        /\ state.claimed = query[q].claimed
    BY <1>7, QueryColumns DEF QueryState, Holding
  <2>2. QED
    BY <1>7, <2>1, RunningStep DEF TokensSuperseded, Holding
<1>8. ASSUME TypeOK, IInv, NEW q \in Query, OperationRefused(q) PROVE IInv'
  <2> DEFINE state == [query[q] EXCEPT !.pc = "refused"]
  <2>1. /\ state \in QueryState /\ state.pc \in Holding /\ state.pc # "answered"
        /\ state.claimed = query[q].claimed
    BY <1>8, QueryColumns DEF QueryState, Holding
  <2>2. QED
    BY <1>8, <2>1, RunningStep DEF OperationRefused, Goto, Holding
<1>9. ASSUME TypeOK, IInv, NEW q \in Query, TokensRefused(q) PROVE IInv'
  <2>1. PICK state \in QueryState : /\ Become(q, state)
                                   /\ state.pc \in Holding /\ state.pc # "answered"
                                   /\ state.claimed = query[q].claimed
    <3> DEFINE moot == [query[q] EXCEPT !.pc = "releasing", !.reply = NoReply]
               kept == [query[q] EXCEPT !.pc = "refused"]
    <3>1. /\ moot \in QueryState /\ moot.pc \in Holding /\ moot.pc # "answered"
          /\ moot.claimed = query[q].claimed
      BY <1>9, Released DEF Holding
    <3>2. /\ kept \in QueryState /\ kept.pc \in Holding /\ kept.pc # "answered"
          /\ kept.claimed = query[q].claimed
      BY <1>9, Relabelled DEF Holding
    <3> HIDE DEF moot, kept
    <3>3. Become(q, moot) \/ Become(q, kept)
      BY <1>9 DEF TokensRefused, Goto, moot, kept
    <3>4. QED
      BY <3>1, <3>2, <3>3
  <2>2. QED
    BY <1>9, <2>1, RunningStep DEF TokensRefused, Holding
<1>10. ASSUME TypeOK, IInv, NEW q \in Query, Answer(q) PROVE IInv'
  <2>1. PICK reply \in Balance \union Refusal :
           Become(q, [query[q] EXCEPT !.pc = "answered", !.reply = reply, !.asked = Now])
    BY <1>10 DEF Answer
  <2> DEFINE state == [query[q] EXCEPT !.pc = "answered", !.reply = reply, !.asked = Now]
  <2>2. Now \in History /\ Now.boundaries = boundaries
    BY <1>10 DEF TypeOK, Now, History
  <2>3. /\ state \in QueryState /\ state.pc = "answered"
        /\ state.claimed = query[q].claimed /\ state.asked = Now
    BY <1>10, <2>2, QueryColumns DEF QueryState
  <2>4. QED
    BY <1>10, <2>1, <2>2, <2>3, RunningStep DEF Answer, Holding
<1>11. ASSUME TypeOK, IInv, NEW q \in Query, PublishTokens(q) PROVE IInv'
  <2> DEFINE state == [query[q] EXCEPT !.pc = "releasing", !.reply = NoReply]
  <2>1. /\ state \in QueryState /\ state.pc = "releasing" /\ state.claimed = query[q].claimed
    BY <1>11, Released
  <2> HIDE DEF state
  <2>2. /\ query[q].pc = "answered" /\ Become(q, state) /\ boundaries' = boundaries
    BY <1>11 DEF PublishTokens, state
  <2>3. ASSUME OwnsRow(q), asOf' = query[q].asked,
               row' = [row EXCEPT !.lease = NoLease, !.live = FALSE, !.status = "ready",
                                 !.available = TRUE, !.source = "tokens",
                                 !.period = PeriodAfter(query[q].reply),
                                 !.consumed = query[q].reply.consumed,
                                 !.snapshotCredential = query[q].credential]
        PROVE  IInv'
    <3>1. row'.revision = row.revision /\ row'.status = "ready" /\ row.revision \in Nat
      BY <1>11, <2>3 DEF TypeOK, Row
    <3>2. asOf'.boundaries = boundaries
      BY <1>11, <2>3 DEF IInv, AnswerIsCurrent, OwnsRow, PublishTokens
    <3>3. row'.revision \in Nat /\ row'.revision >= row.revision
      BY <3>1
    <3>4. query[q].pc \in Holding /\ state.pc # "answered"
      BY <2>1, <2>2 DEF Holding
    <3>5. QED
      BY <1>11, <2>1, <2>2, <3>1, <3>2, <3>3, <3>4, RefreshStep
  <2>4. QED
    BY <1>11, <2>3 DEF PublishTokens
<1>12. ASSUME TypeOK, IInv, NEW q \in Query, PublishOperation(q) PROVE IInv'
  <2> DEFINE state == [query[q] EXCEPT !.pc = "releasing", !.reply = NoReply]
  <2>1. /\ state \in QueryState /\ state.pc = "releasing" /\ state.claimed = query[q].claimed
    BY <1>12, Released
  <2> HIDE DEF state
  <2>2. /\ query[q].pc = "answered" /\ Become(q, state) /\ boundaries' = boundaries
    BY <1>12 DEF PublishOperation, state
  <2>3. ASSUME OwnsRow(q), asOf' = query[q].asked,
               row' = [row EXCEPT !.lease = NoLease, !.live = FALSE, !.status = "ready",
                                 !.available = TRUE, !.source = "operation",
                                 !.period = 0, !.consumed = query[q].reply.consumed,
                                 !.snapshotCredential = query[q].credential]
        PROVE  IInv'
    <3>1. row'.revision = row.revision /\ row'.status = "ready" /\ row.revision \in Nat
      BY <1>12, <2>3 DEF TypeOK, Row
    <3>2. asOf'.boundaries = boundaries
      BY <1>12, <2>3 DEF IInv, AnswerIsCurrent, OwnsRow, PublishOperation
    <3>3. row'.revision \in Nat /\ row'.revision >= row.revision
      BY <3>1
    <3>4. query[q].pc \in Holding /\ state.pc # "answered"
      BY <2>1, <2>2 DEF Holding
    <3>5. QED
      BY <1>12, <2>1, <2>2, <3>1, <3>2, <3>3, <3>4, RefreshStep
  <2>4. ASSUME row' = row \/ row' = [row EXCEPT !.lease = NoLease, !.live = FALSE,
                                               !.status = Downgraded],
               asOf' = asOf
        PROVE  IInv'
    <3>1. CASE row' = row
      BY <1>12, <2>1, <2>4, <2>2, <3>1, RunningStep DEF Holding
    <3>2. CASE row' = [row EXCEPT !.lease = NoLease, !.live = FALSE, !.status = Downgraded]
      <4>1. /\ row'.revision \in Nat /\ row'.revision >= row.revision
            /\ row'.status = Downgraded
        BY <1>12, <3>2, StatusWritten
      <4>2. row'.status \notin {"ready", "refreshing"}
        BY <4>1 DEF Downgraded
      <4>3. query[q].pc \in Holding
        BY <2>2 DEF Holding
      <4>4. QED
        BY <1>12, <2>1, <2>4, <2>2, <4>1, <4>2, <4>3, RecordStep
    <3>3. QED
      BY <2>4, <3>1, <3>2
  <2>5. QED
    BY <1>12, <2>3, <2>4 DEF PublishOperation
<1>13. ASSUME TypeOK, IInv, NEW q \in Query, AttemptWithoutLease(q) PROVE IInv'
  <2>1. query[q].pc \notin Holding
    BY <1>13 DEF AttemptWithoutLease, Holding
  <2>2. \/ row' = row
        \/ /\ row'.revision \in Nat /\ row'.revision >= row.revision
           /\ row'.status = "error"
    <3>1. row' = row \/ row' = [row EXCEPT !.status = "error", !.revision = row.revision + 1]
      BY <1>13 DEF AttemptWithoutLease
    <3>2. row' # row => row'.revision = row.revision + 1 /\ row'.status = "error"
      BY <1>13, <3>1 DEF TypeOK, Row
    <3>3. QED
      BY <1>13, <3>2, Columns
  <2>3. QED
    BY <1>13, <2>1, <2>2, IdleState, NotOwner, RecordStep DEF AttemptWithoutLease, Finish, Holding
<1>14. ASSUME TypeOK, IInv, NEW q \in Query, MarkNoOperation(q) PROVE IInv'
  <2>1. query[q].pc \notin Holding
    BY <1>14 DEF MarkNoOperation, Holding
  <2>2. \/ row' = row
        \/ /\ row'.revision \in Nat /\ row'.revision >= row.revision
           /\ row'.status = "no_operation"
    <3>1. row' = row \/ row' = [row EXCEPT !.status = "no_operation", !.revision = row.revision + 1]
      BY <1>14 DEF MarkNoOperation
    <3>2. row' # row => row'.revision = row.revision + 1 /\ row'.status = "no_operation"
      BY <1>14, <3>1 DEF TypeOK, Row
    <3>3. QED
      BY <1>14, <3>2, Columns
  <2>3. QED
    BY <1>14, <2>1, <2>2, IdleState, NotOwner, RecordStep DEF MarkNoOperation, Finish, Holding
<1>15. ASSUME TypeOK, IInv, NEW q \in Query, RecordAttempt(q) PROVE IInv'
  <2> DEFINE state == [query[q] EXCEPT !.pc = "releasing"]
  <2>1. /\ state \in QueryState /\ state.pc = "releasing" /\ state.claimed = query[q].claimed
    BY <1>15, Relabelled
  <2>2. PICK status \in {"unsupported", "error", "stale", "unknown"} :
           row' = row \/ row' = [row EXCEPT !.lease = NoLease, !.live = FALSE, !.status = status]
    BY <1>15 DEF RecordAttempt, Downgraded
  <2>3. \/ row' = row
        \/ row'.revision \in Nat /\ row'.revision >= row.revision /\ row'.status = status
    BY <1>15, <2>2, StatusWritten
  <2>4. QED
    BY <1>15, <2>1, <2>3, RecordStep DEF RecordAttempt, Goto, Holding
<1>16. ASSUME TypeOK, IInv, NEW q \in Query, Release(q) PROVE IInv'
  <2>1. PICK state \in QueryState : Become(q, state) /\ state.pc \notin Holding
    BY <1>16, AfterAttemptState DEF Release
  <2>2. CASE row.lease # q
    BY <1>16, <2>1, <2>2, RecordStep DEF Release, Holding
  <2>3. CASE row.lease = q
    <3> DEFINE status == IF row.status = "refreshing" THEN Downgraded ELSE row.status
    <3>1. row' = [row EXCEPT !.lease = NoLease, !.live = FALSE, !.status = status]
      BY <1>16, <2>3 DEF Release
    <3>2. /\ row'.revision \in Nat /\ row'.revision >= row.revision
          /\ row'.status = status
      BY <1>16, <3>1, StatusWritten
    <3>3. row'.status # "refreshing" /\ (row'.status = "ready" => row.status = "ready")
      BY <3>2 DEF Downgraded
    <3>4. QED
      BY <1>16, <2>1, <3>2, <3>3, RefreshStep DEF Release, Holding, IInv, ReadyIsCurrent
  <2>4. QED
    BY <2>2, <2>3
<1>17. ASSUME TypeOK, IInv, NEW q \in Query, ReleaseFails(q) PROVE IInv'
  <2>1. PICK state \in QueryState : Become(q, state) /\ state.pc \notin Holding
    BY <1>17, AfterAttemptState DEF ReleaseFails
  <2>2. /\ row'.revision = row.revision /\ row'.status = row.status
        /\ row'.lease = IF row.lease = q THEN DeadLease ELSE row.lease
    BY <1>17 DEF TypeOK, Row, ReleaseFails
  <2>3. QED
    BY <1>17, <2>1, <2>2, RecordStep DEF ReleaseFails, Holding
<1>18. ASSUME TypeOK, IInv, NEW q \in Query, Crash(q) PROVE IInv'
  <2>1. PICK state \in QueryState : Become(q, state) /\ state.pc \notin Holding
    BY <1>18, IdleState DEF Crash, Finish, Holding
  <2>2. /\ row'.revision = row.revision /\ row'.status = row.status
        /\ row'.lease = IF row.lease = q THEN DeadLease ELSE row.lease
    BY <1>18 DEF TypeOK, Row, Crash
  <2>3. QED
    BY <1>18, <2>1, <2>2, RecordStep DEF Crash, Holding
<1>19. ASSUME TypeOK, IInv, NEW r \in Request, Send(r) PROVE IInv'
  BY <1>19, Columns, RowStep DEF Send
<1>20. ASSUME TypeOK, IInv, NEW operation, Boundary(operation), query' = query, asOf' = asOf
      PROVE  IInv'
  <2>1. row'.revision = row.revision + 1 /\ row'.status = Downgraded
    BY <1>20 DEF TypeOK, Row, Boundary
  <2>2. QED
    BY <1>20, <2>1, Columns, RowStep DEF Downgraded
<1>21. ASSUME TypeOK, IInv, NEW r \in Request, RememberOperation(r) PROVE IInv'
  <2>1. CASE UNCHANGED <<row, boundaries>>
    BY <1>21, <2>1, Columns, RowStep DEF RememberOperation
  <2>2. CASE Boundary(r)
    BY <1>21, <2>2, <1>20 DEF RememberOperation
  <2>3. QED
    BY <1>21, <2>1, <2>2 DEF RememberOperation
<1>22. ASSUME TypeOK, IInv, NEW r \in Request, CompleteOperation(r) PROVE IInv'
  <2>1. CASE UNCHANGED <<row, boundaries>>
    BY <1>22, <2>1, Columns, RowStep DEF CompleteOperation
  <2>2. CASE Boundary(r)
    BY <1>22, <2>2, <1>20 DEF CompleteOperation
  <2>3. QED
    BY <1>22, <2>1, <2>2 DEF CompleteOperation
<1>23. ASSUME TypeOK, IInv, CredentialRenewed PROVE IInv'
  <2>1. row'.revision = row.revision /\ row'.status = row.status /\ row'.lease = row.lease
    BY <1>23 DEF TypeOK, Row, CredentialRenewed
  <2>2. QED
    BY <1>23, <2>1, Columns, RowStep DEF CredentialRenewed
<1>24. ASSUME TypeOK, IInv, CredentialReplaced PROVE IInv'
  <2>1. row'.revision = row.revision + 1 /\ row'.status = "unknown"
    BY <1>24 DEF TypeOK, Row, CredentialReplaced
  <2>2. QED
    BY <1>24, <2>1, Columns, RowStep DEF CredentialReplaced
<1>25. ASSUME TypeOK, IInv, LeaseExpires PROVE IInv'
  <2>1. row'.revision = row.revision /\ row'.status = row.status /\ row'.lease = row.lease
    BY <1>25 DEF TypeOK, Row, LeaseExpires
  <2>2. QED
    BY <1>25, <2>1, Columns, RowStep DEF LeaseExpires
<1>26. ASSUME TypeOK, IInv, PeriodEnds PROVE IInv'
  BY <1>26, Columns, RowStep DEF PeriodEnds
<1>27. ASSUME TypeOK, IInv, UNCHANGED vars PROVE IInv'
  BY <1>27, Columns, RowStep DEF vars
<1>28. QED
  BY ClaimStep, <1>1, <1>2, <1>3, <1>4, <1>5, <1>6, <1>7, <1>8, <1>9, <1>10, <1>11,
     <1>12, <1>13, <1>14, <1>15, <1>16, <1>17, <1>18, <1>19, <1>20, <1>21,
     <1>22, <1>23, <1>24, <1>25, <1>26, <1>27
     DEF Next, Refresh, Operate

LEMMA InvariantHolds == Spec => []IInv
<1>1. TypeOK /\ IInv /\ [Next]_vars => IInv'
  BY InvariantSteps
<1>2. QED
  BY <1>1, InitInvariant, TypeCorrect, PTL DEF Spec

\* A balance shown as ready was produced after every recorded boundary: an
\* answer under way when a boundary is written is never published as current.
THEOREM ReadyCurrent == Spec => []ReadyIsCurrent
<1>1. IInv => ReadyIsCurrent
  BY DEF IInv
<1>2. QED
  BY <1>1, InvariantHolds, PTL

\* A refreshing row has an attempt that owns it, or a lease that will expire.
THEOREM RefreshingOwned == Spec => []RefreshingIsOwned
<1>1. IInv => RefreshingIsOwned
  BY DEF IInv
<1>2. QED
  BY <1>1, InvariantHolds, PTL

\* No two running attempts hold the same query revision.
THEOREM DistinctRevisions == Spec => []RevisionsDistinct
<1>1. IInv => RevisionsDistinct
  BY DEF IInv
<1>2. QED
  BY <1>1, InvariantHolds, PTL

-----------------------------------------------------------------------------
(* What a step may do to the balance: only an answer or a replaced          *)
(* credential changes it.                                                   *)

Numbers(r) == <<r.available, r.source, r.period, r.consumed, r.snapshotCredential>>

\* The step leaves the balance alone, and does not declare it ready again.
BalanceKept ==
    /\ Numbers(row') = Numbers(row)
    /\ row'.status = "ready" => row.status = "ready"

\* The answer of the tokens endpoint is stored.
TokensStored(q) ==
    /\ PublishTokens(q)
    /\ row'.available /\ row'.source = "tokens"
    /\ row'.period = PeriodAfter(query[q].reply) /\ row'.consumed = query[q].reply.consumed
    /\ row'.snapshotCredential = row.credential /\ row'.credential = row.credential

\* The answer of the operation endpoint is stored: there is no balance of the tokens endpoint.
OperationStored ==
    /\ row.source # "tokens" /\ row'.source = "operation" /\ row'.period = 0
    /\ row'.snapshotCredential = row.credential /\ row'.credential = row.credential

\* The snapshot is wiped.
Wiped == ~row'.available /\ row'.source = "none" /\ row'.period = 0 /\ row'.status = "unknown"

LEMMA SameRow == row' = row => BalanceKept
BY DEF BalanceKept, Numbers

LEMMA RefreshKeepsBalance ==
  ASSUME TypeOK, NEW q \in Query, Refresh(q), ~PublishTokens(q), ~PublishOperation(q)
  PROVE  BalanceKept
<1>1. row \in Row
  BY DEF TypeOK
<1>2. Downgraded # "ready"
  BY DEF Downgraded
<1>3. CASE Load(q) \/ Authenticate(q) \/ Busy(q) \/ Answer(q) \/ TokensSuperseded(q) \/ TokensRefused(q)
           \/ OperationRefused(q) \/ Recover(q) \/ RecoveryFails(q) \/ FallBack(q)
  BY <1>3, SameRow DEF Load, Authenticate, Busy, Answer, TokensSuperseded, TokensRefused, OperationRefused,
                       Recover, RecoveryFails, FallBack
<1>4. CASE AttemptWithoutLease(q) \/ MarkNoOperation(q) \/ Claim(q)
  <2>1. AttemptWithoutLease(q) => row' = row \/ row' = [row EXCEPT !.status = "error", !.revision = row.revision + 1]
    BY DEF AttemptWithoutLease
  <2>2. MarkNoOperation(q) => row' = row \/ row' = [row EXCEPT !.status = "no_operation", !.revision = row.revision + 1]
    BY DEF MarkNoOperation
  <2>3. CASE row' = row
    BY <2>3, SameRow
  <2>4. ASSUME NEW status \in {"error", "no_operation"}, row' = [row EXCEPT !.status = status, !.revision = row.revision + 1]
        PROVE  BalanceKept
    BY <1>1, <2>4 DEF Row, BalanceKept, Numbers
  <2>5. CASE Claim(q)
    <3>1. row' = [row EXCEPT !.revision = query[q].revision + 1, !.lease = q, !.live = TRUE, !.status = "refreshing"]
      BY <2>5 DEF Claim
    <3> QED
      BY <1>1, <3>1 DEF Row, BalanceKept, Numbers
  <2> QED
    BY <1>4, <2>1, <2>2, <2>3, <2>4, <2>5
<1>5. CASE RecordAttempt(q)
  <2>1. PICK status \in {"unsupported", "error", "stale", "unknown"} :
           row' = row \/ row' = [row EXCEPT !.lease = NoLease, !.live = FALSE, !.status = status]
    BY <1>5 DEF RecordAttempt, Downgraded
  <2> QED
    BY <1>1, <2>1, SameRow DEF Row, BalanceKept, Numbers
<1>6. CASE Release(q)
  <2>1. row' = row \/ row' = [row EXCEPT !.lease = NoLease, !.live = FALSE,
                                         !.status = IF row.status = "refreshing" THEN Downgraded ELSE row.status]
    BY <1>6 DEF Release
  <2> QED
    BY <1>1, <1>2, <2>1, SameRow DEF Row, BalanceKept, Numbers
<1>7. CASE ReleaseFails(q) \/ Crash(q)
  <2>1. row' = [row EXCEPT !.lease = IF row.lease = q THEN DeadLease ELSE row.lease]
    BY <1>7 DEF ReleaseFails, Crash
  <2> QED
    BY <1>1, <2>1 DEF Row, BalanceKept, Numbers
<1> QED
  BY <1>3, <1>4, <1>5, <1>6, <1>7 DEF Refresh

LEMMA BalanceWrites ==
  ASSUME TypeOK, [Next]_vars
  PROVE  BalanceKept \/ (\E q \in Query : TokensStored(q)) \/ OperationStored \/ Wiped
<1>1. row \in Row
  BY DEF TypeOK
<1>2. ASSUME NEW q \in Query, PublishTokens(q) PROVE TokensStored(q)
  BY <1>1, <1>2 DEF PublishTokens, TokensStored, OwnsRow, Row
<1>3. ASSUME NEW q \in Query, PublishOperation(q) PROVE BalanceKept \/ OperationStored
  <2>1. CASE row' = row
    BY <2>1, SameRow
  <2>2. CASE row' = [row EXCEPT !.lease = NoLease, !.live = FALSE, !.status = Downgraded]
    BY <1>1, <2>2 DEF Row, BalanceKept, Numbers, Downgraded
  <2>3. CASE /\ OwnsRow(q) /\ row.source # "tokens"
             /\ row' = [row EXCEPT !.lease = NoLease, !.live = FALSE, !.status = "ready",
                                   !.available = TRUE, !.source = "operation",
                                   !.period = 0, !.consumed = query[q].reply.consumed,
                                   !.snapshotCredential = query[q].credential]
    BY <1>1, <2>3 DEF Row, OwnsRow, OperationStored
  <2> QED
    BY <1>3, <2>1, <2>2, <2>3 DEF PublishOperation
<1>4. ASSUME NEW operation, Boundary(operation) PROVE BalanceKept
  BY <1>1, <1>4 DEF Boundary, Row, BalanceKept, Numbers, Downgraded
<1>5. ASSUME NEW r \in Request, Operate(r) PROVE BalanceKept
  BY <1>4, <1>5, SameRow DEF Operate, Send, RememberOperation, CompleteOperation
<1>6. CASE CredentialRenewed \/ LeaseExpires \/ PeriodEnds \/ UNCHANGED vars
  BY <1>1, <1>6, SameRow DEF CredentialRenewed, LeaseExpires, PeriodEnds, vars, Row, BalanceKept, Numbers
<1>7. CredentialReplaced => Wiped
  BY <1>1 DEF CredentialReplaced, Row, Wiped
<1> QED
  BY <1>2, <1>3, <1>5, <1>6, <1>7, RefreshKeepsBalance DEF Next

\* Only a balance of the tokens endpoint has a billing period.
PeriodOfTokens == row.source # "tokens" => row.period = 0

LEMMA PeriodOfTokensHolds == Spec => []PeriodOfTokens
<1>1. Init => PeriodOfTokens
  BY DEF Init, PeriodOfTokens
<1>2. TypeOK /\ PeriodOfTokens /\ [Next]_vars => PeriodOfTokens'
  <2>1. BalanceKept => row'.source = row.source /\ row'.period = row.period
    BY DEF BalanceKept, Numbers
  <2> QED
    BY <2>1, BalanceWrites DEF PeriodOfTokens, TokensStored, OperationStored, Wiped
<1> QED
  BY <1>1, <1>2, TypeCorrect, PTL DEF Spec

\* The snapshot turns ready only with the balance of the row's credential
\* (creditRefreshRowQuery compares the credential revision).
THEOREM ReadyMeansCurrentCredential == Spec => ReadyAtCurrentCredential
<1> DEFINE Published == row.status # "ready" /\ row'.status = "ready"
                          => row'.snapshotCredential = row'.credential
<1>1. TypeOK /\ [Next]_vars => [Published]_vars
  BY BalanceWrites DEF BalanceKept, TokensStored, OperationStored, Wiped
<1>2. ReadyAtCurrentCredential <=> [][Published]_vars
  BY PTL DEF ReadyAtCurrentCredential
<1> HIDE DEF Published
<1> QED
  BY <1>1, <1>2, TypeCorrect, PTL DEF Spec

\* Delayed answers never move a current billing period back, nor its total consumed
\* (the condition of persistTokenCreditSnapshot).
THEOREM SnapshotsInOrder == Spec => SnapshotOrder
<1> DEFINE Forward == row.available /\ row'.available /\ row.period > today =>
                        /\ row'.period >= row.period
                        /\ row'.period = row.period => row'.consumed >= row.consumed
<1>1. TypeOK /\ PeriodOfTokens /\ [Next]_vars => [Forward]_vars
  <2>1. SUFFICES ASSUME TypeOK, PeriodOfTokens, [Next]_vars, row.available, row'.available, row.period > today
                 PROVE  /\ row'.period >= row.period
                        /\ row'.period = row.period => row'.consumed >= row.consumed
    OBVIOUS
  <2>2. /\ row.period \in Nat /\ row.consumed \in Nat /\ today \in Nat /\ row.period # 0
        /\ \A q \in Query : query[q].reply.period \in Nat /\ query[q].reply.consumed \in Nat
    <3>1. row.period \in Nat /\ row.consumed \in Nat /\ today \in Nat
      BY <2>1, BoundsNatural DEF TypeOK, Row, Period, Consumed
    <3>2. \A q \in Query : query[q].reply \in Balance \union Refusal \union {NoReply}
      BY <2>1 DEF TypeOK, QueryState
    <3>3. \A q \in Query : query[q].reply.period \in Nat /\ query[q].reply.consumed \in Nat
      <4>1. Period \subseteq Nat /\ Consumed \subseteq Nat
        BY BoundsNatural DEF Period, Consumed
      <4>2. \A reply \in Balance \union Refusal \union {NoReply} : reply.period \in Nat /\ reply.consumed \in Nat
        <5>1. \A reply \in Balance : reply.period \in Nat /\ reply.consumed \in Nat
          BY <4>1 DEF Balance
        <5>2. \A reply \in Refusal : reply.period \in Nat /\ reply.consumed \in Nat
          BY DEF Refusal
        <5>3. NoReply.period \in Nat /\ NoReply.consumed \in Nat
          BY DEF NoReply
        <5> QED
          BY <5>1, <5>2, <5>3
      <4> QED
        BY <3>2, <4>2
    <3> QED
      BY <2>1, <3>1, <3>3
  <2>3. BalanceKept => row'.period = row.period /\ row'.consumed = row.consumed
    BY DEF BalanceKept, Numbers
  <2>4. ASSUME NEW q \in Query, TokensStored(q)
        PROVE  /\ row'.period >= row.period
               /\ row'.period = row.period => row'.consumed >= row.consumed
    <3>1. InOrder(query[q].reply)
      BY <2>4 DEF TokensStored, PublishTokens
    <3>2. row'.period = PeriodAfter(query[q].reply) /\ row'.consumed = query[q].reply.consumed
      BY <2>4 DEF TokensStored
    <3> QED
      BY <2>1, <2>2, <3>1, <3>2 DEF InOrder, PeriodAfter
  <2>5. ~OperationStored
    BY <2>1, <2>2 DEF OperationStored, PeriodOfTokens
  <2> QED
    BY <2>1, <2>2, <2>3, <2>4, <2>5, BalanceWrites DEF Wiped
<1>2. SnapshotOrder <=> [][Forward]_vars
  BY PTL DEF SnapshotOrder
<1> HIDE DEF Forward
<1> QED
  BY <1>1, <1>2, TypeCorrect, PeriodOfTokensHolds, PTL DEF Spec

\* The operation endpoint never displaces a balance of the tokens endpoint
\* (the CASE on the source in persistCreditSnapshot).
THEOREM TokensWin == Spec => TokensAuthoritative
<1> DEFINE Kept == row.source = "tokens" /\ row'.available =>
                     /\ row'.source = "tokens"
                     /\ \A q \in Query : query[q].endpoint = "operation" /\ query'[q] # query[q]
                          => row'.consumed = row.consumed /\ row'.period = row.period
<1>1. TypeOK /\ [Next]_vars => [Kept]_vars
  <2>1. SUFFICES ASSUME TypeOK, [Next]_vars, row.source = "tokens", row'.available
                 PROVE  /\ row'.source = "tokens"
                        /\ \A q \in Query : query[q].endpoint = "operation" /\ query'[q] # query[q]
                             => row'.consumed = row.consumed /\ row'.period = row.period
    OBVIOUS
  <2>2. BalanceKept => row'.source = row.source /\ row'.period = row.period /\ row'.consumed = row.consumed
    BY DEF BalanceKept, Numbers
  <2>3. ASSUME NEW p \in Query, TokensStored(p)
        PROVE  /\ row'.source = "tokens"
               /\ \A q \in Query : query[q].endpoint = "operation" => query'[q] = query[q]
    <3>1. /\ query[p].endpoint = "tokens" /\ row'.source = "tokens"
          /\ Become(p, [query[p] EXCEPT !.pc = "releasing", !.reply = NoReply])
      BY <2>3 DEF TokensStored, PublishTokens
    <3>2. \A q \in Query \ {p} : query'[q] = query[q]
      BY <2>1, <3>1, Became
    <3> QED
      BY <3>1, <3>2
  <2> QED
    BY <2>1, <2>2, <2>3, BalanceWrites DEF OperationStored, Wiped
<1>2. TokensAuthoritative <=> [][Kept]_vars
  BY PTL DEF TokensAuthoritative
<1> HIDE DEF Kept
<1> QED
  BY <1>1, <1>2, TypeCorrect, PTL DEF Spec

-----------------------------------------------------------------------------
(* CreditRefresh implements Snapshot.                                       *)

\* A published answer was produced after the last boundary, for the row's credential.
LEMMA AcceptStep ==
  ASSUME TypeOK, IInv, PeriodOfTokens, NEW q \in Query,
         PublishTokens(q) \/ (PublishOperation(q) /\ row.source # "tokens" /\ OwnsRow(q))
  PROVE  Shown!Accept
<1>1. row \in Row /\ query[q] \in QueryState
  BY DEF TypeOK
<1>2. OwnsRow(q) /\ query[q].pc = "answered" /\ query[q].reply.kind = "balance"
  BY DEF PublishTokens, PublishOperation
<1>3. asOf' = query[q].asked /\ boundaries' = boundaries /\ today' = today
  BY <1>2 DEF PublishTokens, PublishOperation, UnchangedHistory
<1>4. asOf'.boundaries = boundaries
  BY <1>2, <1>3 DEF IInv, AnswerIsCurrent, OwnsRow
<1>5. /\ row'.status = "ready" /\ row'.available /\ row'.credential = row.credential
      /\ row'.snapshotCredential = row.credential
      /\ \/ row'.source = "tokens" /\ row'.period = PeriodAfter(query[q].reply)
            /\ row'.consumed = query[q].reply.consumed /\ InOrder(query[q].reply)
         \/ row'.source = "operation" /\ row.source # "tokens" /\ row'.period = 0
  <2>1. CASE PublishTokens(q)
    BY <1>1, <1>2, <2>1 DEF PublishTokens, OwnsRow, Row
  <2>2. CASE PublishOperation(q) /\ row.source # "tokens"
    BY <1>1, <1>2, <2>2 DEF PublishOperation, OwnsRow, Row
  <2> QED
    BY <2>1, <2>2
<1>6. row.available /\ row.period > today /\ row'.source = "tokens" =>
        \/ row'.period > row.period
        \/ row'.period = row.period /\ row'.consumed >= row.consumed
  <2>1. row.period \in Nat /\ row.consumed \in Nat /\ today \in Nat
    BY <1>1, BoundsNatural DEF TypeOK, Row, Period, Consumed
  <2>2. query[q].reply.period \in Nat /\ query[q].reply.consumed \in Nat
    BY QueryColumns, <1>2, BoundsNatural DEF Balance, Period, Consumed
  <2> QED
    BY <1>5, <2>1, <2>2 DEF InOrder, PeriodAfter
<1> QED
  BY <1>3, <1>4, <1>5, <1>6 DEF Shown!Accept, Shown!NotBefore

\* A step that keeps the balance and the history is a stutter or doubts the balance.
LEMMA DoubtStep ==
  ASSUME BalanceKept, boundaries' = boundaries, today' = today, asOf' = asOf, row'.credential = row.credential
  PROVE  Shown!Doubt \/ UNCHANGED Shown!vars
<1>1. /\ row'.available = row.available /\ row'.source = row.source /\ row'.period = row.period
      /\ row'.consumed = row.consumed /\ row'.snapshotCredential = row.snapshotCredential
  BY DEF BalanceKept, Numbers
<1>2. CASE row'.status = "ready"
  BY <1>1, <1>2 DEF BalanceKept, Shown!vars
<1>3. CASE row'.status # "ready"
  BY <1>1, <1>3 DEF Shown!Doubt
<1> QED
  BY <1>2, <1>3

LEMMA RefreshStutters ==
  ASSUME TypeOK, NEW q \in Query, Refresh(q), asOf' = asOf
  PROVE  boundaries' = boundaries /\ today' = today /\ row'.credential = row.credential
<1>1. row \in Row
  BY DEF TypeOK
<1> USE DEF UnchangedHistory
<1>2. CASE Load(q) \/ Authenticate(q) \/ Busy(q) \/ Answer(q) \/ TokensSuperseded(q) \/ TokensRefused(q)
           \/ OperationRefused(q) \/ Recover(q) \/ RecoveryFails(q) \/ FallBack(q)
  BY <1>2 DEF Load, Authenticate, Busy, Answer, TokensSuperseded, TokensRefused, OperationRefused,
              Recover, RecoveryFails, FallBack
<1>3. CASE AttemptWithoutLease(q) \/ MarkNoOperation(q) \/ Claim(q)
  BY <1>1, <1>3 DEF AttemptWithoutLease, MarkNoOperation, Claim, Row
<1>4. CASE PublishTokens(q) \/ PublishOperation(q)
  BY <1>1, <1>4 DEF PublishTokens, PublishOperation, Row
<1>5. CASE RecordAttempt(q)
  BY <1>1, <1>5 DEF RecordAttempt, Row
<1>6. CASE Release(q)
  BY <1>1, <1>6 DEF Release, Row
<1>7. CASE ReleaseFails(q) \/ Crash(q)
  BY <1>1, <1>7 DEF ReleaseFails, Crash, Row
<1> QED
  BY <1>2, <1>3, <1>4, <1>5, <1>6, <1>7 DEF Refresh

\* The detailed specification implements the abstract one: initial states map to initial
\* states, every statement to an abstract step or a stutter.
THEOREM SnapshotImplemented == Spec => SnapshotKept
<1>1. Init => Shown!Init
  BY DEF Init, Shown!Init, Shown!NoBalance
<1>2. TypeOK /\ IInv /\ PeriodOfTokens /\ [Next]_vars => [Shown!Next]_(Shown!vars)
  <2>1. SUFFICES ASSUME TypeOK, IInv, PeriodOfTokens, [Next]_vars
                 PROVE  Shown!Next \/ UNCHANGED Shown!vars
    OBVIOUS
  <2>2. row \in Row
    BY <2>1 DEF TypeOK
  <2>3. ASSUME NEW q \in Query, Refresh(q) PROVE Shown!Next \/ UNCHANGED Shown!vars
    <3>1. CASE PublishTokens(q) \/ (PublishOperation(q) /\ row.source # "tokens" /\ OwnsRow(q))
      BY <2>1, <3>1, AcceptStep DEF Shown!Next
    <3>2. CASE ~(PublishTokens(q) \/ (PublishOperation(q) /\ row.source # "tokens" /\ OwnsRow(q)))
      <4>1. asOf' = asOf
        BY <2>3, <3>2 DEF Refresh, Load, Authenticate, AttemptWithoutLease, Claim, Busy, Answer, TokensSuperseded,
          PublishOperation, TokensRefused, OperationRefused, RecordAttempt, Release, ReleaseFails, Recover,
          RecoveryFails, FallBack, MarkNoOperation, Crash
      <4>2. BalanceKept
        <5>1. CASE PublishOperation(q)
          <6>1. row' = row \/ row' = [row EXCEPT !.lease = NoLease, !.live = FALSE, !.status = Downgraded]
            BY <3>2, <5>1 DEF PublishOperation
          <6> QED
            BY <2>2, <6>1, SameRow DEF Row, BalanceKept, Numbers, Downgraded
        <5> QED
          BY <2>1, <2>3, <3>2, <5>1, RefreshKeepsBalance
      <4> QED
        BY <2>1, <2>3, <4>1, <4>2, RefreshStutters, DoubtStep DEF Shown!Next
    <3> QED
      BY <3>1, <3>2
  <2>4. ASSUME NEW operation, Boundary(operation), asOf' = asOf, today' = today PROVE Shown!Cross
    BY <2>2, <2>4 DEF Boundary, Row, Downgraded, Shown!Cross
  <2>5. UNCHANGED <<row, boundaries, asOf, today>> => UNCHANGED Shown!vars
    BY DEF Shown!vars
  <2>6. ASSUME NEW r \in Request, Operate(r) PROVE Shown!Next \/ UNCHANGED Shown!vars
    BY <2>4, <2>5, <2>6 DEF Operate, Send, RememberOperation, CompleteOperation, UnchangedHistory, Shown!Next
  <2>7. CredentialRenewed => Shown!Renew
    BY <2>2 DEF CredentialRenewed, UnchangedHistory, Row, Shown!Renew
  <2>8. CredentialReplaced => Shown!Replace
    BY <2>2 DEF CredentialReplaced, Row, Shown!Replace, Shown!NoBalance
  <2>9. LeaseExpires => UNCHANGED Shown!vars
    BY <2>2 DEF LeaseExpires, UnchangedHistory, Row, Shown!vars
  <2>10. PeriodEnds => Shown!PeriodEnds
    BY DEF PeriodEnds, UnchangedHistory, Shown!PeriodEnds
  <2>11. UNCHANGED vars => UNCHANGED Shown!vars
    BY <2>5 DEF vars
  <2> QED
    BY <2>1, <2>3, <2>6, <2>7, <2>8, <2>9, <2>10, <2>11 DEF Next, Shown!Next
<1> QED
  BY <1>1, <1>2, TypeCorrect, InvariantHolds, PeriodOfTokensHolds, PTL DEF Spec, SnapshotKept, Shown!Spec

=============================================================================

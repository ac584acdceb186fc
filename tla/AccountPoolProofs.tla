-------------------------- MODULE AccountPoolProofs --------------------------
(***************************************************************************)
(* Theorems about AccountPool, for any number of requests, refreshers and  *)
(* revisions.                                                              *)
(*                                                                         *)
(* The argument: a copy of the account, wherever it is, is behind the row, *)
(* or tells the same.  Every statement that changes the row's health       *)
(* raises a revision, so that no copy but the writer's own matches the row *)
(* any longer.                                                             *)
(***************************************************************************)
EXTENDS AccountPool, TLAPS

Stored == Account \union {Gone}

\* A copy is behind the row, or has its health.
Behind(copy, stored) ==
    copy # Gone /\ stored # Gone =>
        /\ copy.credential <= stored.credential /\ copy.health <= stored.health
        /\ Matches(stored, copy) => copy.until = stored.until /\ copy.reauth = stored.reauth

\* The request has read the row, and has yet to record how it ended.
Using == {"checked", "sending", "succeeded", "failed"}

\* The state of a request fits the row: it knows all failures if it may still write.
Fits(state, stored, recorded) ==
    /\ state.account = Gone <=> state.pc = "idle"
    /\ Behind(state.account, stored)
    /\ state.pc \in Using /\ Matches(stored, state.account) => state.seen = recorded

\* One snapshot at a time is on its way; one without the account has been loaded after the
\* account was deleted, and so is every one that comes after such a snapshot was published.
SnapshotsFit ==
    /\ \A f, g \in Refresher : refresher[f].pc = "loaded" /\ refresher[g].pc = "loaded" => f = g
    /\ cache = Gone => row = Gone
    /\ \A f \in Refresher :
         /\ Behind(refresher[f].snapshot, row)
         /\ refresher[f].pc = "loaded" /\ (refresher[f].snapshot = Gone \/ cache = Gone)
              => refresher[f].snapshot = Gone /\ row = Gone

PoolInv ==
    /\ TypeOK
    /\ row # Gone => failures < row.health
    /\ Behind(cache, row)
    /\ \A r \in Request : Fits(request[r], row, failures)
    /\ SnapshotsFit

\* What a step does to the row: nothing, or it raises a revision, or deletes it.
RowMoves ==
    \/ row' = row /\ failures' = failures
    \/ row' = Gone /\ failures' = failures
    \/ /\ row # Gone /\ row' \in Account
       /\ row'.credential >= row.credential /\ row'.health >= row.health
       /\ row'.credential > row.credential \/ row'.health > row.health
       /\ failures' \in Nat /\ failures' < row'.health

-----------------------------------------------------------------------------
(* Copies and the row.                                                     *)

\* What the type of an account says of its columns.
LEMMA Columns ==
  ASSUME NEW a \in Account
  PROVE  /\ a # Gone
         /\ a.credential \in Nat /\ a.credential >= 1 /\ a.credential <= MaxCredential
         /\ a.health \in Nat /\ a.health >= 1 /\ a.health <= MaxHealth
         /\ a.until \in 0 .. Horizon + 1 /\ a.reauth \in BOOLEAN
  BY PoolConstants, GoneIsNoAccount DEF Account

\* Nothing is behind itself.
LEMMA BehindSelf == ASSUME NEW a \in Stored PROVE Behind(a, a)
  BY Columns DEF Behind, Stored

\* A copy that was behind the row, or told the same, is behind it when the row has moved.
LEMMA BehindStays ==
  ASSUME row \in Stored, RowMoves, NEW copy \in Stored, Behind(copy, row)
  PROVE  Behind(copy, row') /\ (copy # Gone /\ row' # Gone /\ row' # row => ~Matches(row', copy))
<1>1. CASE row' = row \/ row' = Gone \/ copy = Gone
  BY <1>1 DEF Behind
<1>2. CASE row' # row /\ row' # Gone /\ copy # Gone
  <2>1. /\ row \in Account /\ row' \in Account /\ copy \in Account
        /\ row'.credential >= row.credential /\ row'.health >= row.health
        /\ row'.credential > row.credential \/ row'.health > row.health
    BY <1>2 DEF RowMoves, Stored
  <2>2. copy.credential <= row.credential /\ copy.health <= row.health
    BY <1>2, <2>1, Columns DEF Behind
  <2>3. ~Matches(row', copy) /\ copy.credential <= row'.credential /\ copy.health <= row'.health
    BY <2>1, <2>2, Columns DEF Matches
  <2> QED
    BY <2>3 DEF Behind
<1> QED
  BY <1>1, <1>2

\* The health of the row in a copy of an older credential.
LEMMA BehindHealth ==
  ASSUME NEW copy \in Account, NEW a \in Account, copy.credential <= a.credential
  PROVE  /\ WithHealthOf(copy, a) \in Account /\ WithHealthOf(copy, a).credential = copy.credential
         /\ WithHealthOf(copy, a).health = a.health /\ WithHealthOf(copy, a).until = a.until
         /\ WithHealthOf(copy, a).reauth = a.reauth
         /\ Behind(WithHealthOf(copy, a), a)
<1>1. /\ WithHealthOf(copy, a) \in Account /\ WithHealthOf(copy, a).credential = copy.credential
      /\ WithHealthOf(copy, a).health = a.health /\ WithHealthOf(copy, a).until = a.until
      /\ WithHealthOf(copy, a).reauth = a.reauth
  BY DEF WithHealthOf, Account
<1> QED
  BY <1>1, Columns DEF Behind

\* A copy with the health of another of the same credential is behind when the other is.
LEMMA BehindOther ==
  ASSUME NEW copy \in Account, NEW other \in Account, copy.credential = other.credential,
         NEW stored \in Stored, Behind(other, stored)
  PROVE  WithHealthOf(copy, other) \in Account /\ Behind(WithHealthOf(copy, other), stored)
<1>1. WithHealthOf(copy, other) \in Account
  BY DEF WithHealthOf, Account
<1>2. WithHealthOf(copy, other) = other
  BY DEF WithHealthOf, Account
<1> QED
  BY <1>1, <1>2

LEMMA FitsStays ==
  ASSUME row \in Stored, RowMoves, NEW state \in RequestState, Fits(state, row, failures)
  PROVE  Fits(state, row', failures')
<1>1. state.account \in Stored
  BY DEF RequestState, Stored
<1>2. Behind(state.account, row')
  BY <1>1, BehindStays DEF Fits
<1>3. Matches(row', state.account) => row' = row
  BY <1>1, BehindStays DEF Fits, Matches
<1>4. row' = row /\ row # Gone => failures' = failures
  BY GoneIsNoAccount, Columns DEF RowMoves, Stored
<1> QED
  BY <1>2, <1>3, <1>4 DEF Fits, Matches

-----------------------------------------------------------------------------
(* The inductive invariant.                                                *)

LEMMA Types ==
  ASSUME PoolInv
  PROVE  /\ row \in Stored /\ cache \in Stored /\ now \in 0 .. Horizon /\ failures \in Nat
         /\ request \in [Request -> RequestState] /\ refresher \in [Refresher -> RefresherState]
         /\ \A r \in Request : /\ request[r] \in RequestState /\ request[r].account \in Stored
                               /\ request[r].seen \in Nat /\ request[r].unauthorized \in BOOLEAN
                               /\ request[r].account # Gone <=> request[r].pc # "idle"
                               /\ Behind(request[r].account, row)
         /\ \A f \in Refresher : refresher[f] \in RefresherState /\ refresher[f].snapshot \in Stored
         /\ Horizon \in Nat
  BY PoolConstants DEF PoolInv, TypeOK, Stored, RequestState, RefresherState, Fits

\* A step of a request, or of the rest of the service: whatever it does to the row, the cache
\* and one request, the other copies stay behind the row.
LEMMA PoolStep ==
  ASSUME PoolInv, RowMoves, row' \in Stored, now' \in 0 .. Horizon, failures' \in 0 .. MaxHealth,
         cache' \in Stored, Behind(cache', row'), cache' = Gone => cache = Gone,
         request' \in [Request -> RequestState],
         \A r \in Request : request'[r] = request[r] \/ Fits(request'[r], row', failures'),
         refresher' = refresher
  PROVE  PoolInv'
<1>1. ASSUME NEW r \in Request PROVE Fits(request'[r], row', failures')
  BY <1>1, Types, FitsStays DEF PoolInv
<1>2. TypeOK'
  BY <1>1 DEF PoolInv, TypeOK, Stored, Fits
<1>3. row' # Gone => failures' < row'.health
  BY DEF RowMoves, PoolInv
<1>4. row = Gone => row' = Gone
  BY DEF RowMoves
<1>5. ASSUME NEW f \in Refresher PROVE Behind(refresher[f].snapshot, row')
  BY <1>5, Types, BehindStays DEF PoolInv, SnapshotsFit
<1>6. SnapshotsFit'
  BY <1>4, <1>5 DEF PoolInv, SnapshotsFit
<1> QED
  BY <1>1, <1>2, <1>3, <1>6 DEF PoolInv

LEMMA PoolInit == Init => PoolInv
<1> SUFFICES ASSUME Init PROVE PoolInv
  OBVIOUS
<1>1. NewAccount \in Account /\ NewAccount.health = 1
  BY PoolConstants DEF NewAccount, Account
<1>2. IdleRequest \in RequestState /\ IdleRequest.pc = "idle" /\ IdleRequest.account = Gone
  BY DEF IdleRequest, RequestState
<1>3. IdleRefresher \in RefresherState /\ IdleRefresher.pc = "idle" /\ IdleRefresher.snapshot = Gone
  BY DEF IdleRefresher, RefresherState
<1>4. TypeOK
  BY <1>1, <1>2, <1>3, PoolConstants DEF Init, TypeOK
<1>5. Behind(cache, row)
  BY <1>1, BehindSelf DEF Init, Stored
<1>6. \A r \in Request : Fits(request[r], row, failures)
  BY <1>2 DEF Init, Fits, Behind, Using
<1>7. SnapshotsFit
  BY <1>1, <1>3, Columns DEF Init, SnapshotsFit, Behind
<1> QED
  BY <1>1, <1>4, <1>5, <1>6, <1>7 DEF PoolInv, Init

\* A request that leaves the database and the cache alone.
LEMMA PoolRequest ==
  ASSUME PoolInv, NEW r \in Request, NEW state \in RequestState, Become(r, state), Fits(state, row, failures),
         UNCHANGED <<row, cache, now, refresher, failures>>
  PROVE  PoolInv'
<1>1. RowMoves /\ row' \in Stored /\ now' \in 0 .. Horizon /\ cache' \in Stored /\ Behind(cache', row')
  BY Types DEF RowMoves, PoolInv
<1>2. failures' \in 0 .. MaxHealth /\ cache' = cache /\ refresher' = refresher /\ row' = row /\ failures' = failures
  BY DEF PoolInv, TypeOK
<1>3. request' \in [Request -> RequestState]
  BY Types DEF Become
<1>4. \A q \in Request : request'[q] = request[q] \/ Fits(request'[q], row', failures')
  BY <1>2, Types DEF Become
<1> QED
  BY <1>1, <1>2, <1>3, <1>4, PoolStep

LEMMA IdleFits == IdleRequest \in RequestState /\ Fits(IdleRequest, row, failures) /\ Fits(IdleRequest, row', failures')
  BY DEF IdleRequest, RequestState, Fits, Behind, Using

LEMMA PoolChoose == ASSUME PoolInv, NEW r \in Request, Choose(r) PROVE PoolInv'
<1> DEFINE state == [request[r] EXCEPT !.pc = "chosen", !.account = cache]
<1>1. cache \in Account /\ Behind(cache, row)
  BY Types DEF Choose, PoolInv, Stored
<1>2. state \in RequestState /\ state.pc = "chosen" /\ state.account = cache
  BY <1>1, Types DEF RequestState
<1>3. Fits(state, row, failures)
  BY <1>1, <1>2, Columns DEF Fits, Using
<1> QED
  BY <1>2, <1>3, PoolRequest DEF Choose

LEMMA PoolRecheck == ASSUME PoolInv, NEW r \in Request, Recheck(r) PROVE PoolInv'
<1>1. request[r].pc = "chosen" /\ request[r].account \in Account
  BY Types DEF Recheck, Stored
<1>2. CASE row # Gone /\ Healthy(row)
  <2> DEFINE copy == WithHealthOf(request[r].account, row)
             state == [request[r] EXCEPT !.pc = "checked", !.seen = failures, !.account = copy]
  <2>1. Become(r, state)
    BY <1>2, Types DEF Recheck, Become
  <2>2. row \in Account /\ request[r].account.credential <= row.credential
    BY <1>1, <1>2, Types, Columns DEF Stored, Behind
  <2>3. copy \in Account /\ Behind(copy, row)
    BY <1>1, <2>2, BehindHealth
  <2> HIDE DEF copy
  <2>4. state \in RequestState /\ state.pc = "checked" /\ state.account = copy /\ state.seen = failures
    BY <2>3, Types DEF RequestState
  <2>5. Fits(state, row, failures)
    BY <2>3, <2>4, Columns DEF Fits
  <2> QED
    BY <2>1, <2>4, <2>5, PoolRequest DEF Recheck
<1>3. CASE ~(row # Gone /\ Healthy(row))
  BY <1>3, IdleFits, PoolRequest DEF Recheck, Finish
<1> QED
  BY <1>2, <1>3

\* A request goes on with its copy, or takes over the whole row.
LEMMA PoolGoes ==
  ASSUME PoolInv, NEW r \in Request, request[r].pc \in Using, NEW label \in Using, NEW unauthorized \in BOOLEAN,
         Become(r, [request[r] EXCEPT !.pc = label, !.unauthorized = unauthorized]),
         UNCHANGED <<row, cache, now, refresher, failures>>
  PROVE  PoolInv'
<1> DEFINE state == [request[r] EXCEPT !.pc = label, !.unauthorized = unauthorized]
<1>1. /\ state \in RequestState /\ state.pc = label /\ state.account = request[r].account /\ state.seen = request[r].seen
  BY Types DEF RequestState, Using
<1>2. Fits(state, row, failures)
  BY <1>1, Types DEF PoolInv, Fits, Using
<1> QED
  BY <1>1, <1>2, PoolRequest

LEMMA PoolMerges ==
  ASSUME PoolInv, NEW r \in Request, row # Gone,
         Become(r, [request[r] EXCEPT !.pc = "sending", !.account = row, !.seen = failures]),
         UNCHANGED <<row, cache, now, refresher, failures>>
  PROVE  PoolInv'
<1> DEFINE state == [request[r] EXCEPT !.pc = "sending", !.account = row, !.seen = failures]
<1>1. row \in Account /\ Behind(row, row)
  BY Types, BehindSelf DEF Stored
<1>2. state \in RequestState /\ state.pc = "sending" /\ state.account = row /\ state.seen = failures
  BY <1>1, Types DEF RequestState
<1>3. Fits(state, row, failures)
  BY <1>1, <1>2, Columns DEF Fits
<1> QED
  BY <1>2, <1>3, PoolRequest

LEMMA PoolGoto ==
  ASSUME PoolInv, NEW r \in Request, request[r].pc \in Using, NEW label \in Using, Goto(r, label),
         UNCHANGED <<row, cache, now, refresher, failures>>
  PROVE  PoolInv'
<1>1. [request[r] EXCEPT !.pc = label] = [request[r] EXCEPT !.pc = label, !.unauthorized = request[r].unauthorized]
  BY Types DEF RequestState
<1>2. Become(r, [request[r] EXCEPT !.pc = label, !.unauthorized = request[r].unauthorized])
  BY <1>1 DEF Goto
<1>3. request[r].unauthorized \in BOOLEAN
  BY Types
<1> QED
  BY <1>2, <1>3, PoolGoes

LEMMA PoolEnsureUsable == ASSUME PoolInv, NEW r \in Request, EnsureUsable(r) PROVE PoolInv'
<1>1. request[r].pc \in Using /\ UNCHANGED <<row, cache, now, refresher, failures>>
  BY DEF EnsureUsable, Using
<1>2. CASE Become(r, [request[r] EXCEPT !.pc = "sending", !.account = row, !.seen = failures]) /\ row # Gone
  BY <1>1, <1>2, PoolMerges
<1>3. CASE \E label \in Using : Goto(r, label)
  BY <1>1, <1>3, PoolGoto
<1>4. \/ Become(r, [request[r] EXCEPT !.pc = "sending", !.account = row, !.seen = failures]) /\ row # Gone
      \/ Goto(r, "failed")
      \/ Goto(r, "sending")
  BY DEF EnsureUsable
<1> QED
  BY <1>2, <1>3, <1>4 DEF Using

LEMMA PoolMerge == ASSUME PoolInv, NEW r \in Request, Merge(r) PROVE PoolInv'
<1>1. [request[r] EXCEPT !.account = row, !.seen = failures]
        = [request[r] EXCEPT !.pc = "sending", !.account = row, !.seen = failures]
  BY Types DEF Merge, RequestState
<1> QED
  BY <1>1, PoolMerges DEF Merge

LEMMA PoolAnswer == ASSUME PoolInv, NEW r \in Request, Answer(r) PROVE PoolInv'
<1>1. request[r].pc \in Using /\ UNCHANGED <<row, cache, now, refresher, failures>>
  BY DEF Answer, Using
<1>2. CASE Goto(r, "succeeded")
  BY <1>1, <1>2, PoolGoto DEF Using
<1>3. CASE \E unauthorized \in BOOLEAN :
             Become(r, [request[r] EXCEPT !.pc = "failed", !.unauthorized = unauthorized])
  BY <1>1, <1>3, PoolGoes DEF Using
<1> QED
  BY <1>2, <1>3 DEF Answer

LEMMA PoolAbandon == ASSUME PoolInv, NEW r \in Request, Abandon(r) PROVE PoolInv'
  BY IdleFits, PoolRequest DEF Abandon, Finish

LEMMA PoolReread == ASSUME PoolInv, NEW r \in Request, Reread(r) PROVE PoolInv'
<1> DEFINE copy == IF row = Gone THEN request[r].account ELSE WithHealthOf(request[r].account, row)
           state == [request[r] EXCEPT !.pc = "publishing", !.account = copy]
<1>1. Become(r, state)
  BY Types DEF Reread, Become
<1>2. request[r].account \in Account
  BY Types DEF Reread, Stored
<1>3. copy \in Account /\ Behind(copy, row)
  <2>1. CASE row = Gone
    BY <1>2, <2>1 DEF Behind
  <2>2. CASE row # Gone
    <3>1. row \in Account /\ request[r].account.credential <= row.credential
      BY <1>2, <2>2, Types, Columns DEF Stored, Behind
    <3> QED
      BY <1>2, <2>2, <3>1, BehindHealth
  <2> QED
    BY <2>1, <2>2
<1> HIDE DEF copy
<1>4. state \in RequestState /\ state.pc = "publishing" /\ state.account = copy
  BY <1>3, Types DEF RequestState
<1>5. Fits(state, row, failures)
  BY <1>3, <1>4, Columns DEF Fits, Using
<1> QED
  BY <1>1, <1>4, <1>5, PoolRequest DEF Reread

\* A copy that matches the row writes the next health into both.
LEMMA PoolWrites ==
  ASSUME PoolInv, NEW r \in Request, Matches(row, request[r].account), row' \in Account,
         row'.credential >= row.credential, row'.health = row.health + 1,
         failures' \in {failures, failures + 1}, UNCHANGED <<cache, now, refresher>>,
         NEW state \in RequestState, Become(r, state), Fits(state, row', failures')
  PROVE  PoolInv'
<1>1. row \in Account /\ row # Gone /\ row.health \in Nat
  BY Types, Columns DEF Matches, Stored
<1>2. failures' \in Nat /\ failures' < row'.health /\ failures' \in 0 .. MaxHealth
  BY <1>1, Types, Columns, PoolConstants DEF PoolInv
<1>3. RowMoves
  BY <1>1, <1>2 DEF RowMoves
<1>4. Behind(cache', row') /\ cache' \in Stored /\ cache' = cache /\ refresher' = refresher /\ now' \in 0 .. Horizon
  BY <1>3, Types, BehindStays DEF PoolInv
<1>5. request' \in [Request -> RequestState] /\ \A q \in Request : request'[q] = request[q] \/ Fits(request'[q], row', failures')
  BY Types DEF Become
<1>6. row' \in Stored
  BY DEF Stored
<1> QED
  BY <1>2, <1>3, <1>4, <1>5, <1>6, PoolStep

LEMMA PoolRenewTokens == ASSUME PoolInv, NEW r \in Request, RenewTokens(r) PROVE PoolInv'
<1> DEFINE state == [request[r] EXCEPT !.account = row']
<1>1. row \in Account /\ row.health < MaxHealth /\ row.credential < MaxCredential /\ Matches(row, request[r].account)
  BY Types DEF RenewTokens, CanRenew, Matches, Stored
<1>2. row' = [credential |-> row.credential + 1, health |-> row.health + 1, until |-> 0, reauth |-> FALSE]
  BY DEF RenewTokens
<1>3. row' \in Account /\ row'.credential >= row.credential /\ row'.health = row.health + 1
  BY <1>1, <1>2, Columns, PoolConstants DEF Account
<1>4. state \in RequestState /\ state.pc = "sending" /\ state.account = row' /\ state.seen = request[r].seen
  BY <1>3, Types DEF RenewTokens, RequestState
<1>5. request[r].seen = failures
  BY <1>1 DEF RenewTokens, PoolInv, Fits, Using
<1>6. Fits(state, row', failures')
  BY <1>3, <1>4, <1>5, BehindSelf, Columns DEF RenewTokens, Fits, Stored
<1>7. Become(r, state) /\ UNCHANGED <<cache, now, refresher>> /\ failures' \in {failures, failures + 1}
  BY DEF RenewTokens
<1> QED
  BY <1>1, <1>3, <1>4, <1>6, <1>7, PoolWrites

\* The next health of an account, with another cooldown.
LEMMA NextHealth ==
  ASSUME NEW a \in Account, a.health < MaxHealth, NEW reauth \in BOOLEAN
  PROVE  LET next == [a EXCEPT !.health = a.health + 1, !.until = 0, !.reauth = reauth] IN
           /\ a.health + 1 \in 1 .. MaxHealth
           /\ next \in Account /\ next.credential = a.credential /\ next.health = a.health + 1 /\ next.until = 0
           /\ next.reauth = reauth
<1>1. a.health + 1 \in 1 .. MaxHealth
  BY Columns, PoolConstants
<1>2. 0 \in 0 .. Horizon + 1
  BY PoolConstants
<1> QED
  BY <1>1, <1>2 DEF Account

LEMMA PoolMarkHealthy == ASSUME PoolInv, NEW r \in Request, MarkHealthy(r) PROVE PoolInv'
<1>1. CASE ~ClearsFailure(r)
  BY <1>1, IdleFits, PoolRequest DEF MarkHealthy, Finish
<1>2. CASE ClearsFailure(r)
  <2> DEFINE account == request[r].account
             copy == [account EXCEPT !.health = account.health + 1, !.until = 0, !.reauth = FALSE]
             state == [request[r] EXCEPT !.pc = "publishing", !.account = copy]
  <2>1. Matches(row, account) /\ row \in Account /\ account \in Account /\ row.health < MaxHealth /\ row.reauth = FALSE
    BY <1>2, Types, Columns DEF MarkHealthy, ClearsFailure, Matches, Stored
  <2>2. row' = [row EXCEPT !.health = row.health + 1, !.until = 0]
    BY <1>2 DEF MarkHealthy
  <2>3. row' \in Account /\ row'.credential = row.credential /\ row'.health = row.health + 1 /\ row'.until = 0
        /\ row'.reauth = FALSE
    <3>1. [row EXCEPT !.health = row.health + 1, !.until = 0]
            = [row EXCEPT !.health = row.health + 1, !.until = 0, !.reauth = FALSE]
      BY <2>1 DEF Account
    <3> QED
      BY <2>1, <2>2, <3>1, NextHealth
  <2>4. copy \in Account /\ copy.credential = row.credential /\ copy.health = row.health + 1 /\ copy.until = 0
        /\ copy.reauth = FALSE
    BY <2>1, NextHealth DEF Matches
  <2>5. Become(r, state)
    BY <1>2, Types DEF MarkHealthy, Become, RequestState
  <2> HIDE DEF copy
  <2>6. state \in RequestState /\ state.pc = "publishing" /\ state.account = copy
    BY <2>4, Types DEF RequestState
  <2>7. Fits(state, row', failures')
    BY <2>1, <2>3, <2>4, <2>6, Columns DEF Fits, Behind, Using
  <2> QED
    BY <2>1, <2>3, <2>5, <2>6, <2>7, Columns, PoolWrites DEF MarkHealthy
<1> QED
  BY <1>1, <1>2

LEMMA PoolMarkFailure == ASSUME PoolInv, NEW r \in Request, MarkFailure(r) PROVE PoolInv'
<1> DEFINE account == request[r].account
           unauthorized == request[r].unauthorized
<1>1. CASE ~(Matches(row, account) /\ (row.reauth => unauthorized))
  BY <1>1, IdleFits, PoolRequest DEF MarkFailure, Finish
<1>2. CASE Matches(row, account) /\ (row.reauth => unauthorized)
  <2>1. PICK until \in now + 1 .. Horizon + 1 :
          LET health == [health |-> account.health + 1, until |-> until, reauth |-> unauthorized] IN
            /\ row' = WithHealthOf(row, health)
            /\ Become(r, [request[r] EXCEPT !.pc = "rereading", !.account = WithHealthOf(@, health)])
    BY <1>2 DEF MarkFailure
  <2> DEFINE health == [health |-> account.health + 1, until |-> until, reauth |-> unauthorized]
             copy == WithHealthOf(account, health)
             state == [request[r] EXCEPT !.pc = "rereading", !.account = copy]
  <2>2. /\ row \in Account /\ account \in Account /\ row.health = account.health
        /\ row.credential = account.credential /\ unauthorized \in BOOLEAN
    BY <1>2, Types DEF Matches, Stored
  <2>3. row.health < MaxHealth
    BY <1>2 DEF MarkFailure
  <2>4. until \in 0 .. Horizon + 1
    BY Types
  <2>5. /\ health.health = row.health + 1 /\ health.health \in 1 .. MaxHealth /\ health.until = until
        /\ health.reauth = unauthorized
    BY <2>2, <2>3, Columns, PoolConstants
  <2>6. row' = WithHealthOf(row, health) /\ Become(r, state)
    BY <2>1, Types DEF Become
  <2> HIDE DEF health
  <2>7. row' \in Account /\ row'.credential = row.credential /\ row'.health = row.health + 1 /\ row'.until = until
        /\ row'.reauth = unauthorized
    BY <2>2, <2>4, <2>5, <2>6 DEF WithHealthOf, Account
  <2>8. copy \in Account /\ copy.credential = row.credential /\ copy.health = row.health + 1 /\ copy.until = until
        /\ copy.reauth = unauthorized
    BY <2>2, <2>4, <2>5 DEF WithHealthOf, Account
  <2> HIDE DEF copy
  <2>9. state \in RequestState /\ state.pc = "rereading" /\ state.account = copy
    BY <2>8, Types DEF RequestState
  <2>10. Fits(state, row', failures')
    BY <2>7, <2>8, <2>9, Columns DEF Fits, Behind, Using
  <2>11. failures' = failures + 1 /\ UNCHANGED <<cache, now, refresher>>
    BY <1>2 DEF MarkFailure
  <2> QED
    BY <1>2, <2>2, <2>6, <2>7, <2>9, <2>10, <2>11, Columns, PoolWrites
<1> QED
  BY <1>1, <1>2

\* The cache after updatePoolHealth.
LEMMA PublishedHealth ==
  ASSUME PoolInv, NEW r \in Request, PublishHealth(r)
  PROVE  /\ cache' \in Stored /\ Behind(cache', row) /\ (cache' = Gone <=> cache = Gone)
         /\ cache # Gone => cache'.credential = cache.credential /\ cache'.health >= cache.health
<1> DEFINE account == request[r].account
<1>1. account \in Account /\ Behind(account, row)
  BY Types DEF PublishHealth, Stored
<1>2. CASE TakesHealth(account)
  <2>1. cache \in Account /\ cache.credential = account.credential /\ cache.health <= account.health
        /\ cache' = WithHealthOf(cache, account)
    BY <1>2, Types DEF PublishHealth, TakesHealth, Stored
  <2>2. cache' \in Account /\ Behind(cache', row)
    BY <1>1, <2>1, Types, BehindOther
  <2>3. cache'.credential = cache.credential /\ cache'.health = account.health
    BY <1>1, <2>1 DEF WithHealthOf, Account
  <2> QED
    BY <2>1, <2>2, <2>3, Columns, <1>1 DEF Stored
<1>3. CASE ~TakesHealth(account)
  <2>1. cache' = cache
    BY <1>3 DEF PublishHealth
  <2> QED
    BY <2>1, Types, Columns DEF PoolInv, Stored
<1> QED
  BY <1>2, <1>3

LEMMA PoolPublishHealth == ASSUME PoolInv, NEW r \in Request, PublishHealth(r) PROVE PoolInv'
<1>1. Become(r, IdleRequest) /\ UNCHANGED <<row, now, refresher, failures>>
  BY DEF PublishHealth, Finish
<1>2. request' \in [Request -> RequestState] /\ \A q \in Request : request'[q] = request[q] \/ Fits(request'[q], row', failures')
  BY <1>1, Types, IdleFits DEF Become
<1>3. RowMoves /\ row' \in Stored /\ now' \in 0 .. Horizon /\ failures' \in 0 .. MaxHealth /\ refresher' = refresher
  BY <1>1, Types DEF RowMoves, PoolInv, TypeOK
<1>4. cache' \in Stored /\ Behind(cache', row') /\ (cache' = Gone => cache = Gone)
  BY <1>1, PublishedHealth
<1> QED
  BY <1>2, <1>3, <1>4, PoolStep

LEMMA PoolLoadAccounts == ASSUME PoolInv, NEW f \in Refresher, LoadAccounts(f) PROVE PoolInv'
<1> DEFINE s == [pc |-> "loaded", snapshot |-> row]
<1>1. /\ refresher' = [refresher EXCEPT ![f] = s] /\ UNCHANGED <<row, cache, now, request, failures>>
      /\ \A g \in Refresher : refresher[g].pc = "idle"
  BY DEF LoadAccounts, LockRefresh
<1>2. s \in RefresherState /\ Behind(row, row)
  BY Types, BehindSelf DEF RefresherState, Stored
<1>3. refresher' \in [Refresher -> RefresherState] /\ refresher'[f] = s /\ \A g \in Refresher \ {f} : refresher'[g] = refresher[g]
  BY <1>1, <1>2, Types
<1>4. TypeOK'
  BY <1>1, <1>3 DEF PoolInv, TypeOK
<1>5. SnapshotsFit'
  <2>1. \A g, h \in Refresher : refresher'[g].pc = "loaded" /\ refresher'[h].pc = "loaded" => g = h
    BY <1>1, <1>3
  <2>2. ASSUME NEW g \in Refresher
        PROVE  /\ Behind(refresher'[g].snapshot, row')
               /\ refresher'[g].pc = "loaded" /\ (refresher'[g].snapshot = Gone \/ cache' = Gone)
                    => refresher'[g].snapshot = Gone /\ row' = Gone
    BY <1>1, <1>2, <1>3 DEF PoolInv, SnapshotsFit
  <2> QED
    BY <1>1, <2>1, <2>2 DEF PoolInv, SnapshotsFit
<1> QED
  BY <1>1, <1>4, <1>5 DEF PoolInv

\* The cache after mergeAccountPoolRuntime: never older than before.
LEMMA MergedForward ==
  ASSUME PoolInv, NEW f \in Refresher, PublishAccounts(f)
  PROVE  /\ cache' \in Stored /\ Behind(cache', row)
         /\ cache' = Gone => row = Gone
         /\ cache = Gone => cache' = Gone
         /\ cache # Gone /\ cache' # Gone =>
              \/ cache'.credential > cache.credential
              \/ cache'.credential = cache.credential /\ cache'.health >= cache.health
<1> DEFINE snapshot == refresher[f].snapshot
<1>1. snapshot \in Stored /\ Behind(snapshot, row) /\ cache' = Merged(snapshot) /\ cache \in Stored /\ Behind(cache, row)
  BY Types DEF PublishAccounts, PoolInv, SnapshotsFit
<1>2. (snapshot = Gone \/ cache = Gone) => snapshot = Gone /\ row = Gone
  BY DEF PublishAccounts, PoolInv, SnapshotsFit
<1> HIDE DEF snapshot
<1>3. CASE snapshot = Gone \/ cache = Gone
  BY <1>1, <1>2, <1>3 DEF Merged
<1>4. CASE snapshot \in Account /\ cache \in Account
  <2>1. CASE cache.credential > snapshot.credential
    BY <1>1, <1>4, <2>1, Columns, GoneIsNoAccount DEF Merged
  <2>2. CASE cache.credential = snapshot.credential /\ cache.health > snapshot.health
    <3>1. cache' = WithHealthOf(snapshot, cache)
      BY <1>1, <1>4, <2>2, Columns DEF Merged
    <3>2. cache' \in Account /\ Behind(cache', row)
      BY <1>1, <1>4, <2>2, <3>1, Types, BehindOther
    <3>3. cache'.credential = cache.credential /\ cache'.health = cache.health
      BY <1>4, <2>2, <3>1 DEF WithHealthOf, Account
    <3> QED
      BY <1>4, <3>2, <3>3, Columns, GoneIsNoAccount DEF Stored
  <2>3. CASE ~(cache.credential > snapshot.credential) /\ ~(cache.credential = snapshot.credential /\ cache.health > snapshot.health)
    BY <1>1, <1>4, <2>3, Columns, GoneIsNoAccount DEF Merged
  <2> QED
    BY <2>1, <2>2, <2>3
<1> QED
  BY <1>1, <1>3, <1>4 DEF Stored

LEMMA PoolPublishAccounts == ASSUME PoolInv, NEW f \in Refresher, PublishAccounts(f) PROVE PoolInv'
<1>1. refresher' = [refresher EXCEPT ![f] = IdleRefresher] /\ UNCHANGED <<row, now, request, failures>> /\ refresher[f].pc = "loaded"
  BY DEF PublishAccounts
<1>2. IdleRefresher \in RefresherState /\ IdleRefresher.pc = "idle" /\ Behind(IdleRefresher.snapshot, row)
  BY DEF IdleRefresher, RefresherState, Behind
<1>3. refresher' \in [Refresher -> RefresherState] /\ \A g \in Refresher : refresher'[g].pc = "idle" /\ Behind(refresher'[g].snapshot, row)
  <2>1. \A g \in Refresher \ {f} : refresher[g].pc = "idle" /\ refresher'[g] = refresher[g]
    BY <1>1, Types DEF PoolInv, SnapshotsFit, RefresherState
  <2> QED
    BY <1>1, <1>2, <2>1, Types DEF PoolInv, SnapshotsFit
<1>4. TypeOK'
  BY <1>1, <1>3, MergedForward DEF PoolInv, TypeOK, Stored
<1>5. SnapshotsFit'
  BY <1>1, <1>3, MergedForward DEF SnapshotsFit
<1>6. Behind(cache', row')
  BY <1>1, MergedForward
<1> QED
  BY <1>1, <1>4, <1>5, <1>6 DEF PoolInv

\* The rest of the service.
LEMMA PoolRest == ASSUME PoolInv, ReplaceCredential \/ Delete \/ Tick \/ UNCHANGED vars PROVE PoolInv'
<1>1. UNCHANGED <<cache, request, refresher, failures>>
  BY DEF ReplaceCredential, Delete, Tick, vars
<1>2. now' \in 0 .. Horizon /\ failures' \in 0 .. MaxHealth
  BY Types DEF PoolInv, TypeOK, ReplaceCredential, Delete, Tick, vars
<1>3. RowMoves /\ row' \in Stored
  <2>1. CASE ReplaceCredential
    <3>1. row \in Account /\ row.credential < MaxCredential /\ row' = [row EXCEPT !.credential = row.credential + 1, !.until = 0, !.reauth = FALSE]
      BY <2>1, Types DEF ReplaceCredential, Stored
    <3>2. row.credential + 1 \in 1 .. MaxCredential /\ 0 \in 0 .. Horizon + 1
      BY <3>1, Columns, PoolConstants
    <3>3. row' \in Account /\ row'.credential = row.credential + 1 /\ row'.health = row.health
      BY <3>1, <3>2 DEF Account
    <3> QED
      BY <1>1, <3>1, <3>3, Types, Columns DEF RowMoves, PoolInv, Stored
  <2>2. CASE ~ReplaceCredential
    BY <1>1, <2>2, Types DEF RowMoves, Delete, Tick, vars, Stored
  <2> QED
    BY <2>1, <2>2
<1>4. cache' \in Stored /\ Behind(cache', row') /\ cache' = cache /\ refresher' = refresher
  BY <1>1, <1>3, Types, BehindStays DEF PoolInv
<1>5. request' \in [Request -> RequestState] /\ \A r \in Request : request'[r] = request[r]
  BY <1>1, Types
<1> QED
  BY <1>2, <1>3, <1>4, <1>5, PoolStep

LEMMA PoolNext == PoolInv /\ [Next]_vars => PoolInv'
  BY PoolChoose, PoolRecheck, PoolEnsureUsable, PoolMerge, PoolRenewTokens, PoolAnswer, PoolMarkHealthy, PoolMarkFailure,
    PoolReread, PoolPublishHealth, PoolAbandon, PoolLoadAccounts, PoolPublishAccounts, PoolRest DEF Next

LEMMA PoolAlways == Spec => []PoolInv
  BY PoolInit, PoolNext, PTL DEF Spec

\* Type correctness: the row, the cache, the copies and the snapshots keep their types.
THEOREM TypeCorrect == Spec => []TypeOK
<1>1. PoolInv => TypeOK
  BY DEF PoolInv
<1> QED
  BY <1>1, PoolAlways, PTL

\* What the scheduler believes of an account under the revisions of the row is what the row
\* says, whatever copies and snapshots are on their way.
THEOREM CacheStaysTrue == Spec => []CacheIsTrue
<1>1. PoolInv => CacheIsTrue
  BY DEF PoolInv, CacheIsTrue, Behind, Matches
<1> QED
  BY <1>1, PoolAlways, PTL

-----------------------------------------------------------------------------
(* Steps.                                                                  *)

\* Neither a slow snapshot nor a slow request takes the scheduler back to an older credential
\* or health, nor to an account that is deleted.
THEOREM CacheOnlyForward == Spec => CacheMovesForward
<1> DEFINE Forward ==
       /\ cache # Gone /\ cache' # Gone
            => \/ cache'.credential > cache.credential
               \/ cache'.credential = cache.credential /\ cache'.health >= cache.health
       /\ row = Gone /\ cache = Gone => cache' = Gone
<1>1. ASSUME PoolInv, cache' = cache PROVE Forward
  BY <1>1, Types, Columns DEF Stored
<1>2. ASSUME PoolInv, NEW r \in Request, PublishHealth(r) PROVE Forward
  BY <1>2, PublishedHealth
<1>3. ASSUME PoolInv, NEW f \in Refresher, PublishAccounts(f) PROVE Forward
  BY <1>3, MergedForward
<1>4. PoolInv /\ [Next]_vars => [Forward]_vars
  BY <1>1, <1>2, <1>3
     DEF Next, Choose, Recheck, EnsureUsable, Merge, RenewTokens, Answer, MarkHealthy, MarkFailure, Reread, Abandon,
         LoadAccounts, ReplaceCredential, Delete, Tick
<1>5. QED
  BY <1>4, PoolAlways, PTL DEF Spec, CacheMovesForward

\* A success that is older than the last failure does not lift its cooldown, and the need for
\* a new login is ended by a login or a rotated key, never by a request.
THEOREM FailuresOnlyByLogin == Spec => FailuresStand
<1> DEFINE Stands ==
       row # Gone /\ row' # Gone =>
         /\ row.until > now /\ row'.until = 0 =>
              \A r \in Request : request'[r] # request[r] => request[r].seen = failures
         /\ row.reauth /\ ~row'.reauth => request' = request
<1>1. ASSUME PoolInv, row' = row \/ row' = Gone PROVE Stands
  <2>1. row # Gone => row.until \in Nat
    BY <1>1, Types, Columns DEF Stored
  <2> QED
    BY <1>1, <2>1, Types
<1>2. ASSUME PoolInv, NEW r \in Request, Matches(row, request[r].account), request[r].pc \in Using, ~row.reauth,
             NEW state, Become(r, state)
      PROVE Stands
  <2>1. \A q \in Request \ {r} : request'[q] = request[q]
    BY <1>2, Types DEF Become
  <2>2. request[r].seen = failures
    BY <1>2 DEF PoolInv, Fits
  <2> QED
    BY <1>2, <2>1, <2>2
<1>3. ASSUME PoolInv, NEW r \in Request, RenewTokens(r) PROVE Stands
  BY <1>2, <1>3 DEF RenewTokens, CanRenew, Using
<1>4. ASSUME PoolInv, NEW r \in Request, MarkHealthy(r) PROVE Stands
  BY <1>1, <1>2, <1>4 DEF MarkHealthy, ClearsFailure, Using
<1>5. ASSUME PoolInv, NEW r \in Request, MarkFailure(r) PROVE Stands
  <2>1. CASE Matches(row, request[r].account) /\ (row.reauth => request[r].unauthorized)
    <3>1. PICK until \in now + 1 .. Horizon + 1 :
            row' = WithHealthOf(row, [health |-> request[r].account.health + 1, until |-> until,
                                      reauth |-> request[r].unauthorized])
      BY <1>5, <2>1 DEF MarkFailure
    <3>2. row \in Account
      BY <2>1, Types, <1>5 DEF Matches, Stored
    <3>3. row'.until = until /\ row'.reauth = request[r].unauthorized
      BY <3>1, <3>2 DEF WithHealthOf, Account
    <3> QED
      BY <1>5, <2>1, <3>3, Types
  <2>2. CASE ~(Matches(row, request[r].account) /\ (row.reauth => request[r].unauthorized))
    BY <1>1, <1>5, <2>2 DEF MarkFailure
  <2> QED
    BY <2>1, <2>2
<1>6. ASSUME PoolInv, ReplaceCredential PROVE Stands
  BY <1>6 DEF ReplaceCredential
<1>7. PoolInv /\ [Next]_vars => [Stands]_vars
  BY <1>1, <1>3, <1>4, <1>5, <1>6
     DEF Next, Choose, Recheck, EnsureUsable, Merge, Answer, Reread, PublishHealth, Abandon, LoadAccounts, PublishAccounts,
         Delete, Tick
<1>8. QED
  BY <1>7, PoolAlways, PTL DEF Spec, FailuresStand

=============================================================================

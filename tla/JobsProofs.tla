----------------------------- MODULE JobsProofs -----------------------------
(***************************************************************************)
(* Theorems about what several instances do to one database: a login, the  *)
(* scan for due balances and the start, each for any number of instances   *)
(* and callbacks, and the composition that MCJobs checks.                  *)
(***************************************************************************)
EXTENDS MCJobs, DailyUsageProofs

-----------------------------------------------------------------------------
(* The start (Migration).                                                  *)

\* A schema that has reached a version is what the migrations up to it have made of it.
Shape(d, version) ==
    /\ version >= 1 => "client_secret" \notin d.columns
    /\ version >= 2 => "code_verifier" \in d.columns
    /\ version >= 3 => d.rows.status = "known"
    /\ version < Starts!Latest => d.rows.verifier = "none"
    /\ version = Starts!Latest =>
         /\ d.columns = Starts!Present /\ d.rows.verifier # "lost"
         /\ d.rows.balance => d.rows.source = "tokens"

\* What is committed, and what a migration has made of it, have their shapes; the one that
\* writes is migrating; an instance serves on the last version only.
StartInv ==
    /\ Starts!TypeOK
    /\ Shape(db, db.version)
    /\ writer = Nobody => copy = db
    /\ writer # Nobody =>
         /\ start[writer].pc = "migrating"
         /\ copy.version = db.version
         /\ Shape(copy, start[writer].version)
    /\ \A i \in Instance : start[i].pc = "serving" => db.version = Starts!Latest

Database == [version: Starts!Version, columns: SUBSET Starts!Columns, rows: Starts!Rows]

LEMMA StartInit == Starts!Init => StartInv
<1>1. SUFFICES ASSUME Starts!Init PROVE StartInv
  OBVIOUS
<1>2. PICK v \in 0 .. 5 :
        db = [version |-> v, columns |-> Starts!ColumnsOf(v),
              rows |-> [verifier |-> "none", status |-> IF v < 3 THEN "unset" ELSE "known",
                        balance |-> v >= 3, source |-> IF v < 5 THEN "unset" ELSE "tokens"]]
  BY <1>1 DEF Starts!Init, Starts!Version, Starts!Latest
<1>3. v \in {0, 1, 2, 3, 4, 5}
  OBVIOUS
<1>4. Starts!ColumnsOf(v) \in SUBSET Starts!Columns
  BY <1>3 DEF Starts!ColumnsOf, Starts!Columns, Starts!Present
<1>a. db.version = v /\ db.columns = Starts!ColumnsOf(v)
  BY <1>2
<1>b. db.rows = [verifier |-> "none", status |-> IF v < 3 THEN "unset" ELSE "known",
                        balance |-> v >= 3, source |-> IF v < 5 THEN "unset" ELSE "tokens"]
  BY <1>2
<1>c. (v >= 3) \in BOOLEAN
  OBVIOUS
<1>d. db.rows.verifier = "none" /\ (v >= 3 => db.rows.status = "known") /\ (v >= 5 => db.rows.source = "tokens")
  BY <1>b, <1>3
<1>5. db.rows \in Starts!Rows
  BY <1>b, <1>c, <1>3 DEF Starts!Rows
<1>6. Shape(db, v)
  BY <1>a, <1>d, <1>3 DEF Shape, Starts!ColumnsOf, Starts!Latest, Starts!Present, Starts!Columns
<1> QED
  BY <1>1, <1>2, <1>4, <1>5, <1>6 DEF Starts!Init, StartInv, Starts!TypeOK, Starts!Version, Starts!Latest, Starts!Off

LEMMA MigratedShape ==
  ASSUME NEW d \in Database, NEW v \in Starts!Version, v < Starts!Latest, Shape(d, v)
  PROVE  /\ Starts!Migrated(d, v + 1) \in Database
         /\ Starts!Migrated(d, v + 1).version = d.version
         /\ Shape(Starts!Migrated(d, v + 1), v + 1)
<1>1. v \in {0, 1, 2, 3, 4}
  BY DEF Starts!Version, Starts!Latest
<1>2. /\ d.version \in Starts!Version /\ d.columns \in SUBSET Starts!Columns /\ d.rows \in Starts!Rows
      /\ v < Starts!Latest => d.rows.verifier = "none"
      /\ v >= 3 => d.rows.status = "known"
  BY DEF Database, Shape
<1> DEFINE verifier == [d.rows EXCEPT !.verifier = IF d.rows.verifier = "stored" THEN "lost" ELSE d.rows.verifier]
           status == [d.rows EXCEPT !.status = "known"]
           source == [d.rows EXCEPT !.source = IF d.rows.balance THEN "tokens" ELSE d.rows.source]
<1>4. verifier \in Starts!Rows /\ (d.rows.verifier = "none" => verifier.verifier = "none")
  BY <1>2 DEF Starts!Rows
<1>5. status \in Starts!Rows /\ status.verifier = d.rows.verifier /\ status.status = "known"
  BY <1>2 DEF Starts!Rows
<1>6. source \in Starts!Rows /\ source.verifier = d.rows.verifier /\ source.status = d.rows.status
      /\ (source.balance => source.source = "tokens")
  BY <1>2 DEF Starts!Rows
<1> HIDE DEF verifier, status, source
<1> DEFINE Changed(columns, rows) == [d EXCEPT !.columns = columns, !.rows = rows]
<1>7. ASSUME NEW columns \in SUBSET Starts!Columns, NEW rows \in Starts!Rows
      PROVE  /\ Changed(columns, rows) \in Database /\ Changed(columns, rows).version = d.version
             /\ Changed(columns, rows).columns = columns /\ Changed(columns, rows).rows = rows
  BY <1>2 DEF Database
<1> HIDE DEF Changed
<1>8. CASE v = 0
  <2> DEFINE columns == (d.columns \union Starts!Present) \ {"client_secret", "code_verifier"}
  <2>1. Starts!Migrated(d, v + 1) = Changed(columns, verifier)
    BY <1>8 DEF Starts!Migrated, Starts!One, verifier, Database, Changed
  <2>2. columns \in SUBSET Starts!Columns /\ "client_secret" \notin columns
    BY <1>2 DEF Starts!Columns, Starts!Present
  <2> HIDE DEF columns
  <2> QED
    BY <1>2, <1>4, <1>7, <1>8, <2>1, <2>2 DEF Shape, Starts!Latest
<1>9. CASE v = 1
  <2> DEFINE columns == d.columns \union {"code_verifier"}
  <2>0. Starts!Migrated(d, v + 1) = [d EXCEPT !.columns = columns]
    BY <1>9 DEF Starts!Migrated, Starts!Two
  <2>1. [d EXCEPT !.columns = columns] = Changed(columns, d.rows)
    BY Zenon DEF Changed, Database
  <2>2. columns \in SUBSET Starts!Columns /\ "client_secret" \notin columns /\ "code_verifier" \in columns
    BY <1>2, <1>9 DEF Shape, Starts!Columns, Starts!Present
  <2> HIDE DEF columns
  <2> QED
    BY <1>2, <1>7, <1>9, <2>0, <2>1, <2>2 DEF Shape, Starts!Latest
<1>10. ASSUME v \in {2, 3, 4} PROVE d.columns \union Starts!AccountColumns = Starts!Present
  BY <1>2, <1>10 DEF Shape, Starts!Columns, Starts!Present, Starts!AccountColumns
<1>11. /\ Starts!Present \in SUBSET Starts!Columns
       /\ "client_secret" \notin Starts!Present /\ "code_verifier" \in Starts!Present
  BY DEF Starts!Present, Starts!Columns
<1>12. CASE v = 2
  <2>1. Starts!Migrated(d, v + 1) = Changed(d.columns \union Starts!AccountColumns, status)
    BY <1>12 DEF Starts!Migrated, Starts!Three, status, Database, Changed
  <2>2. Starts!Migrated(d, v + 1) = Changed(Starts!Present, status)
    BY <1>10, <1>12, <2>1
  <2> QED
    BY <1>2, <1>5, <1>7, <1>11, <1>12, <2>2 DEF Shape, Starts!Latest
<1>13. CASE v = 3
  <2>1. Starts!Migrated(d, v + 1) = [d EXCEPT !.columns = Starts!Present]
    BY <1>10, <1>13 DEF Starts!Migrated, Starts!Four
  <2>2. [d EXCEPT !.columns = Starts!Present] = Changed(Starts!Present, d.rows)
    BY Zenon DEF Changed, Database
  <2> QED
    BY <1>2, <1>7, <1>11, <1>13, <2>1, <2>2 DEF Shape, Starts!Latest
<1>14. CASE v = 4
  <2>1. Starts!Migrated(d, v + 1) = Changed(d.columns \union Starts!AccountColumns, source)
    BY <1>14 DEF Starts!Migrated, Starts!Five, source, Database, Changed
  <2>2. Starts!Migrated(d, v + 1) = Changed(Starts!Present, source)
    BY <1>10, <1>14, <2>1
  <2> QED
    BY <1>2, <1>6, <1>7, <1>11, <1>14, <2>2 DEF Shape, Starts!Latest
<1> QED
  BY <1>1, <1>8, <1>9, <1>12, <1>13, <1>14

\* Every statement of a start, and a stop wherever it comes, keep the shapes.
LEMMA StartStep == StartInv /\ [Starts!Next]_startVars => StartInv'
<1> SUFFICES ASSUME StartInv, [Starts!Next]_startVars PROVE StartInv'
  OBVIOUS
<1> USE JobsConstants
<1>1. /\ db \in Database /\ copy \in Database
      /\ start \in [Instance -> [pc: {"off", "opened", "migrating", "serving"}, version: Starts!Version]]
  BY DEF StartInv, Starts!TypeOK, Database
<1>2. ASSUME NEW i \in Instance, Starts!Open(i) PROVE StartInv'
  BY <1>2 DEF Starts!Open, Starts!Goto, StartInv, Starts!TypeOK
<1>3. ASSUME NEW i \in Instance, Starts!Begin(i) PROVE StartInv'
  BY <1>1, <1>3 DEF Starts!Begin, StartInv, Starts!TypeOK, Database
<1>4. ASSUME NEW i \in Instance, Starts!Migrate(i) PROVE StartInv'
  <2>1. /\ start[i].version \in Starts!Version /\ start[i].version < Starts!Latest
        /\ writer = i /\ Shape(copy, start[i].version) /\ copy.version = db.version
    BY <1>1, <1>4 DEF Starts!Migrate, Starts!Start, StartInv, Starts!TypeOK
  <2>2. /\ copy' \in Database /\ copy'.version = db.version /\ Shape(copy', start[i].version + 1)
    BY <1>1, <1>4, <2>1, MigratedShape DEF Starts!Migrate, Starts!Start
  <2> QED
    BY <1>1, <1>4, <2>1, <2>2 DEF Starts!Migrate, Starts!Start, StartInv, Starts!TypeOK, Starts!Version, Starts!Latest, Database
<1>5. ASSUME NEW i \in Instance, Starts!Complete(i) PROVE StartInv'
  BY <1>1, <1>5 DEF Starts!Complete, Starts!Goto, StartInv, Starts!TypeOK, Shape, Database, Starts!Latest
<1>6. ASSUME NEW i \in Instance, Starts!Stop(i) PROVE StartInv'
  BY <1>1, <1>6 DEF Starts!Stop, Starts!Off, StartInv, Starts!TypeOK, Starts!Version, Starts!Latest
<1>7. ASSUME NEW i \in Instance, Starts!StoreLogin(i) PROVE StartInv'
  BY <1>1, <1>7 DEF Starts!StoreLogin, StartInv, Starts!TypeOK, Shape, Database, Starts!Rows, Starts!Latest
<1>8. ASSUME Starts!EndLogin PROVE StartInv'
  BY <1>1, <1>8 DEF Starts!EndLogin, StartInv, Starts!TypeOK, Shape, Database, Starts!Rows, Starts!Latest
<1>9. CASE UNCHANGED startVars
  BY <1>9 DEF startVars, StartInv, Starts!TypeOK, Shape
<1> QED
  BY <1>2, <1>3, <1>4, <1>5, <1>6, <1>7, <1>8, <1>9 DEF Starts!Next, startVars

LEMMA StartAlways == EachSpec => []StartInv
<1>1. EachInit => StartInv
  BY StartInit DEF EachInit
<1>2. StartInv /\ [EachNext]_eachVars => StartInv'
  BY StartStep DEF EachNext, eachVars, startVars
<1> QED
  BY <1>1, <1>2, PTL DEF EachSpec

\* Whatever is interrupted and however many start at a time, an instance serves on the whole
\* schema of the present release, and no migration destroys a login in progress
\* (runSchemaMigrations).
THEOREM SchemaStaysWhole == EachSpec => []SchemaWhole
<1>1. StartInv => Starts!SchemaWhole
  BY DEF StartInv, Shape, Starts!TypeOK, Starts!SchemaWhole, Starts!Latest, Starts!Version
<1>2. StartInv => SchemaWhole
  BY <1>1 DEF SchemaWhole
<1> QED
  BY <1>2, StartAlways, PTL

-----------------------------------------------------------------------------
(* The login (OAuthSession).                                               *)

\* Those that have committed.
Committed == {c \in Callback : callback[c].pc \in {"deleting", "succeeded"}}

\* The row is consumed exactly by the commit, which is the only one, and belongs to it; a row
\* that is gone has no claim; whoever holds a claim has not ended.
LoginInv ==
    /\ Logins!TypeOK
    /\ ~session.exists => session.claim = Nobody
    /\ tokens = 0 => Committed = {} /\ ~session.consumed
    /\ tokens > 0 => tokens = 1 /\ (session.exists => session.consumed)
    /\ \A c, d \in Committed : c = d
    /\ \A c \in Committed : session.exists => session.claim = c
    /\ Logins!ClaimsAreLive

Row == [exists: BOOLEAN, expired: BOOLEAN, claim: Callback \union {Nobody}, stale: BOOLEAN, consumed: BOOLEAN]
Delivery == [pc: Logins!Working \union Logins!Ended, heartbeat: {"off", "on", "lost"}, cancelled: BOOLEAN]

LEMMA NoRow ==
  /\ Logins!NoSession \in Row /\ Logins!NoSession.claim = Nobody
  /\ Logins!NoSession.exists = FALSE /\ Logins!NoSession.stale = FALSE /\ Logins!NoSession.consumed = FALSE
  BY DEF Logins!NoSession, Row

LEMMA LoginInit == Logins!Init => LoginInv
<1> SUFFICES ASSUME Logins!Init PROVE LoginInv
  OBVIOUS
<1>1. /\ session \in Row /\ session.exists = TRUE /\ session.claim = Nobody /\ session.stale = FALSE
      /\ session.consumed = FALSE
  BY DEF Logins!Init, Logins!NoSession, Row
<1>2. callback \in [Callback -> Delivery] /\ \A c \in Callback : callback[c].pc = "new"
  BY DEF Logins!Init, Logins!At, Delivery, Logins!Ended
<1>3. Committed = {}
  BY <1>2 DEF Committed
<1> QED
  BY <1>1, <1>2, <1>3 DEF Logins!Init, LoginInv, Logins!TypeOK, Logins!ClaimsAreLive, Row, Delivery

\* What the row says of its owner.
SameOwner == session'.claim = session.claim /\ session'.exists = session.exists /\ session'.consumed = session.consumed

RowType == session \in Row /\ (session.stale => session.claim # Nobody)

\* A callback goes on, or ends, without having committed, and keeps its hands off the row.
LEMMA LoginQuiet ==
  ASSUME LoginInv, NEW c \in Callback, SameOwner, RowType', tokens' = tokens,
         callback' \in [Callback -> Delivery], \A d \in Callback \ {c} : callback'[d] = callback[d],
         callback[c].pc \notin {"deleting", "succeeded"}, callback'[c].pc \notin {"deleting", "succeeded"},
         session.claim = c /\ ~session.consumed =>
           callback'[c].pc \in (Logins!Working \ {"deleting"}) \union {"dead", "unreleased"}
  PROVE  LoginInv'
<1>1. Committed' = Committed
  BY DEF Committed
<1>2. Logins!TypeOK'
  BY DEF LoginInv, Logins!TypeOK, RowType, Row, Delivery
<1>3. session.claim \in Callback \union {Nobody}
  BY DEF LoginInv, Logins!TypeOK
<1>4. Logins!ClaimsAreLive'
  <2>1. CASE session.claim = c
    BY <2>1 DEF Logins!ClaimsAreLive, SameOwner
  <2>2. CASE session.claim # c
    BY <1>3, <2>2 DEF LoginInv, Logins!ClaimsAreLive, SameOwner
  <2> QED
    BY <2>1, <2>2
<1> QED
  BY <1>1, <1>2, <1>4 DEF LoginInv, SameOwner

LEMMA LoginRow ==
  ASSUME LoginInv, SameOwner, RowType', UNCHANGED <<tokens, callback>>
  PROVE  LoginInv'
<1>1. Committed' = Committed
  BY DEF Committed
<1>2. Logins!TypeOK'
  BY DEF LoginInv, Logins!TypeOK, RowType, Row, Delivery
<1>3. Logins!ClaimsAreLive'
  BY DEF LoginInv, Logins!ClaimsAreLive, SameOwner
<1> QED
  BY <1>1, <1>2, <1>3 DEF LoginInv, SameOwner

LEMMA LoginTypes ==
  ASSUME LoginInv
  PROVE  /\ RowType /\ session \in Row /\ callback \in [Callback -> Delivery] /\ tokens \in Nat
         /\ \A c \in Callback : callback[c] \in Delivery
  BY DEF LoginInv, Logins!TypeOK, Row, Delivery, RowType

LEMMA LoginClaim == ASSUME LoginInv, NEW c \in Callback, Logins!Claim(c) PROVE LoginInv'
<1>1. CASE Logins!Claimable
  <2>1. session' = [session EXCEPT !.claim = c, !.stale = FALSE] /\ session.exists /\ ~session.consumed
    BY <1>1 DEF Logins!Claim, Logins!Claimable, Logins!Open
  <2>2. /\ session' \in Row /\ session'.claim = c /\ session'.stale = FALSE
        /\ session'.exists = session.exists /\ session'.consumed = session.consumed
    BY <2>1, LoginTypes DEF Row
  <2>3. callback' = [callback EXCEPT ![c].pc = "exchanging", ![c].heartbeat = "on"]
    BY <1>1 DEF Logins!Claim
  <2>4. callback' \in [Callback -> Delivery] /\ callback'[c].pc = "exchanging"
    BY <2>3, LoginTypes DEF Delivery, Logins!Working
  <2>5. \A d \in Callback \ {c} : callback'[d] = callback[d]
    BY <2>3, LoginTypes
  <2>6. Committed = {} /\ Committed' = {} /\ tokens = 0 /\ tokens' = 0
    BY <1>1, <2>1, <2>4, <2>5, LoginTypes DEF LoginInv, Committed, Logins!Claim
  <2>7. Logins!TypeOK'
    BY <2>2, <2>4, <2>6, JobsConstants DEF Logins!TypeOK, Row, Delivery
  <2>8. Logins!ClaimsAreLive'
    BY <2>2, <2>4 DEF Logins!ClaimsAreLive, Logins!Working
  <2> QED
    BY <2>1, <2>2, <2>6, <2>7, <2>8 DEF LoginInv
<1>2. CASE ~Logins!Claimable
  <2>1. callback' = [callback EXCEPT ![c].pc = "refused"] /\ callback[c].pc = "new" /\ UNCHANGED <<session, tokens>>
    BY <1>2 DEF Logins!Claim, Logins!Goto
  <2>2. callback' \in [Callback -> Delivery] /\ callback'[c].pc = "refused"
    BY <2>1, LoginTypes DEF Delivery, Logins!Ended
  <2>3. session.claim # c \/ session.consumed
    BY <2>1, JobsConstants DEF LoginInv, Logins!ClaimsAreLive, Logins!Working
  <2> QED
    BY <2>1, <2>2, <2>3, LoginTypes, LoginQuiet DEF SameOwner, RowType
<1> QED
  BY <1>1, <1>2

LEMMA LoginStays ==
  ASSUME LoginInv, UNCHANGED <<session, tokens>>, callback' \in [Callback -> Delivery],
         \A c \in Callback : callback'[c].pc = callback[c].pc
  PROVE  LoginInv'
<1>1. Committed' = Committed
  BY DEF Committed
<1>2. session.claim \in Callback \union {Nobody}
  BY LoginTypes DEF Row
<1>3. Logins!TypeOK' /\ Logins!ClaimsAreLive'
  BY <1>2 DEF LoginInv, Logins!TypeOK, Delivery, Logins!ClaimsAreLive
<1> QED
  BY <1>1, <1>3 DEF LoginInv

LEMMA LoginRenew == ASSUME LoginInv, NEW c \in Callback, Logins!Renew(c) PROVE LoginInv'
<1>1. CASE /\ session' = [session EXCEPT !.stale = FALSE] /\ UNCHANGED <<tokens, callback>>
  <2>1. SameOwner /\ RowType'
    BY <1>1, LoginTypes DEF SameOwner, RowType, Row
  <2> QED
    BY <1>1, <2>1, LoginRow
<1>2. CASE /\ callback' = [callback EXCEPT ![c].heartbeat = "lost"] /\ UNCHANGED <<session, tokens>>
  BY <1>2, LoginTypes, LoginStays DEF Delivery
<1> QED
  BY <1>1, <1>2 DEF Logins!Renew

\* The claim of a callback at work is its own, or another's by now.
LEMMA LoginGoes ==
  ASSUME LoginInv, NEW c \in Callback, callback[c].pc \in Logins!Working \ {"deleting"}, UNCHANGED <<session, tokens>>,
         callback' \in [Callback -> Delivery], \A d \in Callback \ {c} : callback'[d] = callback[d],
         callback'[c].pc \in (Logins!Working \ {"deleting"}) \union {"dead", "unreleased"}
  PROVE  LoginInv'
  BY LoginTypes, LoginQuiet DEF SameOwner, RowType, Logins!Working

LEMMA LoginExchange == ASSUME LoginInv, NEW c \in Callback, Logins!Exchange(c) \/ Logins!Profile(c) PROVE LoginInv'
<1>1. callback[c].pc \in Logins!Working \ {"deleting"} /\ UNCHANGED <<session, tokens>>
  BY DEF Logins!Exchange, Logins!Profile, Logins!Working
<1>2. PICK label \in {"profiling", "releasing", "committing"} :
        \/ callback' = [callback EXCEPT ![c].pc = label]
        \/ callback' = [callback EXCEPT ![c].pc = label, ![c].heartbeat = "off"]
  BY DEF Logins!Exchange, Logins!Profile, Logins!Goto
<1>3. callback' \in [Callback -> Delivery] /\ callback'[c].pc = label
  BY <1>2, LoginTypes DEF Delivery, Logins!Working
<1>4. \A d \in Callback \ {c} : callback'[d] = callback[d]
  BY <1>2, LoginTypes
<1> QED
  BY <1>1, <1>3, <1>4, LoginGoes DEF Logins!Working

LEMMA LoginCommit == ASSUME LoginInv, NEW c \in Callback, Logins!Commit(c) PROVE LoginInv'
<1>1. CASE /\ Logins!MayConsume(c) /\ tokens' = tokens + 1
           /\ session' = [session EXCEPT !.consumed = TRUE]
           /\ callback' = [callback EXCEPT ![c].pc = "deleting"]
  <2>1. session.exists /\ ~session.consumed /\ session.claim = c
    BY <1>1 DEF Logins!MayConsume, Logins!Mine, Logins!Open
  <2>2. /\ session' \in Row /\ session'.claim = c /\ session'.stale = session.stale
        /\ session'.exists = session.exists /\ session'.consumed = TRUE
    BY <1>1, <2>1, LoginTypes DEF Row
  <2>3. callback' \in [Callback -> Delivery] /\ callback'[c].pc = "deleting"
    BY <1>1, LoginTypes DEF Delivery, Logins!Working
  <2>4. \A d \in Callback \ {c} : callback'[d] = callback[d]
    BY <1>1, LoginTypes
  <2>5. tokens = 0 /\ tokens' = 1
    BY <1>1, <2>1, LoginTypes DEF LoginInv
  <2>6. Committed = {} /\ Committed' = {c}
    BY <2>3, <2>4, <2>5 DEF LoginInv, Committed
  <2>7. Logins!TypeOK' /\ Logins!ClaimsAreLive'
    BY <2>2, <2>3, <2>5, JobsConstants DEF Logins!TypeOK, Logins!ClaimsAreLive, Row, Delivery
  <2> QED
    BY <2>1, <2>2, <2>5, <2>6, <2>7 DEF LoginInv
<1>2. CASE callback' = [callback EXCEPT ![c].pc = "releasing"] /\ UNCHANGED <<session, tokens>>
  <2>1. callback' \in [Callback -> Delivery] /\ callback'[c].pc = "releasing"
    BY <1>2, LoginTypes DEF Delivery, Logins!Working
  <2>2. callback[c].pc \in Logins!Working \ {"deleting"} /\ \A d \in Callback \ {c} : callback'[d] = callback[d]
    BY <1>2, LoginTypes DEF Logins!Commit, Logins!Working
  <2> QED
    BY <1>2, <2>1, <2>2, LoginGoes DEF Logins!Working
<1> QED
  BY <1>1, <1>2 DEF Logins!Commit, Logins!Goto

LEMMA LoginRelease == ASSUME LoginInv, NEW c \in Callback, Logins!Release(c) PROVE LoginInv'
<1>1. PICK label \in {"failed", "unreleased"} : callback' = [callback EXCEPT ![c] = Logins!At(label)]
  BY DEF Logins!Release
<1>2. Logins!At(label) \in Delivery /\ Logins!At(label).pc = label
  BY DEF Logins!At, Delivery, Logins!Ended
<1>3. callback' \in [Callback -> Delivery] /\ callback'[c].pc = label /\ \A d \in Callback \ {c} : callback'[d] = callback[d]
  BY <1>1, <1>2, LoginTypes
<1>4. callback[c].pc = "releasing" /\ tokens' = tokens
  BY DEF Logins!Release
<1>5. CASE session' = session /\ label = "unreleased"
  BY <1>3, <1>4, <1>5, LoginGoes DEF Logins!Working
<1>6. CASE session' = Logins!Released(c) /\ Logins!Mine(c) /\ ~session.consumed
  <2>1. session' = [session EXCEPT !.claim = Nobody, !.stale = FALSE] /\ session.claim = c
    BY <1>6 DEF Logins!Released, Logins!Mine
  <2>2. /\ session' \in Row /\ session'.claim = Nobody /\ session'.stale = FALSE
        /\ session'.exists = session.exists /\ session'.consumed = session.consumed
    BY <2>1, LoginTypes DEF Row
  <2>3. Committed' = Committed
    BY <1>3, <1>4 DEF Committed
  <2>4. Logins!TypeOK' /\ Logins!ClaimsAreLive'
    BY <1>3, <1>4, <2>2, LoginTypes DEF Logins!TypeOK, Logins!ClaimsAreLive, Row, Delivery
  <2>5. Committed = {}
    BY <1>6, LoginTypes DEF LoginInv, Logins!Mine
  <2> QED
    BY <1>4, <2>2, <2>3, <2>4, <2>5 DEF LoginInv
<1>7. CASE session' = Logins!Released(c) /\ ~(Logins!Mine(c) /\ ~session.consumed)
  <2>1. session' = session /\ (session.claim = c => session.consumed)
    BY <1>7, JobsConstants DEF Logins!Released, Logins!Mine, LoginInv
  <2> QED
    BY <1>3, <1>4, <2>1, LoginTypes, LoginQuiet DEF SameOwner, RowType
<1>8. \/ session' = session /\ label = "unreleased"
      \/ session' = Logins!Released(c)
  <2>1. \/ session' = Logins!Released(c) /\ callback' = [callback EXCEPT ![c] = Logins!At("failed")]
        \/ session' = session /\ callback' = [callback EXCEPT ![c] = Logins!At("unreleased")]
    BY DEF Logins!Release
  <2>2. CASE callback' = [callback EXCEPT ![c] = Logins!At("unreleased")]
    BY <1>3, <2>1, <2>2, LoginTypes DEF Logins!At
  <2> QED
    BY <2>1, <2>2
<1> QED
  BY <1>5, <1>6, <1>7, <1>8

LEMMA LoginDelete == ASSUME LoginInv, NEW c \in Callback, Logins!Delete(c) PROVE LoginInv'
<1>1. /\ callback[c].pc = "deleting" /\ callback' = [callback EXCEPT ![c] = Logins!At("succeeded")] /\ tokens' = tokens
      /\ session' = session \/ session' = Logins!NoSession
  BY DEF Logins!Delete
<1>2. Logins!At("succeeded") \in Delivery /\ Logins!At("succeeded").pc = "succeeded"
  BY DEF Logins!At, Delivery, Logins!Ended
<1>3. callback' \in [Callback -> Delivery] /\ callback'[c].pc = "succeeded" /\ \A d \in Callback \ {c} : callback'[d] = callback[d]
  BY <1>1, <1>2, LoginTypes
<1>4. Committed' = Committed /\ c \in Committed
  BY <1>1, <1>3 DEF Committed
<1>5. tokens = 1 /\ (session.exists => session.consumed)
  BY <1>4, LoginTypes DEF LoginInv
<1>6. /\ session' \in Row /\ session'.stale => session'.claim # Nobody
      /\ ~session'.exists => session'.claim = Nobody
      /\ session'.exists => session'.consumed /\ session'.claim = session.claim /\ session.exists
  BY <1>1, <1>5, LoginTypes, NoRow DEF LoginInv, RowType
<1>7. session' \in Row
  BY <1>1, LoginTypes, NoRow
<1>8. Logins!TypeOK' /\ Logins!ClaimsAreLive'
  BY <1>1, <1>3, <1>5, <1>6, <1>7 DEF Logins!TypeOK, Logins!ClaimsAreLive, Row, Delivery
<1> QED
  BY <1>1, <1>4, <1>5, <1>6, <1>8 DEF LoginInv

LEMMA LoginLeaves == ASSUME LoginInv, NEW c \in Callback, Logins!ClientLeaves(c) PROVE LoginInv'
<1>1. callback' = [callback EXCEPT ![c].cancelled = TRUE] /\ UNCHANGED <<session, tokens>>
  BY DEF Logins!ClientLeaves
<1> QED
  BY <1>1, LoginTypes, LoginStays DEF Delivery

LEMMA LoginCrash == ASSUME LoginInv, NEW c \in Callback, Logins!Crash(c) PROVE LoginInv'
<1>1. callback[c].pc \in Logins!Working /\ callback' = [callback EXCEPT ![c] = Logins!At("dead")] /\ UNCHANGED <<session, tokens>>
  BY DEF Logins!Crash
<1>2. Logins!At("dead") \in Delivery /\ Logins!At("dead").pc = "dead"
  BY DEF Logins!At, Delivery, Logins!Ended
<1>3. callback' \in [Callback -> Delivery] /\ callback'[c].pc = "dead" /\ \A d \in Callback \ {c} : callback'[d] = callback[d]
  BY <1>1, <1>2, LoginTypes
<1>4. CASE callback[c].pc # "deleting"
  BY <1>1, <1>3, <1>4, LoginGoes
<1>5. CASE callback[c].pc = "deleting"
  <2>1. Committed' \subseteq Committed /\ c \in Committed
    BY <1>3, <1>5 DEF Committed
  <2>2. tokens = 1 /\ (session.exists => session.consumed)
    BY <2>1, LoginTypes DEF LoginInv
  <2>3. Logins!TypeOK' /\ Logins!ClaimsAreLive'
    BY <1>1, <1>3, <2>2 DEF LoginInv, Logins!TypeOK, Logins!ClaimsAreLive, Delivery
  <2> QED
    BY <1>1, <2>1, <2>2, <2>3 DEF LoginInv
<1> QED
  BY <1>4, <1>5

LEMMA LoginTime == ASSUME LoginInv, Logins!ClaimGoesStale \/ Logins!Expire PROVE LoginInv'
<1>1. UNCHANGED <<tokens, callback>>
  BY DEF Logins!ClaimGoesStale, Logins!Expire
<1>2. SameOwner /\ RowType'
  BY LoginTypes DEF Logins!ClaimGoesStale, Logins!Expire, SameOwner, RowType, Row
<1> QED
  BY <1>1, <1>2, LoginRow

LEMMA LoginPurge == ASSUME LoginInv, Logins!Purge PROVE LoginInv'
<1>1. session' = Logins!NoSession /\ UNCHANGED <<tokens, callback>>
  BY DEF Logins!Purge
<1>2. Committed' = Committed
  BY <1>1 DEF Committed
<1>3. Logins!TypeOK' /\ Logins!ClaimsAreLive'
  BY <1>1, NoRow DEF LoginInv, Logins!TypeOK, Logins!ClaimsAreLive, Row
<1> QED
  BY <1>1, <1>2, <1>3, NoRow DEF LoginInv

LEMMA LoginAlways == EachSpec => []LoginInv
<1>1. EachInit => LoginInv
  BY LoginInit DEF EachInit
<1>2. ASSUME LoginInv, UNCHANGED loginVars PROVE LoginInv'
  BY <1>2, LoginTypes, LoginStays DEF loginVars
<1>3. ASSUME LoginInv, Logins!Next PROVE LoginInv'
  BY <1>3, LoginClaim, LoginRenew, LoginExchange, LoginCommit, LoginRelease, LoginDelete, LoginLeaves, LoginCrash, LoginTime,
    LoginPurge DEF Logins!Next
<1>4. LoginInv /\ [EachNext]_eachVars => LoginInv'
  BY <1>2, <1>3 DEF EachNext, eachVars, loginVars
<1> QED
  BY <1>1, <1>4, PTL DEF EachSpec

\* A login gives tokens once, to the one callback that reports it, and a callback that has
\* failed leaves no claim behind, whatever the browser repeats, however a claim goes stale
\* and whichever process stops (CompleteZencoderLogin).
THEOREM LoginTakesEffectOnce == EachSpec => []OneLogin
<1>1. LoginInv => Logins!LoginOnce
  BY DEF LoginInv, Logins!LoginOnce, Committed
<1>2. LoginInv => Logins!OneLogin
  BY <1>1 DEF LoginInv, Logins!OneLogin
<1>3. LoginInv => OneLogin
  BY <1>2 DEF OneLogin
<1> QED
  BY <1>3, LoginAlways, PTL

-----------------------------------------------------------------------------
(* The scan (CreditScan).                                                  *)

AtWork == Scans!Scanning \union {"ending"}
Scheduler == [pc: {"off", "waiting", "due"} \union AtWork, next: 0 .. Horizon + Interval, at: Scans!Instant \union {0},
              until: 0 .. Horizon + Lease, todo: SUBSET Balances, lost: BOOLEAN]
LeaseRow == [holder: Instance \union {NoHolder, OldHolder}, until: 0 .. Horizon + Lease]

\* A scan knows of no time later than now, and while its lease has not run out, as it knows
\* it, the row says the same.
ScanInv ==
    /\ Scans!TypeOK
    /\ \A i \in Instance : scan[i].at <= now
    /\ \A i \in Instance : Scans!InTime(i) => scanLease.holder = i /\ scanLease.until = scan[i].until

LEMMA ScanTypes ==
  ASSUME ScanInv
  PROVE  /\ now \in 1 .. Horizon /\ scanLease \in LeaseRow /\ scan \in [Instance -> Scheduler]
         /\ \A i \in Instance : scan[i] \in Scheduler
         /\ Interval \in Nat /\ Interval > 0 /\ Lease \in Nat /\ Horizon \in Nat
  BY JobsConstants DEF ScanInv, Scans!TypeOK, Scans!Instant, LeaseRow, Scheduler, AtWork, Scans!Scanning

LEMMA ScanInit == Scans!Init => ScanInv
<1> SUFFICES ASSUME Scans!Init PROVE ScanInv
  OBVIOUS
<1>1. Scans!Off \in Scheduler /\ Scans!Off.pc = "off" /\ Scans!Off.at = 0
  BY JobsConstants DEF Scans!Off, Scheduler
<1>2. scan \in [Instance -> Scheduler] /\ \A i \in Instance : scan[i] = Scans!Off
  BY <1>1 DEF Scans!Init
<1>3. scanLease \in LeaseRow /\ scanLease.holder = NoHolder
  BY JobsConstants DEF Scans!Init, LeaseRow
<1>4. now = 1 /\ now \in Scans!Instant
  BY JobsConstants DEF Scans!Init, Scans!Instant
<1>5. \A i \in Instance : ~Scans!InTime(i)
  BY <1>1, <1>2 DEF Scans!InTime, Scans!Scanning
<1>6. Scans!TypeOK
  BY <1>2, <1>3, <1>4, JobsConstants DEF Scans!Init, Scans!TypeOK, LeaseRow, Scheduler, AtWork, Scans!Instant
<1> QED
  BY <1>1, <1>2, <1>4, <1>5, <1>6 DEF ScanInv

\* The tick after the present one is no further away than an interval.
LEMMA NextTickSoon ==
  ASSUME ScanInv, NEW tick \in Nat, tick <= now
  PROVE  Scans!NextTick(tick) \in Nat /\ Scans!NextTick(tick) <= now + Interval
<1> DEFINE q == (now - tick) \div Interval
<1>1. now - tick \in Nat /\ Interval \in Nat \ {0}
  BY ScanTypes
<1>2. q \in Nat /\ Interval * q <= now - tick
  BY <1>1
<1>3. Scans!NextTick(tick) = tick + Interval * (q + 1)
  BY DEF Scans!NextTick
<1>4. Interval * (q + 1) = Interval * q + Interval /\ Interval * q \in Nat
  BY <1>1, <1>2
<1> HIDE DEF q
<1> QED
  BY <1>1, <1>2, <1>3, <1>4, ScanTypes

Balanced ==
    /\ attempt \in [Balances -> Scans!Instant \union {0}]
    /\ \A a \in Balances : attempt[a] <= now
    /\ outdated \subseteq Balances

\* A scheduler's own step: what it writes into the lease is what it then knows, and it leaves
\* alone the lease that another has in time.
LEMMA ScanStep ==
  ASSUME ScanInv, NEW i \in Instance, NEW s \in Scheduler, scan' = [scan EXCEPT ![i] = s], s.at <= now,
         now' = now, Balanced', scanLease' \in LeaseRow,
         scanLease'.holder = i => s.pc \in AtWork,
         scanLease'.holder \in Instance \ {i} => scanLease'.holder = scanLease.holder,
         s.pc \in AtWork /\ now < s.until => scanLease'.holder = i /\ scanLease'.until = s.until,
         \A j \in Instance \ {i} : Scans!InTime(j) => scanLease' = scanLease
  PROVE  ScanInv'
<1>1. scan' \in [Instance -> Scheduler] /\ scan'[i] = s /\ \A j \in Instance \ {i} : scan'[j] = scan[j]
  BY ScanTypes
<1>2. scanLease'.holder \in Instance => scan'[scanLease'.holder].pc \in AtWork
  BY <1>1 DEF ScanInv, Scans!TypeOK, AtWork
<1>3. Scans!TypeOK'
  BY <1>1, <1>2, ScanTypes DEF Scans!TypeOK, LeaseRow, Scheduler, AtWork, Balanced, Scans!Instant, Scans!Scanning
<1>4. \A j \in Instance : scan'[j].at <= now'
  BY <1>1 DEF ScanInv
<1>5. ASSUME NEW j \in Instance, Scans!InTime(j)' PROVE scanLease'.holder = j /\ scanLease'.until = scan'[j].until
  <2>1. CASE j = i
    BY <1>1, <1>5, <2>1 DEF Scans!InTime, AtWork
  <2>2. CASE j # i
    BY <1>1, <1>5, <2>2 DEF ScanInv, Scans!InTime
  <2> QED
    BY <2>1, <2>2
<1> QED
  BY <1>3, <1>4, <1>5 DEF ScanInv

LEMMA ScanBalanced == ASSUME ScanInv, UNCHANGED <<now, attempt, outdated>> PROVE Balanced /\ Balanced'
  BY DEF ScanInv, Scans!TypeOK, Balanced

LEMMA ScanKeepsLease ==
  ASSUME ScanInv, NEW i \in Instance, NEW s \in Scheduler, scan' = [scan EXCEPT ![i] = s], s.at <= now,
         UNCHANGED <<now, scanLease>>, Balanced', scanLease.holder = i => s.pc \in AtWork,
         s.pc \in AtWork => scan[i].pc \in AtWork /\ s.until = scan[i].until
  PROVE  ScanInv'
<1>1. s.pc \in AtWork /\ now < s.until => scanLease.holder = i /\ scanLease.until = s.until
  BY DEF ScanInv, Scans!InTime, AtWork
<1>2. scanLease' = scanLease /\ now' = now /\ scanLease' \in LeaseRow
  BY ScanTypes
<1> QED
  BY <1>1, <1>2, ScanStep

LEMMA ScanOff ==
  ASSUME ScanInv, NEW label \in {"waiting", "due"}, NEW tick \in 0 .. Horizon + Interval, NEW at \in {0, now},
         NEW s, s = [Scans!Off EXCEPT !.pc = label, !.at = at, !.next = tick]
  PROVE  s \in Scheduler /\ s.pc = label /\ s.at = at /\ s.at <= now /\ s.pc \notin AtWork
<1>1. Scans!Off \in Scheduler /\ at \in Scans!Instant \union {0} /\ at <= now
  BY ScanTypes DEF Scans!Off, Scheduler, Scans!Instant
<1>2. s \in Scheduler /\ s.pc = label /\ s.at = at
  BY <1>1 DEF Scheduler
<1> QED
  BY <1>1, <1>2 DEF AtWork, Scans!Scanning

LEMMA ScanBegin == ASSUME ScanInv, NEW i \in Instance, Scans!Begin(i) PROVE ScanInv'
<1> DEFINE tick == IF scan[i].pc = "off" THEN 0 ELSE Scans!NextTick(scan[i].next)
           s == [Scans!Off EXCEPT !.pc = "due", !.at = now, !.next = tick]
<1>1. scan' = [scan EXCEPT ![i] = s] /\ UNCHANGED <<now, scanLease, attempt, outdated>> /\ scan[i].pc \in {"off", "waiting"}
  BY DEF Scans!Begin
<1>2. tick \in 0 .. Horizon + Interval
  <2>1. scan[i].pc # "off" => scan[i].next \in Nat /\ scan[i].next <= now
    BY ScanTypes DEF Scans!Begin, Scheduler
  <2> QED
    BY <2>1, ScanTypes, NextTickSoon
<1> HIDE DEF tick
<1>3. s \in Scheduler /\ s.at <= now /\ s.pc \notin AtWork
  BY <1>2, ScanOff
<1> HIDE DEF s
<1>4. scanLease.holder # i
  BY <1>1 DEF ScanInv, Scans!TypeOK, Scans!Scanning
<1> QED
  BY <1>1, <1>3, <1>4, ScanKeepsLease, ScanBalanced

LEMMA ScanWaiting ==
  ASSUME ScanInv, NEW i \in Instance
  PROVE  Scans!Waiting(i) \in Scheduler /\ Scans!Waiting(i).at <= now /\ Scans!Waiting(i).pc \notin AtWork
<1> DEFINE tick == IF scan[i].next = 0 THEN now + Interval ELSE scan[i].next
<1>1. tick \in 0 .. Horizon + Interval
  BY ScanTypes DEF Scheduler
<1>2. Scans!Waiting(i) = [Scans!Off EXCEPT !.pc = "waiting", !.next = tick]
  BY DEF Scans!Waiting
<1> HIDE DEF tick
<1>3. Scans!Off \in Scheduler /\ Scans!Off.at = 0
  BY ScanTypes DEF Scans!Off, Scheduler
<1>4. Scans!Waiting(i) \in Scheduler /\ Scans!Waiting(i).at = 0 /\ Scans!Waiting(i).pc = "waiting"
  BY <1>1, <1>2, <1>3 DEF Scheduler
<1> QED
  BY <1>4, ScanTypes DEF AtWork, Scans!Scanning

LEMMA ScanClaim == ASSUME ScanInv, NEW i \in Instance, Scans!Claim(i) PROVE ScanInv'
<1>1. scan[i].pc = "due" /\ UNCHANGED <<now, attempt, outdated>> /\ scanLease.holder # i
  BY DEF Scans!Claim, ScanInv, Scans!TypeOK, Scans!Scanning
<1>2. CASE /\ scanLease.until <= scan[i].at
           /\ scanLease' = [holder |-> i, until |-> scan[i].at + Lease]
           /\ scan' = [scan EXCEPT ![i].pc = "claimed", ![i].until = scan[i].at + Lease]
  <2> DEFINE s == [scan[i] EXCEPT !.pc = "claimed", !.until = scan[i].at + Lease]
  <2>1. scan' = [scan EXCEPT ![i] = s]
    BY <1>2, ScanTypes
  <2>2. scan[i].at \in Nat /\ scan[i].at <= now /\ scan[i].at + Lease \in 0 .. Horizon + Lease
    BY ScanTypes DEF ScanInv, Scheduler, Scans!Instant
  <2>3. s \in Scheduler /\ s.pc = "claimed" /\ s.at = scan[i].at /\ s.until = scan[i].at + Lease
    BY <2>2, ScanTypes DEF Scheduler, AtWork, Scans!Scanning
  <2> HIDE DEF s
  <2>4. scanLease' \in LeaseRow /\ scanLease'.holder = i /\ scanLease'.until = scan[i].at + Lease
    BY <1>2, <2>2 DEF LeaseRow
  <2>5. \A j \in Instance \ {i} : ~Scans!InTime(j)
    BY <1>2, <2>2, ScanTypes DEF ScanInv, Scans!InTime, LeaseRow, Scheduler
  <2> QED
    BY <1>1, <2>1, <2>2, <2>3, <2>4, <2>5, ScanStep, ScanBalanced DEF AtWork, Scans!Scanning
<1>3. CASE scan' = [scan EXCEPT ![i] = Scans!Waiting(i)] /\ UNCHANGED scanLease
  BY <1>1, <1>3, ScanWaiting, ScanKeepsLease, ScanBalanced
<1> QED
  BY <1>2, <1>3 DEF Scans!Claim

LEMMA ScanRenew == ASSUME ScanInv, NEW i \in Instance, Scans!Renew(i) PROVE ScanInv'
<1> DEFINE s == [scan[i] EXCEPT !.until = now + Lease]
<1>1. /\ scan[i].pc \in AtWork /\ scanLease.holder = i /\ scanLease' = [scanLease EXCEPT !.until = now + Lease]
      /\ UNCHANGED <<now, attempt, outdated>>
  BY DEF Scans!Renew, AtWork
<1>2. scan' = [scan EXCEPT ![i] = s]
  BY ScanTypes DEF Scans!Renew
<1>3. now + Lease \in 0 .. Horizon + Lease
  BY ScanTypes
<1>4. s \in Scheduler /\ s.pc = scan[i].pc /\ s.at = scan[i].at /\ s.until = now + Lease
  BY <1>3, ScanTypes DEF Scheduler
<1> HIDE DEF s
<1>5. scanLease' \in LeaseRow /\ scanLease'.holder = i /\ scanLease'.until = now + Lease
  BY <1>1, <1>3, ScanTypes DEF LeaseRow
<1>6. \A j \in Instance \ {i} : ~Scans!InTime(j)
  BY <1>1 DEF ScanInv
<1> QED
  BY <1>1, <1>2, <1>4, <1>5, <1>6, ScanStep, ScanBalanced DEF ScanInv

\* The lease is left alone, and the scan goes on.
LEMMA ScanGoesOn ==
  ASSUME ScanInv, NEW i \in Instance, Scans!RenewFails(i) \/ Scans!Load(i) \/ Scans!Refresh(i) \/ Scans!End(i)
  PROVE  ScanInv'
<1>1. /\ scan[i].pc \in AtWork /\ UNCHANGED <<now, scanLease>>
  BY DEF Scans!RenewFails, Scans!Load, Scans!Refresh, Scans!End, AtWork, Scans!Scanning
<1>2. Balanced'
  BY ScanTypes DEF Scans!RenewFails, Scans!Load, Scans!Refresh, Scans!End, ScanInv, Scans!TypeOK, Balanced, Scans!Instant
<1>3. PICK s \in Scheduler : scan' = [scan EXCEPT ![i] = s] /\ s.at = scan[i].at /\ s.pc \in AtWork /\ s.until = scan[i].until
  <2>1. CASE Scans!RenewFails(i)
    <3> DEFINE s == [scan[i] EXCEPT !.lost = TRUE]
    <3>1. scan' = [scan EXCEPT ![i] = s]
      BY <2>1, ScanTypes DEF Scans!RenewFails
    <3>2. s \in Scheduler /\ s.at = scan[i].at /\ s.pc = scan[i].pc /\ s.until = scan[i].until
      BY ScanTypes DEF Scheduler
    <3> QED
      BY <1>1, <3>1, <3>2
  <2>2. CASE Scans!Load(i)
    <3> DEFINE due == {a \in Balances : Scans!Due(a, scan[i].at)}
               s == [scan[i] EXCEPT !.pc = "loaded", !.todo = due]
    <3>1. scan' = [scan EXCEPT ![i] = s]
      BY <2>2, ScanTypes DEF Scans!Load
    <3>2. due \in SUBSET Balances
      OBVIOUS
    <3> HIDE DEF due
    <3>3. s \in Scheduler /\ s.at = scan[i].at /\ s.pc = "loaded" /\ s.until = scan[i].until
      BY <3>2, ScanTypes DEF Scheduler, AtWork, Scans!Scanning
    <3> QED
      BY <3>1, <3>3 DEF AtWork, Scans!Scanning
  <2>3. CASE Scans!Refresh(i)
    <3>1. PICK a \in scan[i].todo : scan' = [scan EXCEPT ![i].todo = @ \ {a}]
      BY <2>3 DEF Scans!Refresh
    <3> DEFINE s == [scan[i] EXCEPT !.todo = scan[i].todo \ {a}]
    <3>2. scan' = [scan EXCEPT ![i] = s]
      BY <3>1, ScanTypes
    <3>3. s \in Scheduler /\ s.at = scan[i].at /\ s.pc = scan[i].pc /\ s.until = scan[i].until
      BY ScanTypes DEF Scheduler
    <3> QED
      BY <1>1, <3>2, <3>3
  <2>4. CASE Scans!End(i)
    <3> DEFINE s == [scan[i] EXCEPT !.pc = "ending", !.todo = {}]
    <3>1. scan' = [scan EXCEPT ![i] = s]
      BY <2>4, ScanTypes DEF Scans!End
    <3>2. s \in Scheduler /\ s.at = scan[i].at /\ s.pc = "ending" /\ s.until = scan[i].until
      BY ScanTypes DEF Scheduler, AtWork
    <3> QED
      BY <3>1, <3>2 DEF AtWork
  <2> QED
    BY <2>1, <2>2, <2>3, <2>4
<1>4. s.at <= now
  BY <1>3 DEF ScanInv
<1> QED
  BY <1>1, <1>2, <1>3, <1>4, ScanKeepsLease

\* Who ends a scan gives back its own lease, or leaves it to run out.
LEMMA ScanGivesBack ==
  ASSUME ScanInv, NEW i \in Instance
  PROVE  /\ Scans!Released(i) \in LeaseRow /\ Scans!Forgotten(i) \in LeaseRow
         /\ Scans!Released(i).holder # i /\ Scans!Forgotten(i).holder # i
         /\ Scans!Released(i).holder \in Instance => Scans!Released(i) = scanLease
         /\ Scans!Forgotten(i).holder \in Instance => Scans!Forgotten(i) = scanLease
         /\ scanLease.holder # i => Scans!Released(i) = scanLease /\ Scans!Forgotten(i) = scanLease
  BY ScanTypes, JobsConstants DEF Scans!Released, Scans!Forgotten, LeaseRow

LEMMA ScanReleased ==
  ASSUME ScanInv, NEW i \in Instance, scanLease' \in {Scans!Released(i), Scans!Forgotten(i)},
         NEW s \in Scheduler, s.at <= now, s.pc \notin AtWork, scan' = [scan EXCEPT ![i] = s],
         UNCHANGED <<now, attempt, outdated>>
  PROVE  ScanInv'
<1>1. \A j \in Instance \ {i} : Scans!InTime(j) => scanLease' = scanLease
  BY ScanGivesBack DEF ScanInv
<1> QED
  BY <1>1, ScanGivesBack, ScanStep, ScanBalanced

LEMMA ScanRelease == ASSUME ScanInv, NEW i \in Instance, Scans!Release(i) \/ Scans!Crash(i) PROVE ScanInv'
<1>1. CASE Scans!Release(i)
  BY <1>1, ScanWaiting, ScanReleased DEF Scans!Release
<1>2. CASE Scans!Crash(i)
  <2>1. Scans!Off \in Scheduler /\ Scans!Off.at = 0 /\ Scans!Off.pc = "off"
    BY ScanTypes DEF Scans!Off, Scheduler
  <2>2. Scans!Off.at <= now /\ Scans!Off.pc \notin AtWork
    BY <2>1, ScanTypes DEF AtWork, Scans!Scanning
  <2>3. scanLease' = Scans!Forgotten(i) /\ scan' = [scan EXCEPT ![i] = Scans!Off] /\ UNCHANGED <<now, attempt, outdated>>
    BY <1>2 DEF Scans!Crash
  <2> QED
    BY <2>1, <2>2, <2>3, ScanReleased
<1> QED
  BY <1>1, <1>2

LEMMA ScanRest ==
  ASSUME ScanInv, \/ \E a \in Balances : Scans!RefreshOnDemand(a) \/ Scans!PeriodEnds(a)
                  \/ Scans!Tick
                  \/ UNCHANGED scanVars
  PROVE  ScanInv'
<1>1. UNCHANGED <<scanLease, scan>> /\ now' \in Scans!Instant /\ now <= now'
  BY ScanTypes DEF Scans!RefreshOnDemand, Scans!PeriodEnds, Scans!Tick, scanVars, Scans!Instant
<1>2. Balanced'
  BY <1>1, ScanTypes DEF Scans!RefreshOnDemand, Scans!PeriodEnds, Scans!Tick, scanVars, ScanInv, Scans!TypeOK, Balanced,
    Scans!Instant
<1>3. Scans!TypeOK'
  BY <1>1, <1>2 DEF ScanInv, Scans!TypeOK, Balanced
<1>4. ASSUME NEW i \in Instance PROVE scan'[i].at <= now' /\ (Scans!InTime(i)' => Scans!InTime(i))
  BY <1>1, ScanTypes DEF ScanInv, Scans!InTime, Scheduler, Scans!Instant
<1> QED
  BY <1>1, <1>3, <1>4 DEF ScanInv

LEMMA ScanAlways == EachSpec => []ScanInv
<1>1. EachInit => ScanInv
  BY ScanInit DEF EachInit
<1>2. ASSUME ScanInv, Scans!Next PROVE ScanInv'
  BY <1>2, ScanBegin, ScanClaim, ScanRenew, ScanGoesOn, ScanRelease, ScanRest DEF Scans!Next
<1>3. ScanInv /\ [EachNext]_eachVars => ScanInv'
  BY <1>2, ScanRest DEF EachNext, eachVars
<1> QED
  BY <1>1, <1>3, PTL DEF EachSpec

\* Of the scans whose lease, as they know it, has not run out there is at most one, for any
\* number of instances, suspended for any time between two steps (refreshDueUsageCredits).
THEOREM OneScanAtATime == EachSpec => []OneScan
<1>1. ScanInv => Scans!OneScan
  BY DEF ScanInv, Scans!OneScan
<1>2. ScanInv => OneScan
  BY <1>1 DEF OneScan
<1> QED
  BY <1>2, ScanAlways, PTL

-----------------------------------------------------------------------------
(* The daily job, and all four.                                            *)

LEMMA JobRuns == EachSpec => Spec
<1>1. EachInit => Init
  BY DEF EachInit
<1>2. [EachNext]_eachVars => [Next]_vars
  BY DEF EachNext, eachVars
<1> QED
  BY <1>1, <1>2, PTL DEF EachSpec, Spec

\* Each of the four keeps its types, in the run that is checked as for all constants.
THEOREM EachTypeCorrect == EachSpec => []EachTypeOK
<1> DEFINE OneOfFour == machine \in {"job", "login", "scan", "start"}
<1>1. EachInit => OneOfFour
  BY DEF EachInit
<1>2. OneOfFour /\ [EachNext]_eachVars => OneOfFour'
  BY DEF EachNext, eachVars
<1>3. OneOfFour /\ TypeOK /\ LoginInv /\ ScanInv /\ StartInv => EachTypeOK
  BY DEF EachTypeOK, LoginInv, ScanInv, StartInv
<1> HIDE DEF OneOfFour
<1> QED
  BY <1>1, <1>2, <1>3, JobRuns, TypeCorrect, LoginAlways, ScanAlways, StartAlways, PTL DEF EachSpec

=============================================================================

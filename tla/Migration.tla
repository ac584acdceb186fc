------------------------------ MODULE Migration ------------------------------
(***************************************************************************)
(* Service instances that start on one database, which an older release    *)
(* may have left behind, and bring its schema to the present version while *)
(* others already serve. SQLite lets one transaction write at a time, and  *)
(* undoes one that does not come to its end.                               *)
(***************************************************************************)
EXTENDS Naturals

CONSTANTS
    Instance,
    Nobody    \* no write transaction

VARIABLES
    db,       \* what is committed: schema version, columns and what the rows hold
    writer,   \* who has the write transaction
    copy,     \* and the database as that one has changed it
    instance  \* where each instance is in its start, and the version its migration is at

vars == <<db, writer, copy, instance>>

Latest == 5
Version == 0 .. Latest

\* The columns that the migrations treat; the present models have all but client_secret.
Columns == {"client_secret", "code_verifier", "status", "period", "source"}
Present == Columns \ {"client_secret"}
AccountColumns == {"status", "period", "source"}

\* The columns after each version, when that was the latest.
ColumnsOf(v) ==
    CASE v = 0 -> {"client_secret", "code_verifier"}
      [] v = 1 -> {}
      [] v = 2 -> {"code_verifier"}
      [] v = 3 -> {"code_verifier", "status"}
      [] v = 4 -> {"code_verifier", "status", "period"}
      [] v = 5 -> Present

\* One login in progress, with the verifier that its callback needs, and one account; its
\* balance is from /tokens, if it has one.
Rows == [verifier: {"none", "stored", "lost"}, status: {"unset", "known"}, balance: BOOLEAN, source: {"unset", "tokens"}]

TypeOK ==
    /\ {db, copy} \subseteq [version: Version, columns: SUBSET Columns, rows: Rows]
    /\ writer \in Instance \union {Nobody}
    /\ instance \in [Instance -> [pc: {"off", "opened", "migrating", "serving"}, version: Version]]
    /\ \A i \in Instance : instance[i].pc = "migrating" => writer = i

Off == [pc |-> "off", version |-> 0]

Init ==
    /\ \E v \in Version :
         db = [version |-> v, columns |-> ColumnsOf(v),
               rows |-> [verifier |-> "none", status |-> IF v < 3 THEN "unset" ELSE "known",
                         balance |-> v >= 3, source |-> IF v < 5 THEN "unset" ELSE "tokens"]]
    /\ copy = db /\ writer = Nobody
    /\ instance = [i \in Instance |-> Off]

-----------------------------------------------------------------------------
(* database.Init.                                                          *)

Goto(i, label) == instance' = [instance EXCEPT ![i].pc = label]

\* The table and its row are there, and CREATE and INSERT leave them alone; or they are
\* made, with version 0.
Open(i) ==
    /\ instance[i].pc = "off" /\ writer = Nobody
    /\ Goto(i, "opened")
    /\ UNCHANGED <<db, writer, copy>>

\* The transaction begins when nobody else has one. It takes the lease, which it will have
\* given back when another can see it, and reads the version.
Begin(i) ==
    /\ instance[i].pc = "opened" /\ writer = Nobody
    /\ writer' = i
    /\ instance' = [instance EXCEPT ![i] = [pc |-> "migrating", version |-> db.version]]
    /\ UNCHANGED <<db, copy>>

\* The models' columns are added; client_secret and the verifiers of the first release go.
One(d) ==
    [d EXCEPT !.columns = (@ \union Present) \ {"client_secret", "code_verifier"},
              !.rows.verifier = IF @ = "stored" THEN "lost" ELSE @]
Two(d) == [d EXCEPT !.columns = @ \union {"code_verifier"}]
Three(d) == [d EXCEPT !.columns = @ \union AccountColumns, !.rows.status = "known"]
Four(d) == [d EXCEPT !.columns = @ \union AccountColumns]
Five(d) ==
    [d EXCEPT !.columns = @ \union AccountColumns,
              !.rows.source = IF d.rows.balance THEN "tokens" ELSE @]

Migrated(d, v) ==
    CASE v = 1 -> One(d) [] v = 2 -> Two(d) [] v = 3 -> Three(d) [] v = 4 -> Four(d) [] v = 5 -> Five(d)

\* Mutant of Start: every start migrates from the beginning.
StartOver(i) == IF copy = db THEN 0 ELSE instance[i].version

\* The version from which the migrations of an instance go on.
Start(i) == instance[i].version

Migrate(i) ==
    /\ instance[i].pc = "migrating" /\ Start(i) < Latest
    /\ copy' = Migrated(copy, Start(i) + 1)
    /\ instance' = [instance EXCEPT ![i].version = Start(i) + 1]
    /\ UNCHANGED <<db, writer>>

\* The version is written, and all of it is committed.
Complete(i) ==
    /\ instance[i].pc = "migrating" /\ instance[i].version = Latest
    /\ db' = [copy EXCEPT !.version = instance[i].version]
    /\ copy' = db'
    /\ writer' = Nobody
    /\ Goto(i, "serving")

\* Any statement fails, the lock is not to be had in time, or the process dies: what it has
\* not committed is undone. It may be started again.
Stop(i) ==
    /\ instance[i].pc # "off"
    /\ instance' = [instance EXCEPT ![i] = Off]
    /\ IF writer = i THEN writer' = Nobody /\ copy' = db ELSE UNCHANGED <<writer, copy>>
    /\ UNCHANGED db

\* StartZencoderLogin of an instance that serves.
StoreLogin(i) ==
    /\ instance[i].pc = "serving" /\ writer = Nobody
    /\ "code_verifier" \in db.columns /\ db.rows.verifier = "none"
    /\ db' = [db EXCEPT !.rows.verifier = "stored"]
    /\ copy' = db'
    /\ UNCHANGED <<writer, instance>>

\* The login is completed or has expired.
EndLogin ==
    /\ writer = Nobody /\ db.rows.verifier = "stored"
    /\ db' = [db EXCEPT !.rows.verifier = "none"]
    /\ copy' = db'
    /\ UNCHANGED <<writer, instance>>

Next ==
    \/ \E i \in Instance : Open(i) \/ Begin(i) \/ Migrate(i) \/ Complete(i) \/ Stop(i) \/ StoreLogin(i)
    \/ EndLogin

Spec == Init /\ [][Next]_vars

-----------------------------------------------------------------------------
(* What must hold.                                                         *)

\* Whatever is interrupted, an instance serves on the whole schema of the present release,
\* with the values that its queries count on; no other start shows it a schema half way or
\* takes a column from it, and none destroys the verifier of a login that is in progress.
SchemaWhole ==
    /\ db.rows.verifier # "lost"
    /\ \A i \in Instance : instance[i].pc = "serving" =>
         /\ db.version = Latest /\ db.columns = Present
         /\ db.rows.status = "known"
         /\ db.rows.balance => db.rows.source = "tokens"

=============================================================================

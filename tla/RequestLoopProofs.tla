--------------------------- MODULE RequestLoopProofs ---------------------------
(***************************************************************************)
(* Theorems about RequestLoop, for any number of accounts, any priorities  *)
(* and any number of attempts.                                             *)
(***************************************************************************)
EXTENDS RequestLoop, FiniteSetTheorems, TLAPS

Looking == {"choosing", "rechecking"}
Asking == {"sending", "exchanging", "asking"}
Trying == Looking \union Asking \union {"answered", "recovering"}

\* An attempt has begun only if there was one left.
AttemptsLeft == request.pc \in Trying => request.attempt < request.limit

\* A question is put to an account once, and once more after its tokens were recovered;
\* what was tried is asked already, but for the question that is about to be put and the
\* one that may follow it.
Waits(body, a) == request.pc \in Asking /\ request.account = a /\ body \in {request.body, "repaired"}
Once(body, a) == IF a \in request.tried /\ ~Waits(body, a) THEN 1 ELSE 0
Again(a) == IF a \in request.refreshedAfter401 THEN 1 ELSE 0
SendsCounted ==
    /\ \A body \in Body, a \in Account : history.sends[body][a] <= Once(body, a) + Again(a)
    /\ request.pc = "rechecking" => request.account \notin request.tried
    /\ request.pc \in Asking => request.account \in request.tried
    /\ request.pc = "recovering" => request.account \notin request.refreshedAfter401

\* A failure that the request still has to record is one of the account, or of a client
\* that has gone; who goes while tokens are refreshed has interrupted that.
FailuresKnown ==
    /\ request.pc = "answered" /\ request.status \notin {200, 400, 409} /\ ~MayRecover /\ ~cancelled
         => request.account \in history.guilty
    /\ request.pc \in Refreshing /\ cancelled => request.account \in history.interrupted
    /\ BlameJustified

\* Once the cache has been loaded, what could be used all the time is in it and is not
\* excluded, as long as the database answers.
UsableInCache ==
    /\ \A a \in history.usable : Usable(row[a])
    /\ request.pc \in Looking /\ request.cacheRefreshed /\ ~history.databaseFailed
         => \A a \in history.usable : Usable(cache[a]) /\ a \notin request.excluded
    /\ RefusalJustified
    /\ request.result # "none" => request.pc = "ended"

LoopInv == TypeOK /\ AttemptsLeft /\ SendsCounted /\ FailuresKnown /\ UsableInCache

-----------------------------------------------------------------------------
(* The request record.                                                     *)

Results == {"none", "success", "refused", "returned", "exhausted", "cancelled"}

\* The fields that the attempts are counted and compared by.
SameRound(r, s) ==
    /\ s.tried = r.tried /\ s.refreshedAfter401 = r.refreshedAfter401 /\ s.account = r.account
    /\ s.attempt = r.attempt /\ s.limit = r.limit

LEMMA Ended ==
  ASSUME NEW r \in RequestState, NEW result \in Results
  PROVE  LET s == [r EXCEPT !.pc = "ended", !.result = result] IN
           s \in RequestState /\ s.pc = "ended" /\ s.result = result /\ SameRound(r, s)
  BY DEF RequestState, Results, SameRound

LEMMA NextRound ==
  ASSUME NEW r \in RequestState, r.attempt < r.limit, MaxAttempts \in Nat \ {0}
  PROVE  LET s == [r EXCEPT !.pc = "selecting", !.attempt = @ + 1] IN
           /\ s \in RequestState /\ s.pc = "selecting" /\ s.result = r.result
           /\ s.tried = r.tried /\ s.refreshedAfter401 = r.refreshedAfter401
<1>1. r.attempt + 1 \in 0 .. MaxAttempts
  BY DEF RequestState
<1> QED
  BY <1>1 DEF RequestState

LEMMA Limited == AttemptLimit \in 1 .. MaxAttempts
<1> DEFINE Known == {a \in Account : cache[a] \notin Missing}
<1>1. IsFiniteSet(Known)
  BY LoopConstants, FS_Subset
<1>2. Cardinality(Known) \in Nat
  BY <1>1, FS_CardinalityType
<1> HIDE DEF Known
<1>3. AttemptLimit = IF Cardinality(Known) = 0 THEN 1
                     ELSE IF Cardinality(Known) < MaxAttempts THEN Cardinality(Known) ELSE MaxAttempts
  BY DEF AttemptLimit, Known
<1> QED
  BY <1>2, <1>3, LoopConstants

LEMMA Standings == Priority \subseteq Standing /\ Barred \in Standing /\ Deleted \in Standing /\ Future \in Standing
  BY DEF Standing, Missing

-----------------------------------------------------------------------------
(* Selecting an account.                                                   *)

LEMMA StartStep == ASSUME LoopInv, Start PROVE LoopInv'
<1> DEFINE s == [request EXCEPT !.pc = "selecting", !.limit = AttemptLimit]
<1>1. request \in RequestState /\ request.pc = "new" /\ request' = s /\ UNCHANGED <<row, cache, cancelled, history>>
  BY DEF LoopInv, TypeOK, Start
<1>2. /\ s \in RequestState /\ s.pc = "selecting" /\ s.result = request.result
      /\ s.tried = request.tried /\ s.refreshedAfter401 = request.refreshedAfter401
  BY <1>1, Limited DEF RequestState
<1> HIDE DEF s
<1>3. TypeOK' /\ AttemptsLeft'
  BY <1>1, <1>2 DEF LoopInv, TypeOK, AttemptsLeft, Trying, Looking, Asking
<1>4. SendsCounted'
  BY <1>1, <1>2 DEF LoopInv, SendsCounted, Once, Again, Waits, Asking
<1>5. FailuresKnown' /\ UsableInCache'
  BY <1>1, <1>2 DEF LoopInv, FailuresKnown, MayRecover, Recoverable, Refreshing, BlameJustified, UsableInCache, RefusalJustified, Looking
<1> QED
  BY <1>3, <1>4, <1>5 DEF LoopInv

\* A request that ends, whatever it records in its history about the database.
LEMMA EndStep ==
  ASSUME LoopInv, NEW result \in Results \ {"none"}, End(result), UNCHANGED <<row, cache, cancelled>>,
         request.pc \notin Asking, history' \in History,
         history'.sends = history.sends, history'.guilty = history.guilty, history'.blamed = history.blamed,
         history'.interrupted = history.interrupted,
         \A a \in history'.usable : Usable(row[a]),
         result = "refused" => history'.databaseFailed \/ history'.usable \subseteq request.tried
  PROVE  LoopInv'
<1>1. request \in RequestState
  BY DEF LoopInv, TypeOK
<1>2. request' \in RequestState /\ request'.pc = "ended" /\ request'.result = result /\ SameRound(request, request')
  BY <1>1, Ended DEF End
<1>3. TypeOK' /\ AttemptsLeft'
  BY <1>2 DEF LoopInv, TypeOK, AttemptsLeft, Trying, Looking, Asking
<1>4. SendsCounted'
  BY <1>2 DEF LoopInv, SendsCounted, Once, Again, Waits, Asking, SameRound
<1>5. FailuresKnown'
  BY <1>2 DEF LoopInv, FailuresKnown, MayRecover, Recoverable, Refreshing, BlameJustified
<1>6. UsableInCache'
  BY <1>2 DEF UsableInCache, RefusalJustified, Looking, SameRound
<1> QED
  BY <1>3, <1>4, <1>5, <1>6 DEF LoopInv

LEMMA HistorySame == ASSUME LoopInv, UNCHANGED history
  PROVE /\ history' \in History
        /\ history'.sends = history.sends /\ history'.guilty = history.guilty /\ history'.interrupted = history.interrupted /\ history'.blamed = history.blamed
        /\ \A a \in history'.usable : Usable(row[a])
  BY DEF LoopInv, TypeOK, UsableInCache

LEMMA SelectStep == ASSUME LoopInv, Select PROVE LoopInv'
<1> DEFINE s == [request EXCEPT !.pc = "choosing", !.excluded = {}, !.cacheRefreshed = FALSE]
<1>1. request \in RequestState /\ history \in History /\ request.pc = "selecting" /\ UNCHANGED <<row, cache, cancelled>>
      /\ request.attempt < request.limit
  BY DEF LoopInv, TypeOK, Select, HasAttempts
<1>2. /\ history' \in History /\ history'.sends = history.sends /\ history'.guilty = history.guilty /\ history'.interrupted = history.interrupted
      /\ history'.blamed = history.blamed /\ history'.usable = {a \in Account : Usable(row[a])}
  BY <1>1 DEF Select, History
<1>3. CASE cancelled
  BY <1>1, <1>2, <1>3, EndStep DEF Select, Results, Asking
<1>4. CASE ~cancelled
  <2>1. request' = s
    BY <1>4 DEF Select
  <2>2. /\ s \in RequestState /\ s.pc = "choosing" /\ s.result = request.result /\ ~s.cacheRefreshed
        /\ SameRound(request, s)
    BY <1>1 DEF RequestState, SameRound
  <2> HIDE DEF s
  <2>3. TypeOK' /\ AttemptsLeft'
    BY <1>1, <1>2, <2>1, <2>2 DEF LoopInv, TypeOK, AttemptsLeft, SameRound
  <2>4. SendsCounted'
    BY <1>1, <1>2, <2>1, <2>2 DEF LoopInv, SendsCounted, Once, Again, Waits, Asking, SameRound
  <2>5. FailuresKnown'
    BY <1>1, <1>2, <2>1, <2>2 DEF LoopInv, FailuresKnown, MayRecover, Recoverable, Refreshing, BlameJustified
  <2>6. UsableInCache'
    BY <1>1, <1>2, <2>1, <2>2 DEF LoopInv, UsableInCache, RefusalJustified
  <2> QED
    BY <2>3, <2>4, <2>5, <2>6 DEF LoopInv
<1> QED
  BY <1>3, <1>4

LEMMA GiveUpStep == ASSUME LoopInv, GiveUp PROVE LoopInv'
  BY EndStep, HistorySame DEF GiveUp, Results, Asking

LEMMA ChooseStep == ASSUME LoopInv, Choose PROVE LoopInv'
<1>1. PICK a \in Best : request' = [request EXCEPT !.pc = "rechecking", !.account = a]
  BY DEF Choose
<1> DEFINE s == [request EXCEPT !.pc = "rechecking", !.account = a]
<1>2. request \in RequestState /\ request.pc = "choosing" /\ UNCHANGED <<row, cache, cancelled, history>> /\ request' = s
  BY <1>1 DEF LoopInv, TypeOK, Choose
<1>3. a \in Account /\ a \notin request.tried
  BY <1>1 DEF Best, Candidates
<1>4. /\ s \in RequestState /\ s.pc = "rechecking" /\ s.result = request.result /\ s.account = a
      /\ s.tried = request.tried /\ s.refreshedAfter401 = request.refreshedAfter401 /\ s.attempt = request.attempt
      /\ s.limit = request.limit /\ s.excluded = request.excluded /\ s.cacheRefreshed = request.cacheRefreshed
  BY <1>2, <1>3 DEF RequestState
<1> HIDE DEF s
<1>5. TypeOK' /\ AttemptsLeft'
  BY <1>2, <1>4 DEF LoopInv, TypeOK, AttemptsLeft, Trying, Looking, Asking
<1>6. SendsCounted'
  BY <1>2, <1>3, <1>4 DEF LoopInv, SendsCounted, Once, Again, Waits, Asking
<1>7. FailuresKnown' /\ UsableInCache'
  BY <1>2, <1>4 DEF LoopInv, FailuresKnown, MayRecover, Recoverable, Refreshing, BlameJustified, UsableInCache, RefusalJustified, Looking
<1> QED
  BY <1>5, <1>6, <1>7 DEF LoopInv

LEMMA RefreshStep == ASSUME LoopInv, Refresh PROVE LoopInv'
<1> DEFINE s == [request EXCEPT !.cacheRefreshed = TRUE, !.excluded = {}]
<1>1. request \in RequestState /\ history \in History /\ request.pc = "choosing" /\ UNCHANGED <<row, cancelled>>
  BY DEF LoopInv, TypeOK, Refresh
<1>2. CASE cache' = row /\ request' = s /\ history' = [history EXCEPT !.databaseFailed = FALSE]
  <2>1. /\ history' \in History /\ history'.sends = history.sends /\ history'.guilty = history.guilty /\ history'.interrupted = history.interrupted
        /\ history'.blamed = history.blamed /\ history'.usable = history.usable
    BY <1>1, <1>2 DEF History
  <2>2. /\ s \in RequestState /\ s.pc = "choosing" /\ s.result = request.result /\ s.excluded = {}
        /\ SameRound(request, s)
    BY <1>1 DEF RequestState, SameRound
  <2> HIDE DEF s
  <2>3. TypeOK' /\ AttemptsLeft'
    BY <1>1, <1>2, <2>1, <2>2 DEF LoopInv, TypeOK, AttemptsLeft, SameRound
  <2>4. SendsCounted'
    BY <1>1, <1>2, <2>1, <2>2 DEF LoopInv, SendsCounted, Once, Again, Waits, Asking, SameRound
  <2>5. FailuresKnown'
    BY <1>1, <1>2, <2>1, <2>2 DEF LoopInv, FailuresKnown, MayRecover, Recoverable, Refreshing, BlameJustified
  <2>6. UsableInCache'
    BY <1>1, <1>2, <2>1, <2>2 DEF LoopInv, UsableInCache, RefusalJustified
  <2> QED
    BY <2>3, <2>4, <2>5, <2>6 DEF LoopInv
<1>3. CASE /\ End(IF cancelled THEN "cancelled" ELSE "refused") /\ UNCHANGED cache
           /\ history' = [history EXCEPT !.databaseFailed = TRUE]
  <2>1. /\ history' \in History /\ history'.sends = history.sends /\ history'.guilty = history.guilty /\ history'.interrupted = history.interrupted
        /\ history'.blamed = history.blamed /\ history'.usable = history.usable /\ history'.databaseFailed
    BY <1>1, <1>3 DEF History
  <2>2. \A a \in history'.usable : Usable(row[a])
    BY <2>1 DEF LoopInv, UsableInCache
  <2>3. (IF cancelled THEN "cancelled" ELSE "refused") \in Results \ {"none"}
    BY DEF Results
  <2> QED
    BY <1>1, <1>3, <2>1, <2>2, <2>3, EndStep DEF Asking
<1> QED
  BY <1>2, <1>3 DEF Refresh

LEMMA RefuseStep == ASSUME LoopInv, Refuse PROVE LoopInv'
<1>1. ~history.databaseFailed => history.usable \subseteq request.tried
  BY DEF LoopInv, TypeOK, Refuse, Candidates, UsableInCache, Looking, History
<1> QED
  BY <1>1, EndStep, HistorySame DEF Refuse, Results, Asking

LEMMA RecheckStep == ASSUME LoopInv, Recheck PROVE LoopInv'
<1> DEFINE a == request.account
<1>1. /\ request \in RequestState /\ history \in History /\ request.pc = "rechecking" /\ a \in Account
      /\ UNCHANGED <<row, cache, cancelled>>
  BY DEF LoopInv, TypeOK, Recheck, RequestState
<1>2. CASE cancelled /\ End("cancelled") /\ UNCHANGED history
  BY <1>1, <1>2, EndStep, HistorySame DEF Results, Asking
<1>3. CASE Try(a) /\ UNCHANGED history
  <2> DEFINE s == [request EXCEPT !.pc = "sending", !.body = "given", !.tried = @ \union {a}]
  <2>1. request' = s
    BY <1>3 DEF Try
  <2>2. /\ s \in RequestState /\ s.pc = "sending" /\ s.result = request.result /\ s.account = a
        /\ s.tried = request.tried \union {a} /\ s.refreshedAfter401 = request.refreshedAfter401
        /\ s.attempt = request.attempt /\ s.limit = request.limit /\ s.body = "given"
    BY <1>1 DEF RequestState, Body
  <2> HIDE DEF s
  <2>3. TypeOK' /\ AttemptsLeft'
    BY <1>1, <1>3, <2>1, <2>2 DEF LoopInv, TypeOK, AttemptsLeft, Trying, Looking, Asking
  <2>4. SendsCounted'
    <3>1. ASSUME NEW body \in Body, NEW b \in Account
          PROVE  history'.sends[body][b] <= Once(body, b)' + Again(b)'
      <4>1. history'.sends[body][b] <= Once(body, b) + Again(b)
        BY <1>3 DEF LoopInv, SendsCounted
      <4>2. Once(body, b)' = Once(body, b)
        BY <1>1, <2>1, <2>2 DEF Once, Waits, Asking, Body, LoopInv, SendsCounted
      <4>3. Again(b)' = Again(b)
        BY <2>1, <2>2 DEF Again
      <4> QED
        BY <4>1, <4>2, <4>3
    <3> QED
      BY <2>1, <2>2, <3>1 DEF SendsCounted, Asking
  <2>5. FailuresKnown' /\ UsableInCache'
    BY <1>1, <1>3, <2>1, <2>2 DEF LoopInv, FailuresKnown, MayRecover, Recoverable, Refreshing, BlameJustified, UsableInCache, RefusalJustified, Looking
  <2> QED
    BY <2>3, <2>4, <2>5 DEF LoopInv
<1>4. ASSUME Exclude(a), history' \in History, history'.sends = history.sends, history'.guilty = history.guilty, history'.interrupted = history.interrupted,
             history'.blamed = history.blamed, history'.usable = history.usable,
             history'.databaseFailed \/ (~Usable(row[a]) /\ UNCHANGED history)
      PROVE  LoopInv'
  <2> DEFINE s == [request EXCEPT !.pc = "choosing", !.excluded = @ \union {a}]
  <2>1. request' = s
    BY <1>4 DEF Exclude
  <2>2. /\ s \in RequestState /\ s.pc = "choosing" /\ s.result = request.result
        /\ s.excluded = request.excluded \union {a} /\ s.cacheRefreshed = request.cacheRefreshed
        /\ SameRound(request, s)
    BY <1>1 DEF RequestState, SameRound
  <2> HIDE DEF s
  <2>3. TypeOK' /\ AttemptsLeft'
    BY <1>1, <1>4, <2>1, <2>2 DEF LoopInv, TypeOK, AttemptsLeft, Trying, Looking, Asking, SameRound
  <2>4. SendsCounted'
    BY <1>1, <1>4, <2>1, <2>2 DEF LoopInv, SendsCounted, Once, Again, Waits, Asking, SameRound
  <2>5. FailuresKnown'
    BY <1>1, <1>4, <2>1, <2>2 DEF LoopInv, FailuresKnown, MayRecover, Recoverable, Refreshing, BlameJustified
  <2>6. UsableInCache'
    BY <1>1, <1>4, <2>1, <2>2 DEF LoopInv, UsableInCache, RefusalJustified, Looking
  <2> QED
    BY <2>3, <2>4, <2>5, <2>6 DEF LoopInv
<1>5. CASE Exclude(a) /\ ~Usable(row[a]) /\ UNCHANGED history
  BY <1>1, <1>4, <1>5
<1>6. CASE Exclude(a) /\ history' = [history EXCEPT !.databaseFailed = TRUE]
  <2>1. /\ history' \in History /\ history'.sends = history.sends /\ history'.guilty = history.guilty /\ history'.interrupted = history.interrupted
        /\ history'.blamed = history.blamed /\ history'.usable = history.usable /\ history'.databaseFailed
    BY <1>1, <1>6 DEF History
  <2> QED
    BY <1>4, <1>6, <2>1
<1> QED
  BY <1>2, <1>3, <1>5, <1>6 DEF Recheck

-----------------------------------------------------------------------------
(* The attempt.                                                            *)

\* What an answered attempt leaves, whether the account was asked or not.
LEMMA AnswerStep ==
  ASSUME LoopInv, request.pc \in Asking, NEW status \in Status, Answer(status), UNCHANGED cancelled,
         row' \in [Account -> Standing], cache' \in [Account -> Standing], history' \in History,
         \A body \in Body, b \in Account :
           history'.sends[body][b] <= history.sends[body][b]
                                      + IF b = request.account /\ body = request.body THEN 1 ELSE 0,
         history.interrupted \subseteq history'.interrupted,
         history'.blamed \subseteq history'.guilty \union history'.interrupted,
         status \notin {200, 400, 409} /\ ~(status = 401 /\ Recoverable) /\ ~cancelled
           => request.account \in history'.guilty,
         \A b \in history'.usable : Usable(row'[b])
  PROVE  LoopInv'
<1> DEFINE s == [request EXCEPT !.pc = "answered", !.status = status]
<1>1. /\ request \in RequestState /\ history \in History /\ request' = s /\ request.account \in request.tried
      /\ request.result = "none"
  BY DEF LoopInv, TypeOK, Answer, SendsCounted, UsableInCache, Asking
<1>2. s \in RequestState /\ s.pc = "answered" /\ s.status = status /\ s.result = request.result /\ SameRound(request, s)
  BY <1>1 DEF RequestState, SameRound
<1> HIDE DEF s
<1>3. TypeOK' /\ AttemptsLeft'
  BY <1>1, <1>2 DEF LoopInv, TypeOK, AttemptsLeft, Trying, SameRound
<1>4. SendsCounted'
  <2>1. ASSUME NEW body \in Body, NEW b \in Account
        PROVE  history'.sends[body][b] <= Once(body, b)' + Again(b)'
    <3>1. history.sends[body][b] \in Nat /\ history'.sends[body][b] \in Nat
      BY <1>1 DEF History
    <3>2. history.sends[body][b] <= Once(body, b) + Again(b)
      BY DEF LoopInv, SendsCounted
    <3>3. Again(b)' = Again(b) /\ Again(b) \in {0, 1}
      BY <1>1, <1>2 DEF Again, SameRound
    <3>4. Once(body, b)' = IF b \in request.tried THEN 1 ELSE 0
      BY <1>1, <1>2 DEF Once, Waits, Asking, SameRound
    <3>5. Once(body, b) \in {0, 1} /\ (b \notin request.tried => Once(body, b) = 0)
      BY DEF Once
    <3>6. b = request.account /\ body = request.body => Once(body, b) = 0
      BY DEF Once, Waits
    <3> QED
      BY <1>1, <3>1, <3>2, <3>3, <3>4, <3>5, <3>6
  <2> QED
    BY <1>1, <1>2, <2>1 DEF SendsCounted, Asking
<1>5. FailuresKnown'
  BY <1>1, <1>2 DEF FailuresKnown, MayRecover, Recoverable, Refreshing, BlameJustified, SameRound
<1>6. UsableInCache'
  BY <1>1, <1>2 DEF UsableInCache, RefusalJustified, Looking
<1> QED
  BY <1>3, <1>4, <1>5, <1>6 DEF LoopInv

\* An attempt that goes on while the client waits.
LEMMA OnwardStep ==
  ASSUME LoopInv, NEW pc, request' = [request EXCEPT !.pc = pc], ~cancelled, UNCHANGED <<cancelled, history>>,
         (request.pc \in Asking /\ pc \in {"exchanging", "asking"}) \/ (request.pc = "answered" /\ pc = "recovering"),
         pc = "recovering" => request.account \notin request.refreshedAfter401,
         row' \in [Account -> Standing], cache' \in [Account -> Standing],
         \A b \in history.usable : Usable(row'[b])
  PROVE  LoopInv'
<1> DEFINE s == [request EXCEPT !.pc = pc]
<1>1. request \in RequestState /\ request' = s /\ request.result = "none"
  BY DEF LoopInv, TypeOK, UsableInCache, Asking
<1>2. s \in RequestState /\ s.pc = pc /\ s.body = request.body /\ s.result = request.result /\ SameRound(request, s)
  BY <1>1 DEF RequestState, SameRound, Refreshing, Asking
<1> HIDE DEF s
<1>3. TypeOK' /\ AttemptsLeft'
  BY <1>1, <1>2 DEF LoopInv, TypeOK, AttemptsLeft, Trying, Asking, SameRound
<1>4. SendsCounted'
  BY <1>1, <1>2 DEF LoopInv, SendsCounted, Once, Again, Waits, Asking, SameRound
<1>5. FailuresKnown'
  BY <1>1, <1>2 DEF LoopInv, FailuresKnown, BlameJustified
<1>6. UsableInCache'
  BY <1>1, <1>2 DEF LoopInv, UsableInCache, RefusalJustified, Looking
<1> QED
  BY <1>3, <1>4, <1>5, <1>6 DEF LoopInv

\* New tokens never take an account out of use.
LEMMA Refreshed ==
  ASSUME LoopInv, NEW a \in Account, TokensRefreshed(a)
  PROVE  /\ row' \in [Account -> Standing] /\ cache' \in [Account -> Standing] /\ ~cancelled
         /\ \A b \in history.usable : Usable(row'[b])
<1>1. row \in [Account -> Standing] /\ cache \in [Account -> Standing] /\ history.usable \subseteq Account
  BY DEF LoopInv, TypeOK, History
<1>2. PICK standing \in IF row[a] = Barred THEN Priority \union {Barred} ELSE {row[a]} :
        row' = [row EXCEPT ![a] = standing]
  BY DEF TokensRefreshed
<1>3. standing \in Standing
  BY <1>1, <1>2, Standings
<1>4. row' \in [Account -> Standing]
  BY <1>1, <1>2, <1>3
<1>5. \A b \in history.usable : Usable(row[b])
  BY DEF LoopInv, UsableInCache
<1>6. ~Usable(Barred)
  BY LoopConstants DEF Usable, Barred
<1>7. \A b \in history.usable : row'[b] = row[b]
  BY <1>1, <1>2, <1>5, <1>6
<1> QED
  BY <1>1, <1>4, <1>5, <1>7 DEF TokensRefreshed

\* A recorded failure has a reason if it is one of a guilty account or of an interrupted refresh.
LEMMA Marked ==
  ASSUME LoopInv, NEW a \in Account, NEW guilty \in SUBSET Account, MarkFailure(a, guilty),
         a \in history.guilty \union guilty \union history.interrupted
  PROVE  /\ row' \in [Account -> Standing] /\ cache' \in [Account -> Standing]
         /\ history' \in History /\ history'.sends = history.sends
         /\ history'.guilty = history.guilty \union guilty /\ history'.interrupted = history.interrupted
         /\ history'.blamed \subseteq history'.guilty \union history'.interrupted
         /\ \A b \in history'.usable : Usable(row'[b])
<1>1. row' \in [Account -> Standing] /\ cache' \in [Account -> Standing]
  BY Standings DEF LoopInv, TypeOK, MarkFailure
<1>2. history \in History /\ history.blamed \subseteq history.guilty \union history.interrupted
  BY DEF LoopInv, TypeOK, FailuresKnown, BlameJustified
<1>3. history' = [history EXCEPT !.blamed = @ \union {a}, !.guilty = @ \union guilty,
                                 !.usable = {b \in @ : Usable(row'[b])}]
  BY DEF MarkFailure
<1>4. /\ history' \in History /\ history'.sends = history.sends
      /\ history'.guilty = history.guilty \union guilty /\ history'.interrupted = history.interrupted
      /\ history'.blamed = history.blamed \union {a}
      /\ history'.usable = {b \in history.usable : Usable(row'[b])}
  BY <1>2, <1>3 DEF History
<1> QED
  BY <1>1, <1>2, <1>4

\* An attempt that fails, with nothing recorded yet.
LEMMA Unrecorded ==
  ASSUME LoopInv, NEW guilty \in SUBSET Account, history' = [history EXCEPT !.guilty = @ \union guilty]
  PROVE  /\ history' \in History /\ history'.sends = history.sends
         /\ history'.guilty = history.guilty \union guilty /\ history'.interrupted = history.interrupted
         /\ history'.blamed \subseteq history'.guilty \union history'.interrupted
         /\ history'.usable = history.usable
<1>1. history \in History /\ history.blamed \subseteq history.guilty \union history.interrupted
  BY DEF LoopInv, TypeOK, FailuresKnown, BlameJustified
<1> QED
  BY <1>1 DEF History

\* An attempt that ends before the account is asked.
LEMMA NotAskedStep ==
  ASSUME LoopInv, request.pc \in {"sending", "exchanging"}, Answer(0), UNCHANGED cancelled,
         row' \in [Account -> Standing], cache' \in [Account -> Standing],
         history' \in History, history'.sends = history.sends,
         history'.guilty = history.guilty \union Guilty, history'.interrupted = history.interrupted,
         history'.blamed \subseteq history'.guilty \union history'.interrupted,
         \A b \in history'.usable : Usable(row'[b])
  PROVE  LoopInv'
<1>1. \A body \in Body, b \in Account : history.sends[body][b] \in Nat
  BY DEF LoopInv, TypeOK, History
<1>2. \A body \in Body, b \in Account :
        history'.sends[body][b] <= history.sends[body][b]
                                   + IF b = request.account /\ body = request.body THEN 1 ELSE 0
  BY <1>1
<1>3. ~cancelled => request.account \in history'.guilty
  BY DEF Guilty
<1>4. 0 \in Status /\ request.pc \in Asking
  BY DEF Status, Asking
<1> QED
  BY <1>2, <1>3, <1>4, AnswerStep

LEMMA AuthorizeStep == ASSUME LoopInv, Authorize PROVE LoopInv'
<1>1. /\ request.pc = "sending" /\ request.account \in Account /\ UNCHANGED <<row, cancelled>>
      /\ row \in [Account -> Standing] /\ cache \in [Account -> Standing]
  BY DEF LoopInv, TypeOK, RequestState, Authorize
<1>2. \A b \in history.usable : Usable(row[b])
  BY DEF LoopInv, UsableInCache
<1>3. CASE /\ ~cancelled /\ UNCHANGED history /\ cache' \in {cache, row}
           /\ \/ request' = [request EXCEPT !.pc = "asking"]
              \/ request' = [request EXCEPT !.pc = "exchanging"]
  BY <1>1, <1>2, <1>3, OnwardStep DEF Asking
<1>4. CASE Answer(0) /\ history' = [history EXCEPT !.guilty = @ \union Guilty] /\ UNCHANGED cache
  <2>1. Guilty \in SUBSET Account
    BY <1>1 DEF Guilty
  <2> QED
    BY <1>1, <1>2, <1>4, <2>1, Unrecorded, NotAskedStep
<1> QED
  BY <1>3, <1>4 DEF Authorize

LEMMA ExchangedStep == ASSUME LoopInv, Exchanged PROVE LoopInv'
<1>1. request.account \in Account /\ request.pc \in Asking
  BY DEF LoopInv, TypeOK, RequestState, Exchanged, Asking
<1> QED
  BY <1>1, Refreshed, OnwardStep DEF Exchanged

LEMMA ExchangeFailsStep == ASSUME LoopInv, ExchangeFails PROVE LoopInv'
<1> DEFINE a == request.account
<1>1. /\ request.pc = "exchanging" /\ a \in Account /\ Answer(0) /\ UNCHANGED cancelled
      /\ row \in [Account -> Standing] /\ cache \in [Account -> Standing]
  BY DEF LoopInv, TypeOK, RequestState, ExchangeFails
<1>2. Guilty \in SUBSET Account /\ a \in Guilty \union history.interrupted
  BY <1>1 DEF Guilty, LoopInv, FailuresKnown, Refreshing
<1>3. CASE MarkFailure(a, Guilty)
  BY <1>1, <1>2, <1>3, Marked, NotAskedStep
<1>4. CASE history' = [history EXCEPT !.guilty = @ \union Guilty] /\ UNCHANGED <<row, cache>>
  <2>1. \A b \in history.usable : Usable(row[b])
    BY DEF LoopInv, UsableInCache
  <2> QED
    BY <1>1, <1>2, <1>4, <2>1, Unrecorded, NotAskedStep
<1> QED
  BY <1>1, <1>3, <1>4 DEF ExchangeFails

LEMMA OneMoreSend ==
  ASSUME NEW sends \in [Body -> [Account -> Nat]], NEW body \in Body, NEW a \in Account,
         NEW new, new = [sends EXCEPT ![body][a] = @ + 1]
  PROVE  /\ new \in [Body -> [Account -> Nat]]
         /\ \A other \in Body, b \in Account :
              new[other][b] = sends[other][b] + IF b = a /\ other = body THEN 1 ELSE 0
  OBVIOUS

LEMMA AskStep == ASSUME LoopInv, Ask PROVE LoopInv'
<1> DEFINE a == request.account
<1>1. /\ request \in RequestState /\ history \in History /\ request.pc = "asking" /\ a \in Account
      /\ request.body \in Body /\ a \in request.tried /\ UNCHANGED <<row, cache, cancelled>>
      /\ row \in [Account -> Standing] /\ cache \in [Account -> Standing]
  BY DEF LoopInv, TypeOK, Ask, RequestState, SendsCounted, Asking
<1>2. PICK status \in IF cancelled THEN {0} ELSE Status :
        /\ \/ Answer(status)
           \/ /\ request.anthropic /\ status = 400 /\ request.body = "given"
              /\ request' = [request EXCEPT !.pc = "sending", !.body = "repaired"]
        /\ history' = [history EXCEPT
                         !.sends[request.body][request.account] = @ + 1,
                         !.guilty = @ \union IF status \in {200, 400, 409} \/ (status = 401 /\ Recoverable)
                                               THEN {} ELSE Guilty]
  BY DEF Ask
<1>3. status \in Status
  BY <1>2 DEF Status
<1> DEFINE sends == [history.sends EXCEPT ![request.body][a] = @ + 1]
<1> DEFINE guilty == IF status \in {200, 400, 409} \/ (status = 401 /\ Recoverable) THEN {} ELSE Guilty
<1>4. history' = [history EXCEPT !.sends = sends, !.guilty = @ \union guilty]
  BY <1>1, <1>2 DEF History
<1>5. guilty \in SUBSET Account
  BY <1>1 DEF Guilty
<1>6. status \notin {200, 400, 409} /\ ~(status = 401 /\ Recoverable) /\ ~cancelled => a \in guilty
  BY DEF Guilty
<1>7. history.sends \in [Body -> [Account -> Nat]]
  BY <1>1 DEF History
<1>8. /\ sends \in [Body -> [Account -> Nat]]
      /\ \A other \in Body, b \in Account :
           sends[other][b] = history.sends[other][b] + IF b = a /\ other = request.body THEN 1 ELSE 0
  BY <1>1, <1>7, OneMoreSend
<1> HIDE DEF sends, guilty
<1>9. /\ history' \in History /\ history'.sends = sends /\ history'.guilty = history.guilty \union guilty
      /\ history'.interrupted = history.interrupted /\ history'.blamed = history.blamed
      /\ history'.usable = history.usable /\ history'.databaseFailed = history.databaseFailed
  BY <1>1, <1>4, <1>5, <1>8 DEF History
<1>10. history'.blamed \subseteq history'.guilty \union history'.interrupted
  BY <1>9 DEF LoopInv, FailuresKnown, BlameJustified
<1>11. \A b \in history'.usable : Usable(row'[b])
  BY <1>1, <1>9 DEF LoopInv, UsableInCache
<1>12. CASE Answer(status)
  <2>1. \A body \in Body, b \in Account :
          history'.sends[body][b] <= history.sends[body][b]
                                     + IF b = request.account /\ body = request.body THEN 1 ELSE 0
    BY <1>7, <1>8, <1>9
  <2>2. request.pc \in Asking
    BY <1>1 DEF Asking
  <2> QED
    BY <1>1, <1>3, <1>6, <1>9, <1>10, <1>11, <1>12, <2>1, <2>2, AnswerStep
<1>13. CASE request.body = "given" /\ request' = [request EXCEPT !.pc = "sending", !.body = "repaired"]
  <2> DEFINE s == [request EXCEPT !.pc = "sending", !.body = "repaired"]
  <2>1. /\ s \in RequestState /\ s.pc = "sending" /\ s.body = "repaired" /\ s.result = request.result
        /\ SameRound(request, s)
    BY <1>1 DEF RequestState, SameRound, Body
  <2>2. request' = s
    BY <1>13
  <2> HIDE DEF s
  <2>3. TypeOK' /\ AttemptsLeft'
    BY <1>1, <1>9, <2>1, <2>2 DEF LoopInv, TypeOK, AttemptsLeft, Trying, Asking, SameRound
  <2>4. SendsCounted'
    <3>1. ASSUME NEW body \in Body, NEW b \in Account
          PROVE  history'.sends[body][b] <= Once(body, b)' + Again(b)'
      <4>1. history.sends[body][b] \in Nat
            /\ history'.sends[body][b] = history.sends[body][b] + IF b = a /\ body = request.body THEN 1 ELSE 0
        BY <1>7, <1>8, <1>9
      <4>2. history.sends[body][b] <= Once(body, b) + Again(b)
        BY DEF LoopInv, SendsCounted
      <4>3. Again(b)' = Again(b) /\ Again(b) \in {0, 1}
        BY <2>1, <2>2 DEF Again, SameRound
      <4>4. CASE b = a /\ body = "given"
        <5>1. Once(body, b) = 0 /\ Once(body, b)' = 1
          BY <1>1, <1>13, <2>1, <2>2, <4>4 DEF Once, Waits, Asking, SameRound
        <5> QED
          BY <1>13, <4>1, <4>2, <4>3, <4>4, <5>1
      <4>5. CASE ~(b = a /\ body = "given")
        <5>1. Once(body, b)' = Once(body, b) /\ Once(body, b) \in {0, 1}
          BY <1>1, <1>13, <2>1, <2>2, <4>5 DEF Once, Waits, Asking, SameRound, Body
        <5> QED
          BY <1>13, <4>1, <4>2, <4>3, <4>5, <5>1
      <4> QED
        BY <4>4, <4>5
    <3> QED
      BY <1>1, <2>1, <2>2, <3>1 DEF SendsCounted, Asking, SameRound
  <2>5. FailuresKnown'
    BY <1>10, <2>1, <2>2 DEF FailuresKnown, Refreshing, BlameJustified
  <2>6. UsableInCache'
    BY <1>1, <1>9, <1>11, <2>1, <2>2 DEF LoopInv, UsableInCache, RefusalJustified, Looking
  <2> QED
    BY <2>3, <2>4, <2>5, <2>6 DEF LoopInv
<1> QED
  BY <1>2, <1>12, <1>13

-----------------------------------------------------------------------------
(* After the answer.                                                       *)

\* A request that goes on with the next account.
LEMMA TryNextStep ==
  ASSUME LoopInv, request.pc \in {"answered", "recovering"}, TryNext, UNCHANGED cancelled,
         row' \in [Account -> Standing], cache' \in [Account -> Standing],
         history' \in History, history'.sends = history.sends,
         history'.blamed \subseteq history'.guilty \union history'.interrupted,
         \A b \in history'.usable : Usable(row'[b])
  PROVE  LoopInv'
<1>1. request \in RequestState /\ request.attempt < request.limit
  BY DEF LoopInv, TypeOK, AttemptsLeft, Trying
<1>2. /\ request' \in RequestState /\ request'.pc = "selecting" /\ request'.result = request.result
      /\ request'.tried = request.tried /\ request'.refreshedAfter401 = request.refreshedAfter401
  BY <1>1, NextRound, LoopConstants DEF TryNext
<1>3. TypeOK' /\ AttemptsLeft' /\ FailuresKnown'
  BY <1>2 DEF LoopInv, TypeOK, AttemptsLeft, Trying, Looking, Asking, FailuresKnown, Refreshing, BlameJustified
<1>4. SendsCounted'
  BY <1>2 DEF LoopInv, SendsCounted, Once, Again, Waits, Asking
<1>5. UsableInCache'
  BY <1>2 DEF LoopInv, UsableInCache, RefusalJustified, Looking
<1> QED
  BY <1>3, <1>4, <1>5 DEF LoopInv

LEMMA UnreachableStep == ASSUME LoopInv, Unreachable PROVE LoopInv'
<1>1. request.pc = "answered" /\ request.status = 0 /\ UNCHANGED cancelled /\ request.account \in Account
  BY DEF Unreachable, LoopInv, TypeOK, RequestState
<1>2. CASE cancelled
  BY <1>1, <1>2, EndStep, HistorySame DEF Unreachable, Gone, Results, Asking
<1>3. CASE ~cancelled
  <2>1. MarkFailure(request.account, {}) /\ TryNext /\ request.account \in history.guilty
    BY <1>1, <1>3 DEF Unreachable, Gone, LoopInv, FailuresKnown, MayRecover
  <2> QED
    BY <1>1, <2>1, Marked, TryNextStep
<1> QED
  BY <1>2, <1>3

LEMMA BeginRecoveryStep == ASSUME LoopInv, BeginRecovery PROVE LoopInv'
<1>1. row \in [Account -> Standing] /\ cache \in [Account -> Standing] /\ \A b \in history.usable : Usable(row[b])
  BY DEF LoopInv, TypeOK, UsableInCache
<1> QED
  BY <1>1, OnwardStep DEF BeginRecovery, MayRecover, Recoverable

LEMMA RecoverStep == ASSUME LoopInv, Recover PROVE LoopInv'
<1> DEFINE a == request.account
<1> DEFINE s == [request EXCEPT !.pc = "selecting", !.tried = @ \ {a}, !.refreshedAfter401 = @ \union {a}]
<1>1. /\ request \in RequestState /\ request.pc = "recovering" /\ a \in Account
      /\ UNCHANGED <<cancelled, history>> /\ request' = s
  BY DEF LoopInv, TypeOK, Recover, RequestState
<1>2. /\ s \in RequestState /\ s.pc = "selecting" /\ s.result = request.result /\ s.tried = request.tried \ {a}
      /\ s.refreshedAfter401 = request.refreshedAfter401 \union {a}
  BY <1>1 DEF RequestState
<1> HIDE DEF s
<1>3. /\ row' \in [Account -> Standing] /\ cache' \in [Account -> Standing]
      /\ \A b \in history.usable : Usable(row'[b])
  BY <1>1, Refreshed DEF Recover
<1>4. TypeOK' /\ AttemptsLeft' /\ FailuresKnown'
  BY <1>1, <1>2, <1>3 DEF LoopInv, TypeOK, AttemptsLeft, Trying, Looking, Asking, FailuresKnown, Refreshing, BlameJustified
<1>5. SendsCounted'
  <2>1. history.sends \in [Body -> [Account -> Nat]]
    BY DEF LoopInv, TypeOK, History
  <2>2. ASSUME NEW body \in Body, NEW b \in Account
        PROVE  history'.sends[body][b] <= Once(body, b)' + Again(b)'
    <3>1. history.sends[body][b] \in Nat /\ history.sends[body][b] <= Once(body, b) + Again(b)
      BY <2>1 DEF LoopInv, SendsCounted
    <3>2. CASE b = a
      <4>1. Once(body, b) \in {0, 1} /\ Again(b) = 0
        BY <1>1, <3>2 DEF Once, Again, LoopInv, SendsCounted
      <4>2. Once(body, b)' = 0 /\ Again(b)' = 1
        BY <1>1, <1>2, <3>2 DEF Once, Again
      <4> QED
        BY <1>1, <3>1, <4>1, <4>2
    <3>3. CASE b # a
      <4>1. Once(body, b)' = Once(body, b) /\ Again(b)' = Again(b)
        BY <1>1, <1>2, <3>3 DEF Once, Again, Waits, Asking
      <4> QED
        BY <1>1, <3>1, <4>1
    <3> QED
      BY <3>2, <3>3
  <2> QED
    BY <1>1, <1>2, <2>2 DEF SendsCounted, Asking
<1>6. UsableInCache'
  BY <1>1, <1>2, <1>3 DEF LoopInv, UsableInCache, RefusalJustified, Looking
<1> QED
  BY <1>4, <1>5, <1>6 DEF LoopInv

LEMMA RecoveryFailsStep == ASSUME LoopInv, RecoveryFails PROVE LoopInv'
<1>1. /\ request.pc = "recovering" /\ UNCHANGED cancelled /\ request.account \in Account
      /\ MarkFailure(request.account, Guilty) /\ TryNext
  BY DEF RecoveryFails, LoopInv, TypeOK, RequestState
<1>2. Guilty \in SUBSET Account /\ request.account \in Guilty \union history.interrupted
  BY <1>1 DEF Guilty, LoopInv, FailuresKnown, Refreshing
<1> QED
  BY <1>1, <1>2, Marked, TryNextStep

LEMMA RetryStep == ASSUME LoopInv, Retry PROVE LoopInv'
<1>1. /\ request.pc = "answered" /\ UNCHANGED cancelled /\ request.account \in Account
      /\ MarkFailure(request.account, {}) /\ request.account \in history.guilty
  BY DEF Retry, ShouldRetry, LoopInv, FailuresKnown, TypeOK, RequestState
<1>2. CASE TryNext
  BY <1>1, <1>2, Marked, TryNextStep
<1>3. CASE End("returned")
  <2>1. request' \in RequestState /\ request'.pc = "ended" /\ request'.result = "returned" /\ SameRound(request, request')
    BY <1>3, Ended DEF End, LoopInv, TypeOK, Results
  <2>2. /\ row' \in [Account -> Standing] /\ cache' \in [Account -> Standing]
        /\ history' \in History /\ history'.sends = history.sends
        /\ history'.blamed \subseteq history'.guilty \union history'.interrupted
        /\ \A b \in history'.usable : Usable(row'[b])
    BY <1>1, Marked
  <2>3. TypeOK' /\ AttemptsLeft' /\ FailuresKnown'
    BY <1>1, <2>1, <2>2 DEF LoopInv, TypeOK, AttemptsLeft, Trying, Looking, Asking, FailuresKnown, Refreshing, BlameJustified
  <2>4. SendsCounted'
    BY <1>1, <2>1, <2>2 DEF LoopInv, SendsCounted, Once, Again, Waits, Asking, SameRound
  <2>5. UsableInCache'
    BY <2>1, <2>2 DEF UsableInCache, RefusalJustified, Looking
  <2> QED
    BY <2>3, <2>4, <2>5 DEF LoopInv
<1> QED
  BY <1>2, <1>3 DEF Retry

LEMMA RejectStep == ASSUME LoopInv, Reject PROVE LoopInv'
<1>1. request.pc = "answered" /\ UNCHANGED <<row, cache, cancelled, history>>
  BY DEF Reject
<1>2. CASE TryNext
  BY <1>1, <1>2, TryNextStep DEF LoopInv, TypeOK, FailuresKnown, BlameJustified, UsableInCache
<1>3. CASE End("returned")
  BY <1>1, <1>3, EndStep, HistorySame DEF Results, Asking
<1> QED
  BY <1>2, <1>3 DEF Reject

LEMMA LastStep == ASSUME LoopInv, Drop \/ Succeed PROVE LoopInv'
<1>1. CASE Drop
  BY <1>1, EndStep, HistorySame DEF Drop, Results, Asking
<1>2. CASE Succeed
  BY <1>2, EndStep, HistorySame DEF Succeed, Results, Asking
<1> QED
  BY <1>1, <1>2

-----------------------------------------------------------------------------
(* Everybody else.                                                         *)

LEMMA OthersStep == ASSUME LoopInv, RowChanges \/ CacheChanges \/ Cancel PROVE LoopInv'
<1>1. UNCHANGED request /\ request.pc # "ended"
  BY DEF RowChanges, CacheChanges, Cancel
<1>2. CASE RowChanges
  <2>1. history \in History /\ UNCHANGED <<cache, cancelled>>
    BY <1>2 DEF RowChanges, LoopInv, TypeOK
  <2>2. /\ history' \in History /\ history'.sends = history.sends /\ history'.guilty = history.guilty /\ history'.interrupted = history.interrupted
        /\ history'.blamed = history.blamed /\ history'.databaseFailed = history.databaseFailed
        /\ history'.usable = {a \in history.usable : Usable(row'[a])}
    BY <1>2, <2>1 DEF RowChanges, History
  <2>3. row' \in [Account -> Standing]
    BY <1>2 DEF RowChanges, LoopInv, TypeOK
  <2>4. TypeOK' /\ AttemptsLeft' /\ SendsCounted' /\ FailuresKnown'
    BY <1>1, <2>1, <2>2, <2>3 DEF LoopInv, TypeOK, AttemptsLeft, SendsCounted, Once, Again, Waits, Asking, FailuresKnown, MayRecover, Recoverable, Refreshing, BlameJustified
  <2>5. UsableInCache'
    BY <1>1, <2>1, <2>2 DEF LoopInv, UsableInCache, RefusalJustified
  <2> QED
    BY <2>4, <2>5 DEF LoopInv
<1>3. CASE CacheChanges
  <2>1. UNCHANGED <<row, cancelled, history>> /\ cache' \in [Account -> Standing]
    BY <1>3 DEF CacheChanges, LoopInv, TypeOK
  <2>2. TypeOK' /\ AttemptsLeft' /\ SendsCounted' /\ FailuresKnown'
    BY <1>1, <2>1 DEF LoopInv, TypeOK, AttemptsLeft, SendsCounted, Once, Again, Waits, Asking, FailuresKnown, MayRecover, Recoverable, Refreshing, BlameJustified
  <2>3. \A a \in Account : cache'[a] \in {cache[a], row[a]}
    BY <1>3 DEF CacheChanges, LoopInv, TypeOK
  <2>4. UsableInCache'
    BY <1>1, <2>1, <2>3 DEF LoopInv, TypeOK, History, UsableInCache, RefusalJustified
  <2> QED
    BY <2>2, <2>4 DEF LoopInv
<1>4. CASE Cancel
  <2>1. UNCHANGED <<row, cache>> /\ cancelled' = TRUE /\ ~cancelled /\ request.account \in Account /\ history \in History
    BY <1>4 DEF Cancel, LoopInv, TypeOK, RequestState
  <2>2. /\ history' \in History /\ history'.sends = history.sends /\ history'.guilty = history.guilty
        /\ history'.blamed = history.blamed /\ history'.usable = history.usable
        /\ history'.databaseFailed = history.databaseFailed
        /\ history.interrupted \subseteq history'.interrupted
        /\ request.pc \in Refreshing => request.account \in history'.interrupted
    BY <1>4, <2>1 DEF Cancel, History
  <2>3. TypeOK' /\ AttemptsLeft' /\ SendsCounted'
    BY <1>1, <2>1, <2>2 DEF LoopInv, TypeOK, AttemptsLeft, SendsCounted, Once, Again, Waits, Asking
  <2>4. FailuresKnown'
    BY <1>1, <2>1, <2>2 DEF LoopInv, FailuresKnown, BlameJustified
  <2>5. UsableInCache'
    BY <1>1, <2>1, <2>2 DEF LoopInv, UsableInCache, RefusalJustified
  <2> QED
    BY <2>3, <2>4, <2>5 DEF LoopInv
<1> QED
  BY <1>2, <1>3, <1>4

LEMMA LoopAlways == Spec => []LoopInv
<1>1. Init => LoopInv
  <2>1. SUFFICES ASSUME Init PROVE LoopInv
    OBVIOUS
  <2>2. PICK anthropic \in BOOLEAN, first \in Account :
          request = [pc |-> "new", anthropic |-> anthropic, tried |-> {}, excluded |-> {},
                     cacheRefreshed |-> FALSE, refreshedAfter401 |-> {}, attempt |-> 0,
                     limit |-> 1, account |-> first, body |-> "given", status |-> 0, result |-> "none"]
    BY <2>1 DEF Init
  <2>3. request \in RequestState /\ request.pc = "new" /\ request.result = "none"
    BY <2>2, LoopConstants DEF RequestState, Status, Body
  <2>4. history \in History /\ \A body \in Body, a \in Account : history.sends[body][a] = 0
    BY <2>1 DEF Init, History
  <2>5. history.blamed = {} /\ history.usable = {}
    BY <2>1 DEF Init
  <2>6. TypeOK
    BY <2>1, <2>3, <2>4 DEF Init, TypeOK
  <2>7. AttemptsLeft /\ SendsCounted
    BY <2>3, <2>4 DEF AttemptsLeft, SendsCounted, Once, Again, Trying, Looking, Asking
  <2>8. FailuresKnown /\ UsableInCache
    BY <2>3, <2>5 DEF FailuresKnown, MayRecover, Recoverable, Refreshing, BlameJustified, UsableInCache, RefusalJustified, Looking
  <2> QED
    BY <2>6, <2>7, <2>8 DEF LoopInv
<1>2. LoopInv /\ UNCHANGED vars => LoopInv'
  BY DEF vars, LoopInv, TypeOK, AttemptsLeft, SendsCounted, Once, Again, Waits, Asking, FailuresKnown, MayRecover, Recoverable, Refreshing, BlameJustified, UsableInCache, RefusalJustified
<1>3. LoopInv /\ [Next]_vars => LoopInv'
  BY <1>2, StartStep, SelectStep, GiveUpStep, ChooseStep, RefreshStep, RefuseStep, RecheckStep, AuthorizeStep, ExchangedStep,
    ExchangeFailsStep, AskStep, UnreachableStep, BeginRecoveryStep, RecoverStep, RecoveryFailsStep, RetryStep, RejectStep, LastStep, OthersStep DEF Next, Step
<1> QED
  BY <1>1, <1>3, PTL DEF Spec

-----------------------------------------------------------------------------

\* Type correctness: among others, the attempts never exceed maxAccountAttempts.
THEOREM TypeCorrect == Spec => []TypeOK
<1>1. LoopInv => TypeOK
  BY DEF LoopInv
<1> QED
  BY <1>1, LoopAlways, PTL

\* No question is put to an account twice, except once more after its tokens were recovered
\* from a 401 (refreshedAfter401 of the request loops); what the Messages loop repairs after
\* a 400 is a question of its own, put once.
THEOREM NoAccountAskedTwice == Spec => []AskedOnce
<1>1. LoopInv => AskedOnce
  <2>1. SUFFICES ASSUME LoopInv, NEW body \in Body, NEW a \in Account
                 PROVE  history.sends[body][a] <= IF a \in request.refreshedAfter401 THEN 2 ELSE 1
    BY DEF AskedOnce
  <2>2. history.sends[body][a] \in Nat /\ history.sends[body][a] <= Once(body, a) + Again(a)
    BY <2>1 DEF LoopInv, SendsCounted, TypeOK, History
  <2> QED
    BY <2>2 DEF Once, Again
<1> QED
  BY <1>1, LoopAlways, PTL

\* A failure is recorded only of an account with an attempt that failed while the client
\* waited, or whose token refresh the client cut off when it went away (the ctx.Err()
\* checks before MarkAccountFailure, and their absence after ForceOAuthRefresh and in
\* refreshStoredOAuthAccount).
THEOREM BlameHasReason == Spec => []BlameJustified
<1>1. LoopInv => BlameJustified
  BY DEF LoopInv, FailuresKnown
<1> QED
  BY <1>1, LoopAlways, PTL

\* A request is refused only when it has tried every account that could be used for as long
\* as it was looking, unless the database failed since the cache was loaded
\* (GetNextAccountContext).
THEOREM RefusedWithReason == Spec => []RefusalJustified
<1>1. LoopInv => RefusalJustified
  BY DEF LoopInv, UsableInCache
<1> QED
  BY <1>1, LoopAlways, PTL

=============================================================================

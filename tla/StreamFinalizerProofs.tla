------------------------ MODULE StreamFinalizerProofs ------------------------
(***************************************************************************)
(* Proofs about StreamFinalizer: type correctness, that a terminal event   *)
(* is never missed wherever the reads cut it, that a request is accounted  *)
(* for once and in order, and that the verdict on a stream is justified.   *)
(***************************************************************************)
EXTENDS StreamFinalizer, SequenceTheorems, TLAPS

-----------------------------------------------------------------------------
(* The tail that is kept is an end of the text, long enough for a marker.   *)

\* The data s ends with the data t.
EndsWith(s, t) ==
    /\ Len(t) <= Len(s)
    /\ \A j \in 1 .. Len(t) : t[j] = s[j + Len(s) - Len(t)]

\* The tail t is enough of the text s.
Covers(t, s) == EndsWith(s, t) /\ (Len(t) = Len(s) \/ Len(t) >= Window)

LEMMA ChunkIsSeq ==
  ASSUME text \in Seq(Byte), NEW data \in Chunk
  PROVE  data \in Seq(Byte)
BY SeqDef, StreamConstants DEF Chunk

\* bytes are where the marker has them.
LEMMA AtMeans ==
  ASSUME NEW data \in Seq(Byte), NEW marker \in Markers, NEW i \in Starts(data, marker)
  PROVE  At(data, i, marker) <=> \A j \in 1 .. Len(marker) : data[i + j - 1] = marker[j]
<1>1. marker \in Seq(Byte) /\ Len(marker) \in Nat /\ Len(marker) >= 1 /\ Len(data) \in Nat
  BY StreamConstants, LenProperties
<1>2. i \in Nat /\ i >= 1 /\ i + Len(marker) - 1 <= Len(data)
  BY <1>1 DEF Starts
<1> DEFINE part == SubSeq(data, i, i + Len(marker) - 1)
<1>3. \A j \in i .. i + Len(marker) - 1 : data[j] \in Byte
  BY <1>1, <1>2, ElementOfSeq
<1>4. part \in Seq(Byte) /\ Len(part) = Len(marker) /\ \A j \in 1 .. Len(marker) : part[j] = data[i + j - 1]
  BY <1>1, <1>2, <1>3, SubSeqProperties
<1>5. part = marker <=> \A j \in 1 .. Len(marker) : part[j] = marker[j]
  <2> HIDE DEF part
  <2> QED
    BY <1>1, <1>4, SeqEqual
<1> QED
  BY <1>4, <1>5 DEF At

LEMMA KeptIsTail ==
  ASSUME NEW combined \in Seq(Byte), NEW data
  PROVE  /\ Kept(combined, data) \in Seq(Byte) /\ Len(Kept(combined, data)) <= Window
         /\ Covers(Kept(combined, data), combined)
<1>1. Len(combined) \in Nat /\ Window \in Nat
  BY StreamConstants, LenProperties
<1>2. CASE Len(combined) > Window
  <2> DEFINE from == Len(combined) - Window + 1
             part == SubSeq(combined, from, Len(combined))
  <2>1. from \in Nat /\ from >= 1 /\ Len(combined) - from + 1 = Window
    BY <1>1, <1>2
  <2>2. \A j \in from .. Len(combined) : combined[j] \in Byte
    BY <1>1, <2>1, ElementOfSeq
  <2>3. part \in Seq(Byte) /\ Len(part) = Window
    BY <1>1, <2>1, <2>2, SubSeqProperties
  <2>4. \A j \in 1 .. Window : part[j] = combined[from + j - 1]
    BY <1>1, <2>1, <2>2, SubSeqProperties
  <2>5. Kept(combined, data) = part
    BY <1>2 DEF Kept
  <2> HIDE DEF part
  <2>6. \A j \in 1 .. Window : part[j] = combined[j + Len(combined) - Window]
    BY <1>1, <2>4
  <2> QED
    BY <1>1, <1>2, <2>3, <2>5, <2>6 DEF Covers, EndsWith
<1>3. CASE ~(Len(combined) > Window)
  BY <1>1, <1>3 DEF Kept, Covers, EndsWith
<1> QED
  BY <1>2, <1>3

LEMMA CoversConcat ==
  ASSUME NEW t \in Seq(Byte), NEW s \in Seq(Byte), NEW data \in Seq(Byte), Covers(t, s)
  PROVE  Covers(t \o data, s \o data)
<1>1. /\ Len(t) \in Nat /\ Len(s) \in Nat /\ Len(data) \in Nat /\ Len(t) <= Len(s)
      /\ Len(t \o data) = Len(t) + Len(data) /\ Len(s \o data) = Len(s) + Len(data) /\ Window \in Nat
  BY LenProperties, ConcatProperties, StreamConstants DEF Covers, EndsWith
<1>2. ASSUME NEW j \in 1 .. Len(t) + Len(data)
      PROVE  (t \o data)[j] = (s \o data)[j + Len(s) - Len(t)]
  <2>1. j + Len(s) - Len(t) \in 1 .. Len(s) + Len(data)
    BY <1>1
  <2>2. (t \o data)[j] = (IF j <= Len(t) THEN t[j] ELSE data[j - Len(t)])
    BY <1>1, ConcatProperties
  <2>3. (s \o data)[j + Len(s) - Len(t)]
          = (IF j + Len(s) - Len(t) <= Len(s) THEN s[j + Len(s) - Len(t)] ELSE data[j + Len(s) - Len(t) - Len(s)])
    BY <2>1, ConcatProperties
  <2>4. j + Len(s) - Len(t) <= Len(s) <=> j <= Len(t)
    BY <1>1
  <2>5. j + Len(s) - Len(t) - Len(s) = j - Len(t)
    BY <1>1
  <2>6. j <= Len(t) => t[j] = s[j + Len(s) - Len(t)]
    BY <1>1 DEF Covers, EndsWith
  <2> QED
    BY <2>2, <2>3, <2>4, <2>5, <2>6
<1>3. Len(s) + Len(data) - (Len(t) + Len(data)) = Len(s) - Len(t)
  BY <1>1
<1>4. EndsWith(s \o data, t \o data)
  <2>1. SUFFICES ASSUME NEW j \in 1 .. Len(t) + Len(data)
                 PROVE  (t \o data)[j] = (s \o data)[j + (Len(s) + Len(data)) - (Len(t) + Len(data))]
    BY <1>1 DEF EndsWith
  <2>2. j + (Len(s) + Len(data)) - (Len(t) + Len(data)) = j + Len(s) - Len(t)
    BY <1>1
  <2> QED
    BY <1>2, <2>2
<1> QED
  BY <1>1, <1>4 DEF Covers

LEMMA CoversTrans ==
  ASSUME NEW t \in Seq(Byte), NEW s \in Seq(Byte), NEW r \in Seq(Byte), Covers(t, s), Covers(s, r)
  PROVE  Covers(t, r)
<1>1. Len(t) \in Nat /\ Len(s) \in Nat /\ Len(r) \in Nat /\ Len(t) <= Len(s) /\ Len(s) <= Len(r) /\ Window \in Nat
  BY LenProperties, StreamConstants DEF Covers, EndsWith
<1>2. ASSUME NEW j \in 1 .. Len(t) PROVE t[j] = r[j + Len(r) - Len(t)]
  <2> DEFINE k == j + Len(s) - Len(t)
  <2>1. k \in 1 .. Len(s) /\ k + Len(r) - Len(s) = j + Len(r) - Len(t)
    BY <1>1
  <2>2. t[j] = s[k]
    BY DEF Covers, EndsWith
  <2>3. s[k] = r[k + Len(r) - Len(s)]
    BY <2>1 DEF Covers, EndsWith
  <2> QED
    BY <2>1, <2>2, <2>3
<1> QED
  BY <1>1, <1>2 DEF Covers, EndsWith

-----------------------------------------------------------------------------
(* The search over the tail and the new read finds what the whole text has. *)

\* A position at which an event of the kind may begin.
MayBegin(kind, data, i) == kind = "anywhere" \/ i = 1 \/ data[i - 1] = Newline

LEMMA SeenMeans ==
  ASSUME NEW kind \in Kind, NEW data
  PROVE  TerminalSeen(kind, data) <=>
           /\ kind # "plain"
           /\ \E marker \in Markers : \E i \in Starts(data, marker) : At(data, i, marker) /\ MayBegin(kind, data, i)
<1>1. CASE kind = "lines"
  BY <1>1 DEF TerminalSeen, BeginsLine, MayBegin
<1>2. CASE kind = "anywhere"
  BY <1>2 DEF TerminalSeen, Contains, MayBegin
<1>3. CASE kind = "plain"
  BY <1>3 DEF TerminalSeen
<1> QED
  BY <1>1, <1>2, <1>3 DEF Kind

\* What is at a place of the tail is in the text as far from its end.
LEMMA SameFromTheEnd ==
  ASSUME NEW s \in Seq(Byte), NEW t \in Seq(Byte), EndsWith(s, t), NEW marker \in Markers,
         NEW i \in Starts(t, marker)
  PROVE  /\ i + (Len(s) - Len(t)) \in Starts(s, marker)
         /\ At(t, i, marker) <=> At(s, i + (Len(s) - Len(t)), marker)
<1> DEFINE k == i + (Len(s) - Len(t))
<1>1. /\ Len(marker) \in Nat /\ Len(marker) >= 1 /\ Len(s) \in Nat /\ Len(t) \in Nat /\ Len(t) <= Len(s)
      /\ i \in Nat /\ i >= 1 /\ i + Len(marker) - 1 <= Len(t)
  BY StreamConstants, LenProperties DEF EndsWith, Starts
<1>2. k \in Starts(s, marker)
  BY <1>1 DEF Starts
<1>3. \A j \in 1 .. Len(marker) : t[i + j - 1] = s[k + j - 1]
  <2>1. SUFFICES ASSUME NEW j \in 1 .. Len(marker) PROVE t[i + j - 1] = s[k + j - 1]
    OBVIOUS
  <2>2. i + j - 1 \in 1 .. Len(t) /\ (i + j - 1) + Len(s) - Len(t) = k + j - 1
    BY <1>1
  <2> QED
    BY <2>2 DEF EndsWith
<1>4. At(t, i, marker) <=> \A j \in 1 .. Len(marker) : t[i + j - 1] = marker[j]
  BY AtMeans
<1>5. At(s, k, marker) <=> \A j \in 1 .. Len(marker) : s[k + j - 1] = marker[j]
  BY <1>2, AtMeans
<1> QED
  BY <1>2, <1>3, <1>4, <1>5

\* An event in the tail is an event in the text.
LEMMA TailIsText ==
  ASSUME NEW s \in Seq(Byte), NEW t \in Seq(Byte), EndsWith(s, t), NEW kind \in Kind, TerminalSeen(kind, t)
  PROVE  \E marker \in Markers : Contains(s, marker)
<1>1. PICK marker \in Markers : \E i \in Starts(t, marker) : At(t, i, marker)
  BY SeenMeans
<1>2. PICK i \in Starts(t, marker) : At(t, i, marker)
  BY <1>1
<1> QED
  BY <1>2, SameFromTheEnd DEF Contains

\* An event that lies within the old text has been in it before.
LEMMA OldEvent ==
  ASSUME NEW old \in Seq(Byte), NEW data \in Seq(Byte), NEW kind \in Kind, NEW marker \in Markers,
         NEW i \in Starts(old \o data, marker), i + Len(marker) - 1 <= Len(old),
         At(old \o data, i, marker), MayBegin(kind, old \o data, i), kind # "plain"
  PROVE  TerminalSeen(kind, old)
<1>1. /\ Len(marker) \in Nat /\ Len(marker) >= 1 /\ Len(old) \in Nat /\ Len(data) \in Nat
      /\ old \o data \in Seq(Byte) /\ Len(old \o data) = Len(old) + Len(data)
  BY StreamConstants, LenProperties, ConcatProperties
<1>2. i \in Nat /\ i >= 1 /\ i \in Starts(old, marker)
  BY <1>1 DEF Starts
<1>3. \A j \in 1 .. Len(old) : (old \o data)[j] = old[j]
  BY <1>1, ConcatProperties
<1>4. \A j \in 1 .. Len(marker) : (old \o data)[i + j - 1] = old[i + j - 1]
  BY <1>1, <1>2, <1>3
<1>5. At(old, i, marker)
  BY <1>1, <1>2, <1>4, AtMeans
<1>6. MayBegin(kind, old, i)
  <2>1. i = 1 \/ i - 1 \in 1 .. Len(old)
    BY <1>1, <1>2
  <2> QED
    BY <1>3, <2>1 DEF MayBegin
<1> QED
  BY <1>2, <1>5, <1>6, SeenMeans

\* The event that a read completes is found in the tail and the read.
LEMMA NewEventIsSeen ==
  ASSUME NEW old \in Seq(Byte), NEW data \in Seq(Byte), NEW tail \in Seq(Byte), NEW kind \in Kind,
         Covers(tail, old), ~TerminalSeen(kind, old), TerminalSeen(kind, old \o data)
  PROVE  TerminalSeen(kind, tail \o data)
<1> DEFINE full == old \o data
           combined == tail \o data
           cut == Len(full) - Len(combined)
<1>1. full \in Seq(Byte) /\ combined \in Seq(Byte) /\ Covers(combined, full)
  BY ConcatProperties, CoversConcat
<1>2. PICK marker \in Markers : \E i \in Starts(full, marker) : At(full, i, marker) /\ MayBegin(kind, full, i)
  BY SeenMeans
<1>3. kind # "plain"
  BY SeenMeans
<1>0. PICK i \in Starts(full, marker) : At(full, i, marker) /\ MayBegin(kind, full, i)
  BY <1>2
<1>4. i + Len(marker) - 1 > Len(old)
  <2>1. ~(i + Len(marker) - 1 <= Len(old))
    BY <1>0, <1>3, OldEvent
  <2>2. Len(marker) \in Nat /\ Len(old) \in Nat /\ i \in Int
    BY StreamConstants, LenProperties DEF Starts
  <2> QED
    BY <2>1, <2>2
<1>5. /\ Len(marker) \in Nat /\ 1 <= Len(marker) /\ Len(marker) <= Window /\ Window \in Nat
      /\ Len(old) \in Nat /\ Len(tail) \in Nat /\ Len(data) \in Nat
      /\ Len(full) = Len(old) + Len(data) /\ Len(combined) = Len(tail) + Len(data) /\ Len(tail) <= Len(old)
      /\ Len(tail) = Len(old) \/ Len(tail) >= Window
      /\ i \in Nat /\ i >= 1 /\ i + Len(marker) - 1 <= Len(full)
  <2>1. Len(full) = Len(old) + Len(data) /\ Len(combined) = Len(tail) + Len(data)
    BY ConcatProperties
  <2>2. Len(full) \in Nat
    BY <1>1, LenProperties
  <2> HIDE DEF full, combined
  <2> QED
    BY <2>1, <2>2, StreamConstants, LenProperties DEF Covers, EndsWith, Starts
<1> HIDE DEF full, combined
<1>6. i - cut \in Starts(combined, marker) /\ (i - cut) + cut = i /\ (i - cut = 1 => i = 1)
        /\ (i # 1 => i - cut - 1 \in 1 .. Len(combined) /\ (i - cut - 1) + Len(full) - Len(combined) = i - 1)
  BY <1>4, <1>5 DEF Starts
<1>7. At(combined, i - cut, marker)
  <2>1. At(combined, i - cut, marker) <=> At(full, (i - cut) + (Len(full) - Len(combined)), marker)
    BY <1>1, <1>6, SameFromTheEnd DEF Covers
  <2> QED
    BY <1>0, <1>6, <2>1
<1>8. MayBegin(kind, combined, i - cut)
  <2>1. CASE i # 1 /\ kind # "anywhere"
    <3>1. full[i - 1] = Newline
      BY <1>0, <2>1 DEF MayBegin
    <3>2. combined[i - cut - 1] = full[i - 1]
      BY <1>1, <1>6, <2>1 DEF Covers, EndsWith
    <3> QED
      BY <3>1, <3>2 DEF MayBegin
  <2>2. CASE i = 1
    <3>1. i - cut = 1
      BY <1>4, <1>5, <2>2
    <3> QED
      BY <3>1 DEF MayBegin
  <2> QED
    BY <2>1, <2>2 DEF MayBegin
<1> QED
  BY <1>3, <1>6, <1>7, <1>8, SeenMeans DEF combined

\* What has been read stays read.
LEMMA ContainsGrows ==
  ASSUME NEW old \in Seq(Byte), NEW data \in Seq(Byte), NEW marker \in Markers, Contains(old, marker)
  PROVE  Contains(old \o data, marker)
<1>1. PICK i \in Starts(old, marker) : At(old, i, marker)
  BY DEF Contains
<1>2. /\ Len(marker) \in Nat /\ Len(marker) >= 1 /\ Len(old) \in Nat /\ Len(data) \in Nat
      /\ old \o data \in Seq(Byte) /\ Len(old \o data) = Len(old) + Len(data)
  BY StreamConstants, LenProperties, ConcatProperties
<1>3. i \in Nat /\ i >= 1 /\ i + Len(marker) - 1 <= Len(old) /\ i \in Starts(old \o data, marker)
  BY <1>2 DEF Starts
<1>4. \A j \in 1 .. Len(old) : (old \o data)[j] = old[j]
  BY <1>2, ConcatProperties
<1>5. \A j \in 1 .. Len(marker) : (old \o data)[i + j - 1] = old[i + j - 1]
  BY <1>2, <1>3, <1>4
<1>6. At(old \o data, i, marker)
  BY <1>1, <1>2, <1>3, <1>5, AtMeans
<1> QED
  BY <1>3, <1>6 DEF Contains

-----------------------------------------------------------------------------
(* What is recorded, from the headers to the end.                          *)

Opening(b) ==
    LET remember == IF b.operation THEN <<"remember">> ELSE <<>>
    IN  IF b.kind = "plain" THEN <<"usage">> \o remember \o <<"healthy">> ELSE remember
Ending(b) == (IF b.operation THEN <<"complete">> ELSE <<>>) \o <<"enqueue">>
Success(b) == Opening(b) \o <<"usage">> \o Ending(b) \o <<"healthy">>
Failure(b) == Opening(b) \o Ending(b) \o <<"failure">>

Has(s, effect) == \E i \in DOMAIN s : s[i] = effect

LEMMA HasConcat ==
  ASSUME NEW s \in Seq(Effect), NEW t \in Seq(Effect), NEW effect
  PROVE  /\ s \o t \in Seq(Effect)
         /\ Has(s \o t, effect) <=> Has(s, effect) \/ Has(t, effect)
<1>1. /\ Len(s) \in Nat /\ Len(t) \in Nat /\ s \o t \in Seq(Effect) /\ Len(s \o t) = Len(s) + Len(t)
      /\ DOMAIN s = 1 .. Len(s) /\ DOMAIN t = 1 .. Len(t) /\ DOMAIN (s \o t) = 1 .. Len(s) + Len(t)
  BY LenProperties, ConcatProperties
<1>2. \A i \in 1 .. Len(s) + Len(t) : (s \o t)[i] = (IF i <= Len(s) THEN s[i] ELSE t[i - Len(s)])
  BY ConcatProperties
<1>3. Has(s \o t, effect) => Has(s, effect) \/ Has(t, effect)
  <2>1. SUFFICES ASSUME NEW i \in 1 .. Len(s) + Len(t), (s \o t)[i] = effect
                 PROVE  Has(s, effect) \/ Has(t, effect)
    BY <1>1 DEF Has
  <2>2. i \in 1 .. Len(s) \/ i - Len(s) \in 1 .. Len(t)
    BY <1>1
  <2>3. i <= Len(s) => i \in 1 .. Len(s) /\ s[i] = effect
    BY <1>1, <1>2, <2>1
  <2>4. ~(i <= Len(s)) => i - Len(s) \in 1 .. Len(t) /\ t[i - Len(s)] = effect
    BY <1>1, <1>2, <2>1
  <2> QED
    BY <1>1, <2>3, <2>4 DEF Has
<1>4. Has(s, effect) => Has(s \o t, effect)
  <2>1. SUFFICES ASSUME NEW i \in 1 .. Len(s), s[i] = effect PROVE Has(s \o t, effect)
    BY <1>1 DEF Has
  <2>2. i \in 1 .. Len(s) + Len(t) /\ (s \o t)[i] = effect
    BY <1>1, <1>2, <2>1
  <2> QED
    BY <1>1, <2>2 DEF Has
<1>5. Has(t, effect) => Has(s \o t, effect)
  <2>1. SUFFICES ASSUME NEW i \in 1 .. Len(t), t[i] = effect PROVE Has(s \o t, effect)
    BY <1>1 DEF Has
  <2>2. Len(s) + i \in 1 .. Len(s) + Len(t) /\ ~(Len(s) + i <= Len(s)) /\ Len(s) + i - Len(s) = i
    BY <1>1
  <2>3. (s \o t)[Len(s) + i] = effect
    BY <1>2, <2>1, <2>2
  <2> QED
    BY <1>1, <2>2, <2>3 DEF Has
<1> QED
  BY <1>1, <1>3, <1>4, <1>5

LEMMA HasOne ==
  ASSUME NEW x \in Effect, NEW effect
  PROVE  <<x>> \in Seq(Effect) /\ (Has(<<x>>, effect) <=> x = effect)
<1>1. <<x>> \in Seq(Effect) /\ DOMAIN <<x>> = {1} /\ <<x>>[1] = x
  OBVIOUS
<1> QED
  BY <1>1 DEF Has

LEMMA HasNone ==
  ASSUME NEW effect
  PROVE  <<>> \in Seq(Effect) /\ ~Has(<<>>, effect)
<1>1. <<>> \in Seq(Effect) /\ DOMAIN <<>> = {}
  OBVIOUS
<1> QED
  BY <1>1 DEF Has

\* The parts: which effects they hold.
LEMMA PartsOfAll ==
  ASSUME NEW b \in Body, NEW effect
  PROVE  /\ Opening(b) \in Seq(Effect) /\ Ending(b) \in Seq(Effect)
         /\ Has(Opening(b), effect) => effect \in {"remember", "usage", "healthy"}
         /\ b.kind # "plain" /\ Has(Opening(b), effect) => effect = "remember"
         /\ Has(Ending(b), effect) => effect \in {"complete", "enqueue"}
<1> DEFINE remember == IF b.operation THEN <<"remember">> ELSE <<>>
           complete == IF b.operation THEN <<"complete">> ELSE <<>>
<1>1. remember \in Seq(Effect) /\ (Has(remember, effect) => effect = "remember")
  BY HasOne, HasNone DEF Effect
<1>2. complete \in Seq(Effect) /\ (Has(complete, effect) => effect = "complete")
  BY HasOne, HasNone DEF Effect
<1>3. \A x \in Effect : <<x>> \in Seq(Effect) /\ (Has(<<x>>, effect) <=> x = effect)
  BY HasOne
<1>4. {"usage", "remember", "complete", "enqueue", "healthy", "failure"} = Effect
  BY DEF Effect
<1>5. Opening(b) = IF b.kind = "plain" THEN (<<"usage">> \o remember) \o <<"healthy">> ELSE remember
  BY DEF Opening
<1>6. Ending(b) = complete \o <<"enqueue">>
  BY DEF Ending
<1> HIDE DEF remember, complete
<1>7. /\ <<"usage">> \o remember \in Seq(Effect)
      /\ Has(<<"usage">> \o remember, effect) <=> Has(<<"usage">>, effect) \/ Has(remember, effect)
  BY <1>1, <1>3, <1>4, HasConcat
<1>8. /\ (<<"usage">> \o remember) \o <<"healthy">> \in Seq(Effect)
      /\ Has((<<"usage">> \o remember) \o <<"healthy">>, effect)
           <=> Has(<<"usage">> \o remember, effect) \/ Has(<<"healthy">>, effect)
  BY <1>3, <1>4, <1>7, HasConcat
<1>9. /\ complete \o <<"enqueue">> \in Seq(Effect)
      /\ Has(complete \o <<"enqueue">>, effect) <=> Has(complete, effect) \/ Has(<<"enqueue">>, effect)
  BY <1>2, <1>3, <1>4, HasConcat
<1> QED
  BY <1>1, <1>2, <1>3, <1>4, <1>5, <1>6, <1>7, <1>8, <1>9

LEMMA Outcomes ==
  ASSUME NEW b \in Body, NEW effect
  PROVE  /\ Opening(b) \in Seq(Effect) /\ Ending(b) \in Seq(Effect)
         /\ Opening(b) \o Ending(b) \in Seq(Effect)
         /\ Success(b) \in Seq(Effect) /\ Failure(b) \in Seq(Effect)
         /\ Success(b) = Opening(b) \o (<<"usage">> \o Ending(b) \o <<"healthy">>)
         /\ Failure(b) = Opening(b) \o (Ending(b) \o <<"failure">>)
         /\ Has(Opening(b) \o Ending(b), effect) <=> Has(Opening(b), effect) \/ Has(Ending(b), effect)
         /\ Has(Success(b), effect)
              <=> Has(Opening(b), effect) \/ effect = "usage" \/ Has(Ending(b), effect) \/ effect = "healthy"
         /\ Has(Failure(b), effect)
              <=> Has(Opening(b), effect) \/ Has(Ending(b), effect) \/ effect = "failure"
<1>1. Opening(b) \in Seq(Effect) /\ Ending(b) \in Seq(Effect)
  BY PartsOfAll
<1>2. \A x \in Effect : <<x>> \in Seq(Effect) /\ (Has(<<x>>, effect) <=> x = effect)
  BY HasOne
<1>3. {"usage", "remember", "complete", "enqueue", "healthy", "failure"} = Effect
  BY DEF Effect
<1> DEFINE o == Opening(b)
           n == Ending(b)
           u == <<"usage">>
           h == <<"healthy">>
           f == <<"failure">>
<1>4. u \in Seq(Effect) /\ h \in Seq(Effect) /\ f \in Seq(Effect) /\ o \in Seq(Effect) /\ n \in Seq(Effect)
  BY <1>1, <1>2, <1>3
<1>5. /\ Has(u, effect) <=> effect = "usage"
      /\ Has(h, effect) <=> effect = "healthy"
      /\ Has(f, effect) <=> effect = "failure"
  BY <1>2, <1>3
<1>6. Success(b) = ((o \o u) \o n) \o h /\ Failure(b) = (o \o n) \o f
  BY DEF Success, Failure
<1> HIDE DEF o, n, u, h, f
<1>7. o \o u \in Seq(Effect) /\ (o \o u) \o n \in Seq(Effect) /\ o \o n \in Seq(Effect) /\ u \o n \in Seq(Effect)
  BY <1>4, HasConcat
<1>8. ((o \o u) \o n) \o h \in Seq(Effect) /\ (o \o n) \o f \in Seq(Effect) /\ n \o f \in Seq(Effect)
  BY <1>4, <1>7, HasConcat
<1>a. \A r, s, t \in Seq(Effect) : (r \o s) \o t = r \o (s \o t)
  BY ConcatAssociative
<1>9. ((o \o u) \o n) \o h = o \o ((u \o n) \o h)
  <2>1. (o \o u) \o n = o \o (u \o n)
    BY <1>4, <1>a
  <2>3. \A s \in Seq(Effect) : (o \o s) \o h = o \o (s \o h)
    BY <1>4, <1>a
  <2>2. (o \o (u \o n)) \o h = o \o ((u \o n) \o h)
    BY <1>7, <2>3
  <2> QED
    BY <2>1, <2>2
<1>10. (o \o n) \o f = o \o (n \o f)
  BY <1>4, <1>a
<1>11. Has(o \o n, effect) <=> Has(o, effect) \/ Has(n, effect)
  BY <1>4, HasConcat
<1>12. Has(((o \o u) \o n) \o h, effect)
         <=> Has(o, effect) \/ Has(u, effect) \/ Has(n, effect) \/ Has(h, effect)
  <2>1. Has(o \o u, effect) <=> Has(o, effect) \/ Has(u, effect)
    BY <1>4, HasConcat
  <2>2. Has((o \o u) \o n, effect) <=> Has(o \o u, effect) \/ Has(n, effect)
    BY <1>4, <1>7, HasConcat
  <2>3. Has(((o \o u) \o n) \o h, effect) <=> Has((o \o u) \o n, effect) \/ Has(h, effect)
    BY <1>4, <1>7, HasConcat
  <2> QED
    BY <2>1, <2>2, <2>3
<1>13. Has((o \o n) \o f, effect) <=> Has(o, effect) \/ Has(n, effect) \/ Has(f, effect)
  BY <1>4, <1>7, <1>11, HasConcat
<1> QED
  BY <1>4, <1>5, <1>6, <1>7, <1>8, <1>9, <1>10, <1>11, <1>12, <1>13 DEF o, n, u, h, f

-----------------------------------------------------------------------------
(* The inductive invariant: as long as there is no verdict the tail covers  *)
(* the text, which has no terminal event; a verdict fits the text.          *)

BodyState ==
    /\ body.kind = "plain" => ~body.finalized
    /\ body.closed \/ body.finalized => body.refreshed
    /\ body.kind # "plain" /\ body.refreshed => body.closed \/ body.finalized

TailSearched ==
    body.kind # "plain" /\ ~body.finalized
        => Covers(body.tail, text) /\ ~TerminalSeen(body.kind, text)

Succeeded == effects = Success(body) /\ \E marker \in Markers : Contains(text, marker)
Failed == effects = Failure(body) /\ ended /\ ~TerminalSeen(body.kind, text)

EffectsMatch ==
    /\ ~body.refreshed => effects = Opening(body)
    /\ body.refreshed /\ ~body.finalized => effects = Opening(body) \o Ending(body)
    /\ body.finalized => Succeeded \/ Failed

StreamInv == TypeOK /\ BodyState /\ TailSearched /\ EffectsMatch

\* What an open, undecided body records at its end.
LEMMA RefreshIsEnding ==
  ASSUME TypeOK
  PROVE  Refresh = IF body.refreshed THEN <<>> ELSE Ending(body)
BY DEF Refresh, IfOperation, Ending

LEMMA NothingAppended ==
  ASSUME NEW s \in Seq(Effect)
  PROVE  s \o <<>> = s
BY ConcatEmptySeq

LEMMA SameParts ==
  ASSUME NEW b, NEW c, b.kind = c.kind, b.operation = c.operation
  PROVE  /\ Opening(b) = Opening(c) /\ Ending(b) = Ending(c)
         /\ Success(b) = Success(c) /\ Failure(b) = Failure(c)
BY DEF Opening, Ending, Success, Failure

LEMMA InitStep == Init => StreamInv
<1>1. SUFFICES ASSUME Init PROVE StreamInv
  OBVIOUS
<1>2. PICK kind \in Kind, operation \in BOOLEAN :
        /\ body = [kind |-> kind, operation |-> operation, tail |-> <<>>,
                   finalized |-> FALSE, closed |-> FALSE, refreshed |-> FALSE]
        /\ effects = LET remember == IF operation THEN <<"remember">> ELSE <<>> IN
                       IF kind = "plain" THEN <<"usage">> \o remember \o <<"healthy">> ELSE remember
  BY <1>1 DEF Init
<1>3. body \in Body /\ body.tail = <<>> /\ ~body.finalized /\ ~body.closed /\ ~body.refreshed
        /\ body.kind = kind /\ body.operation = operation
  BY <1>2 DEF Body
<1>4. effects = Opening(body)
  BY <1>2, <1>3 DEF Opening
<1>5. text = <<>> /\ text \in Seq(Byte) /\ Len(text) = 0
  BY <1>1 DEF Init
<1>6. Window \in Nat
  BY StreamConstants
<1>7. TypeOK
  <2>1. effects \in Seq(Effect)
    BY <1>3, <1>4, PartsOfAll
  <2>2. Len(body.tail) <= Window
    BY <1>3, <1>6
  <2>3. ended \in BOOLEAN /\ cancelled \in BOOLEAN
    BY <1>1 DEF Init
  <2> QED
    BY <1>3, <1>5, <2>1, <2>2, <2>3 DEF TypeOK
<1>8. Covers(body.tail, text)
  BY <1>3, <1>5 DEF Covers, EndsWith
<1>9. ~TerminalSeen(kind, text)
  <2>1. \A marker \in Markers : Starts(text, marker) = {}
    <3>1. SUFFICES ASSUME NEW marker \in Markers PROVE Starts(text, marker) = {}
      OBVIOUS
    <3>2. Len(marker) \in Nat /\ Len(marker) >= 1
      BY StreamConstants
    <3> QED
      BY <1>5, <3>2 DEF Starts
  <2> QED
    BY <2>1, SeenMeans
<1> QED
  BY <1>3, <1>4, <1>7, <1>8, <1>9 DEF StreamInv, BodyState, TailSearched, EffectsMatch

LEMMA CloseStep == StreamInv /\ Close => StreamInv'
<1>1. SUFFICES ASSUME StreamInv, Close PROVE StreamInv'
  OBVIOUS
<1>2. /\ body \in Body /\ body' = [body EXCEPT !.closed = TRUE, !.refreshed = TRUE]
      /\ effects' = effects \o Refresh /\ UNCHANGED <<text, ended, cancelled>>
  BY <1>1 DEF StreamInv, TypeOK, Close
<1>3. /\ body' \in Body /\ body'.kind = body.kind /\ body'.operation = body.operation /\ body'.tail = body.tail
      /\ body'.finalized = body.finalized /\ body'.closed /\ body'.refreshed
  BY <1>2 DEF Body
<1>4. Opening(body') = Opening(body) /\ Ending(body') = Ending(body)
        /\ Success(body') = Success(body) /\ Failure(body') = Failure(body)
  BY <1>3, SameParts
<1>5. effects' = IF body.refreshed THEN effects ELSE Opening(body) \o Ending(body)
  BY <1>1, <1>2, RefreshIsEnding, NothingAppended DEF StreamInv, TypeOK, EffectsMatch
<1>6. effects' \in Seq(Effect)
  BY <1>1, <1>2, <1>5, Outcomes DEF StreamInv, TypeOK
<1>7. TypeOK'
  BY <1>1, <1>2, <1>3, <1>6 DEF StreamInv, TypeOK
<1>8. EffectsMatch'
  <2>1. body.finalized => Succeeded \/ Failed
    BY <1>1 DEF StreamInv, EffectsMatch
  <2>2. body.finalized => body.refreshed
    BY <1>1 DEF StreamInv, BodyState
  <2> QED
    BY <1>1, <1>2, <1>3, <1>4, <1>5, <2>1, <2>2 DEF StreamInv, EffectsMatch, Succeeded, Failed
<1> QED
  BY <1>1, <1>2, <1>3, <1>7, <1>8 DEF StreamInv, BodyState, TailSearched

\* What a read does, whatever it records.
LEMMA ReadMeans ==
  ASSUME StreamInv, Read
  PROVE  \E data \in Seq(Byte), error \in {"none", "eof", "broken"} :
           /\ ~ended /\ ~body.closed /\ UNCHANGED cancelled
           /\ text' = text \o data /\ ended' = (error # "none")
           /\ ReadStream(data, error) \/ ReadPlain(error)
BY ChunkIsSeq DEF StreamInv, TypeOK, Read

LEMMA PlainStep ==
  ASSUME StreamInv, NEW data \in Seq(Byte), NEW error \in {"none", "eof", "broken"},
         ~ended, ~body.closed, UNCHANGED cancelled, text' = text \o data, ended' = (error # "none"),
         ReadPlain(error)
  PROVE  StreamInv'
<1>1. body \in Body /\ body.kind = "plain" /\ ~body.finalized
  BY DEF StreamInv, TypeOK, BodyState, ReadPlain
<1>2. text' \in Seq(Byte) /\ ended' \in BOOLEAN
  BY ConcatProperties DEF StreamInv, TypeOK
<1>3. CASE error = "eof"
  <2>1. body' = [body EXCEPT !.refreshed = TRUE] /\ effects' = effects \o Refresh
    BY <1>3 DEF ReadPlain
  <2>2. /\ body' \in Body /\ body'.kind = body.kind /\ body'.operation = body.operation /\ body'.tail = body.tail
        /\ body'.finalized = body.finalized /\ body'.closed = body.closed /\ body'.refreshed
    BY <1>1, <2>1 DEF Body
  <2>3. Opening(body') = Opening(body) /\ Ending(body') = Ending(body)
    BY <2>2, SameParts
  <2>4. effects' = Opening(body) \o Ending(body)
    BY <1>1, <2>1, RefreshIsEnding, NothingAppended DEF StreamInv, TypeOK, EffectsMatch
  <2>5. effects' \in Seq(Effect)
    BY <1>1, <2>4, Outcomes
  <2>6. TypeOK'
    BY <1>2, <2>2, <2>5 DEF StreamInv, TypeOK
  <2> QED
    BY <1>1, <2>2, <2>3, <2>4, <2>6 DEF StreamInv, BodyState, TailSearched, EffectsMatch
<1>4. CASE error # "eof"
  <2>1. UNCHANGED <<body, effects>>
    BY <1>4 DEF ReadPlain
  <2> QED
    BY <1>1, <1>2, <2>1 DEF StreamInv, TypeOK, BodyState, TailSearched, EffectsMatch
<1> QED
  BY <1>3, <1>4

LEMMA StreamStep ==
  ASSUME StreamInv, NEW data \in Seq(Byte), NEW error \in {"none", "eof", "broken"},
         ~ended, ~body.closed, UNCHANGED cancelled, text' = text \o data, ended' = (error # "none"),
         ReadStream(data, error)
  PROVE  StreamInv'
<1> DEFINE searched == data # <<>> /\ ~body.finalized
           combined == body.tail \o data
           seen == searched /\ TerminalSeen(body.kind, combined)
           failed == Blames(error) /\ ~body.finalized /\ ~seen
           tail == IF searched THEN Kept(combined, data) ELSE body.tail
           decided == body.finalized \/ seen \/ failed
           refreshed == body.refreshed \/ seen \/ failed
<1>1. /\ body \in Body /\ body.kind \in Kind /\ body.kind # "plain" /\ text \in Seq(Byte) /\ body.tail \in Seq(Byte)
      /\ Len(body.tail) <= Window /\ effects \in Seq(Effect)
  BY DEF StreamInv, TypeOK, Body, ReadStream
<1>2. /\ combined \in Seq(Byte) /\ text' \in Seq(Byte) /\ ended' \in BOOLEAN
      /\ tail \in Seq(Byte) /\ Len(tail) <= Window
  <2>1. combined \in Seq(Byte) /\ text' \in Seq(Byte)
    BY <1>1, ConcatProperties
  <2> HIDE DEF combined
  <2> QED
    BY <1>1, <2>1, KeptIsTail
<1>3. decided \in BOOLEAN /\ refreshed \in BOOLEAN
  BY <1>1 DEF Body
<1>4. /\ body' = [body EXCEPT !.tail = tail, !.finalized = decided, !.refreshed = refreshed]
      /\ effects' = effects \o (IF seen THEN <<"usage">> \o Refresh \o <<"healthy">>
                                ELSE IF failed THEN Refresh \o <<"failure">> ELSE <<>>)
  BY DEF ReadStream
<1>5. failed => error # "none"
  BY DEF Blames
<1>6. ~body.finalized => ~body.refreshed /\ effects = Opening(body) /\ Covers(body.tail, text)
                          /\ ~TerminalSeen(body.kind, text)
  BY <1>1 DEF StreamInv, BodyState, TailSearched, EffectsMatch
\* With data, the tail and the read are an end of the text; without, nothing changes.
<1>7. ~body.finalized /\ data # <<>> => Covers(combined, text')
  BY <1>1, <1>6, CoversConcat
<1>8. ~body.finalized /\ ~seen => ~TerminalSeen(body.kind, text')
  <2>1. CASE data = <<>>
    BY <1>1, <1>6, <2>1, ConcatEmptySeq
  <2>2. CASE data # <<>>
    BY <1>1, <1>6, <2>2, NewEventIsSeen
  <2> QED
    BY <2>1, <2>2
<1>9. ~body.finalized => Covers(tail, text')
  <2>1. CASE data = <<>>
    BY <1>1, <1>6, <2>1, ConcatEmptySeq
  <2>2. CASE data # <<>>
    <3> HIDE DEF combined
    <3>1. SUFFICES ASSUME ~body.finalized PROVE Covers(Kept(combined, data), text')
      BY <2>2
    <3>2. Kept(combined, data) \in Seq(Byte) /\ Covers(Kept(combined, data), combined)
      BY <1>2, KeptIsTail
    <3> QED
      BY <1>2, <1>7, <2>2, <3>1, <3>2, CoversTrans
  <2> QED
    BY <2>1, <2>2
<1>10. seen => \E marker \in Markers : Contains(text', marker)
  BY <1>1, <1>2, <1>7, TailIsText DEF Covers
<1>11. \A marker \in Markers : Contains(text, marker) => Contains(text', marker)
  BY <1>1, ContainsGrows
<1>12. Refresh = IF body.refreshed THEN <<>> ELSE Ending(body)
  BY RefreshIsEnding DEF StreamInv
<1> HIDE DEF combined, searched, tail, seen, failed
<1>13. body.finalized => ~seen /\ ~failed
  BY DEF seen, failed, searched
<1>14. ~(seen /\ failed)
  BY DEF failed
<1> HIDE DEF decided, refreshed
<1>15. /\ body' \in Body /\ body'.kind = body.kind /\ body'.operation = body.operation /\ body'.tail = tail
       /\ body'.finalized = decided /\ body'.closed = body.closed /\ body'.refreshed = refreshed
  BY <1>1, <1>2, <1>3, <1>4 DEF Body
<1> USE DEF decided, refreshed
<1>16. Opening(body') = Opening(body) /\ Ending(body') = Ending(body)
         /\ Success(body') = Success(body) /\ Failure(body') = Failure(body)
  BY <1>15, SameParts
<1>17. /\ seen => effects' = Success(body)
       /\ failed => effects' = Failure(body)
       /\ ~seen /\ ~failed => effects' = effects
  <2>1. seen => effects' = Opening(body) \o (<<"usage">> \o Ending(body) \o <<"healthy">>)
    BY <1>4, <1>6, <1>12, <1>13
  <2>2. failed => effects' = Opening(body) \o (Ending(body) \o <<"failure">>)
    BY <1>4, <1>6, <1>12, <1>13, <1>14
  <2>3. ~seen /\ ~failed => effects' = effects
    BY <1>1, <1>4, NothingAppended
  <2> QED
    BY <1>1, <2>1, <2>2, <2>3, Outcomes
<1>18. effects' \in Seq(Effect)
  BY <1>1, <1>17, Outcomes
<1>19. TypeOK'
  BY <1>2, <1>15, <1>18 DEF StreamInv, TypeOK
<1>20. BodyState'
  BY <1>1, <1>15 DEF StreamInv, BodyState
<1>21. TailSearched'
  BY <1>8, <1>9, <1>15 DEF TailSearched
<1>22. EffectsMatch'
  <2>1. CASE seen
    BY <1>10, <1>15, <1>16, <1>17, <2>1 DEF EffectsMatch, Succeeded
  <2>2. CASE failed
    <3>1. ~body.finalized /\ ~seen
      BY <1>13, <1>14, <2>2
    <3> QED
      BY <1>5, <1>8, <1>15, <1>16, <1>17, <2>2, <3>1 DEF EffectsMatch, Failed
  <2>3. CASE ~seen /\ ~failed
    <3>1. body.finalized => Succeeded
      BY DEF StreamInv, EffectsMatch, Failed
    <3> QED
      BY <1>11, <1>15, <1>16, <1>17, <2>3, <3>1 DEF StreamInv, EffectsMatch, Succeeded
  <2> QED
    BY <2>1, <2>2, <2>3
<1> QED
  BY <1>19, <1>20, <1>21, <1>22 DEF StreamInv

LEMMA StreamNext == StreamInv /\ [Next]_vars => StreamInv'
<1>1. StreamInv /\ Read => StreamInv'
  BY ReadMeans, PlainStep, StreamStep
<1>2. StreamInv /\ Cancel => StreamInv'
  BY DEF StreamInv, TypeOK, BodyState, TailSearched, EffectsMatch, Succeeded, Failed, Cancel
<1>3. StreamInv /\ UNCHANGED vars => StreamInv'
  BY DEF StreamInv, TypeOK, BodyState, TailSearched, EffectsMatch, Succeeded, Failed, vars
<1> QED
  BY <1>1, <1>2, <1>3, CloseStep DEF Next

LEMMA StreamAlways == Spec => []StreamInv
BY InitStep, StreamNext, PTL DEF Spec

\* Type correctness; the tail never holds more than terminalMarkerWindow bytes.
THEOREM TypeCorrect == Spec => []TypeOK
<1>1. StreamInv => TypeOK
  BY DEF StreamInv
<1> QED
  BY <1>1, StreamAlways, PTL

\* What is recorded tells the verdict.
RecordFits ==
    /\ Recorded("failure") => body.finalized /\ Failed
    /\ body.kind # "plain" /\ Recorded("healthy") => Succeeded
    /\ Succeeded => Recorded("healthy") /\ Recorded("usage") /\ ~Recorded("failure")

LEMMA RecordMeans == StreamInv => RecordFits
<1>0. SUFFICES ASSUME StreamInv PROVE RecordFits
  OBVIOUS
<1>1. body \in Body
  BY <1>0 DEF StreamInv, TypeOK
<1>2. \/ effects = Opening(body)
      \/ effects = Opening(body) \o Ending(body)
      \/ Succeeded /\ effects = Success(body)
      \/ body.finalized /\ Failed /\ effects = Failure(body)
  <2>1. CASE body.finalized
    <3>1. Succeeded \/ Failed
      BY <1>0, <2>1 DEF StreamInv, EffectsMatch
    <3>2. (Succeeded => effects = Success(body)) /\ (Failed => effects = Failure(body))
      BY DEF Succeeded, Failed
    <3> QED
      BY <2>1, <3>1, <3>2
  <2>2. CASE ~body.finalized
    BY <1>0, <2>2 DEF StreamInv, EffectsMatch
  <2> QED
    BY <2>1, <2>2
<1>3. \A x \in Effect : Recorded(x) <=> Has(effects, x)
  BY DEF Recorded, Has
<1>4. /\ ~Has(Opening(body), "failure") /\ ~Has(Ending(body), "failure") /\ ~Has(Ending(body), "healthy")
      /\ body.kind # "plain" => ~Has(Opening(body), "healthy")
  BY <1>1, PartsOfAll
<1>5. /\ ~Has(Opening(body) \o Ending(body), "failure") /\ ~Has(Success(body), "failure")
      /\ body.kind # "plain" => ~Has(Opening(body) \o Ending(body), "healthy") /\ ~Has(Failure(body), "healthy")
      /\ Has(Success(body), "usage") /\ Has(Success(body), "healthy")
  BY <1>1, <1>4, Outcomes
<1>6. {"failure", "healthy", "usage"} \subseteq Effect
  BY DEF Effect
<1>7. Succeeded => effects = Success(body)
  BY DEF Succeeded
<1> QED
  BY <1>2, <1>3, <1>4, <1>5, <1>6, <1>7 DEF RecordFits

\* A terminal event is never missed, wherever the reads cut it; one request is one use, one
\* verdict and one end of the operation, which comes before the balance query
\* (accountFinalizingBody, accountCreditsRefreshBody).
THEOREM RequestsAccountedOnce == Spec => []AccountedOnce
<1>1. StreamInv => TerminalNotMissed
  <2>1. SUFFICES ASSUME StreamInv, body.kind # "plain", TerminalSeen(body.kind, text)
                 PROVE  Recorded("healthy") /\ Recorded("usage") /\ ~Recorded("failure")
    BY DEF TerminalNotMissed
  <2>2. body.finalized
    BY <2>1 DEF StreamInv, TailSearched
  <2>3. Succeeded
    BY <2>1, <2>2 DEF StreamInv, EffectsMatch, Failed
  <2> QED
    BY <2>1, <2>3, RecordMeans DEF RecordFits
<1>2. StreamInv => AccountedOnce
  <2>1. SUFFICES ASSUME StreamInv PROVE AccountedOnce
    OBVIOUS
  <2>2. body \in Body /\ body.closed \in BOOLEAN /\ body.refreshed \in BOOLEAN /\ body.finalized \in BOOLEAN
    BY <2>1 DEF StreamInv, TypeOK, Body
  <2>3. \/ effects = Opening(body) /\ ~body.closed
        \/ effects = Opening(body) \o Ending(body)
        \/ body.kind # "plain" /\ effects = Success(body)
        \/ body.kind # "plain" /\ effects = Failure(body)
    BY <2>1, <2>2 DEF StreamInv, BodyState, EffectsMatch, Succeeded, Failed
  <2> QED
    BY <1>1, <2>1, <2>3 DEF AccountedOnce, IfOperation, Opening, Ending, Success, Failure
<1> QED
  BY <1>2, StreamAlways, PTL

\* A read blames the account only if Blames says so.
LEMMA QuietRead ==
  ASSUME TypeOK, NEW data \in Seq(Byte), NEW error \in {"none", "eof", "broken"}, ~Recorded("failure"),
         (ReadStream(data, error) /\ ~Blames(error)) \/ ReadPlain(error)
  PROVE  ~Recorded("failure")'
<1> DEFINE added == <<"usage">> \o Refresh \o <<"healthy">>
<1>1. effects \in Seq(Effect) /\ body \in Body
  BY DEF TypeOK
<1>2. Refresh \in Seq(Effect) /\ ~Has(Refresh, "failure")
  <2>1. Ending(body) \in Seq(Effect) /\ ~Has(Ending(body), "failure")
    BY <1>1, PartsOfAll
  <2> QED
    BY <2>1, HasNone, RefreshIsEnding
<1>3. /\ <<"usage">> \in Seq(Effect) /\ <<"healthy">> \in Seq(Effect)
      /\ ~Has(<<"usage">>, "failure") /\ ~Has(<<"healthy">>, "failure")
  BY HasOne DEF Effect
<1>4. added \in Seq(Effect) /\ ~Has(added, "failure")
  <2>1. <<"usage">> \o Refresh \in Seq(Effect) /\ ~Has(<<"usage">> \o Refresh, "failure")
    BY <1>2, <1>3, HasConcat
  <2> QED
    BY <1>3, <2>1, HasConcat
<1>5. effects' = effects \/ effects' = effects \o added \/ effects' = effects \o Refresh
  BY <1>1, NothingAppended DEF ReadStream, ReadPlain
<1> HIDE DEF added
<1>6. ~Has(effects, "failure")
  BY DEF Recorded, Has
<1>7. ~Has(effects \o added, "failure") /\ ~Has(effects \o Refresh, "failure")
  BY <1>1, <1>2, <1>4, <1>6, HasConcat
<1>8. ~Has(effects', "failure")
  BY <1>5, <1>6, <1>7
<1> QED
  BY <1>8 DEF Recorded, Has

\* An account is blamed only for a stream that ended while its client was waiting for it and
\* before a terminal event; a success needs one.
THEOREM VerdictsJustified == Spec => VerdictJustified
<1> DEFINE Blamed == Recorded("failure")' /\ ~Recorded("failure") =>
                       ended' /\ ~cancelled /\ ~body.closed /\ ~TerminalSeen(body.kind, text')
           Praised == body.kind # "plain" /\ Recorded("healthy")' =>
                       \E marker \in Markers : Contains(text', marker)
<1>1. StreamInv' => RecordFits'
  BY RecordMeans, PTL
<1>2. StreamInv /\ [Next]_vars => [Blamed]_vars
  <2>1. SUFFICES ASSUME StreamInv, Next, Recorded("failure")', ~Recorded("failure")
                 PROVE  ended' /\ ~cancelled /\ ~body.closed /\ ~TerminalSeen(body.kind, text')
    BY DEF Blamed
  <2>2. StreamInv'
    BY <2>1, StreamNext
  <2>3. body'.finalized /\ ended' /\ ~TerminalSeen(body'.kind, text')
    BY <1>1, <2>1, <2>2 DEF RecordFits, Failed
  <2>4. CASE Read
    <3>1. PICK data \in Seq(Byte), error \in {"none", "eof", "broken"} :
            ~body.closed /\ (ReadStream(data, error) \/ ReadPlain(error))
      BY <2>1, <2>4, ReadMeans
    <3>2. TypeOK
      BY <2>1 DEF StreamInv
    <3>3. ReadStream(data, error) /\ Blames(error)
      BY <2>1, <3>1, <3>2, QuietRead
    <3>4. body'.kind = body.kind
      BY <3>2, <3>3 DEF ReadStream, TypeOK, Body
    <3> QED
      BY <2>3, <3>1, <3>3, <3>4 DEF Blames
  <2>5. CASE Close
    <3>1. body'.finalized = body.finalized
      BY <2>1, <2>5 DEF Close, StreamInv, TypeOK, Body
    <3>2. body.refreshed
      BY <2>1, <2>3, <3>1 DEF StreamInv, BodyState
    <3>3. effects' = effects
      BY <2>1, <2>5, <3>2, NothingAppended DEF Close, Refresh, StreamInv, TypeOK
    <3> QED
      BY <2>1, <3>3 DEF Recorded
  <2>6. CASE Cancel
    BY <2>1, <2>6 DEF Cancel, Recorded
  <2> QED
    BY <2>1, <2>4, <2>5, <2>6 DEF Next
<1>3. StreamInv /\ [Next]_vars => [Praised]_vars
  <2>1. SUFFICES ASSUME StreamInv, Next PROVE Praised
    OBVIOUS
  <2>2. StreamInv'
    BY <2>1, StreamNext
  <2>3. body'.kind = body.kind
    <3>1. body \in Body
      BY <2>1 DEF StreamInv, TypeOK
    <3>2. Read => body'.kind = body.kind
      BY <3>1 DEF Read, ReadStream, ReadPlain, Body
    <3> QED
      BY <2>1, <3>1, <3>2 DEF Next, Close, Cancel, Body
  <2> QED
    BY <1>1, <2>2, <2>3 DEF RecordFits, Succeeded
<1>4. VerdictJustified <=> [][Blamed]_vars /\ [][Praised]_vars
  BY PTL DEF VerdictJustified
<1> HIDE DEF Blamed, Praised
<1> QED
  BY <1>2, <1>3, <1>4, StreamAlways, PTL DEF Spec

=============================================================================

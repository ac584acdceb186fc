-------------------------- MODULE OAuthRefreshProofs --------------------------
(***************************************************************************)
(* Theorems about OAuthRefresh, for any number of callers and instances,   *)
(* any number of grants and any number of interruptions.                   *)
(***************************************************************************)
EXTENDS OAuthRefresh, TLAPS

-----------------------------------------------------------------------------
(* Grants and copies.                                                      *)

\* Grants succeed each other: one is obtained with an earlier one that the row held.
InOrder(r, p, i) ==
    /\ r.grant <= i
    /\ \A g \in Grant : p[g] <= r.grant /\ p[g] < g /\ (g > i => p[g] = 0)

Refusing == {"refused", "rereading", "condemning", "failing", "faulted", "condemned"}
HasReply == {"answered", "writing"}

\* A copy s never runs ahead of the row r; it holds the row's grant exactly while it holds its
\* credential revision. A reply was obtained with the copy's own grant. A copy that is going to
\* ask for a login has a grant that gave trouble.
Fits(s, r, p, i, t) ==
    /\ s.grant <= r.grant
    /\ s.pc \notin {"new", "ended"} =>
         /\ s.credential >= 1
         /\ s.credential = r.credential => s.grant = r.grant
         /\ r.credential # 0 => s.credential <= r.credential /\ (s.grant = r.grant => s.credential = r.credential)
    /\ s.pc \in HasReply => s.reply \in Grant /\ s.reply <= i /\ s.grant < s.reply /\ p[s.reply] = s.grant
    /\ s.refused => s.pc \in Refusing
    /\ s.pc \in {"refused", "condemning"} => s.refused
    /\ s.refused \/ s.pc \in {"expiring", "condemned"} => s.grant \in t
    /\ s.pc \in {"new", "picked"} => s.recovery # "running"

Basic ==
    /\ TypeOK
    /\ InOrder(row, parent, issued)
    /\ \A c \in Caller : Fits(caller[c], row, parent, issued, troubled)

-----------------------------------------------------------------------------
(* What holds as long as nothing interrupts.                               *)

Spent(g, p) == \E h \in Grant : p[h] = g
Holding == {"reloading", "asking", "answered", "refused", "failed", "rereading", "condemning", "writing"}

\* The provider issues nothing any more, and no reply is on its way.
Closed == issued = MaxGrant /\ \A c \in Caller : caller[c].pc \notin HasReply

\* The copy's credential is the row's, which no login has to replace.
Current(s, r) == s.credential = r.credential /\ ~r.reauth

\* A refresher that asks, or has an answer, is not overtaken by a health write ...
Fresh(s, r, p, last, closed) ==
    /\ s.pc = "asking" => (Current(s, r) => s.health = r.health \/ last) /\ (~s.reauth => ~Spent(s.grant, p))
    /\ s.pc \in HasReply => (Current(s, r) => s.health = r.health)
    /\ s.pc \in {"failed", "refused", "rereading", "condemning", "failing", "faulted"} => (Current(s, r) => closed)

\* ... it holds the lease, and it will store what it got for the row's refresh token.
Undisturbed ==
    /\ Exists /\ ~replayed
    /\ row.lease # DeadLease /\ (row.lease \in Caller => row.live)
    /\ \A g \in 1 .. issued : g \in accepted \/ Spent(g, parent)
    /\ ~row.reauth /\ Spent(row.grant, parent) =>
         \E c \in Caller : caller[c].pc \in HasReply /\ caller[c].grant = row.grant
    /\ row.cooldown /\ ~row.reauth => Closed
    /\ \A c \in Caller : caller[c].pc \in Holding => row.lease = c
    /\ \A c \in Caller : Fresh(caller[c], row, parent, issued = MaxGrant, Closed)

RefreshInv == Basic /\ (interruptions = 0 => Undisturbed)

-----------------------------------------------------------------------------
(* The steps of one caller.                                                *)

\* The row keeps its credential, gets a new one, or is deleted.
Goes(r, q) ==
    \/ q.credential = r.credential /\ q.grant = r.grant
    \/ r.credential # 0 /\ q.credential = r.credential + 1 /\ q.grant > r.grant
    \/ q.credential = 0 /\ q.grant = r.grant

LEMMA FitsStays ==
  ASSUME NEW s \in CallerState, NEW r \in Row, NEW q \in Row, NEW i \in Grant, NEW j \in Grant, i <= j,
         NEW p, NEW o, \A g \in Grant : g <= i => o[g] = p[g],
         NEW t, NEW u, t \subseteq u, Goes(r, q), Fits(s, r, p, i, t)
  PROVE  Fits(s, q, o, j, u)
<1>1. s.grant \in Nat /\ r.grant \in Nat /\ q.grant \in Nat /\ i \in Nat /\ j \in Nat
  BY RefreshConstants DEF CallerState, Row, Grant
<1>2. s.credential \in Nat /\ r.credential \in Nat /\ q.credential \in Nat
  BY DEF CallerState, Row
<1>3. s.reply \in Grant => s.reply \in Nat
  BY RefreshConstants DEF Grant
<1> QED
  BY <1>1, <1>2, <1>3 DEF Goes, Fits

Moves(c) == caller' \in [Caller -> CallerState] /\ \A d \in Caller \ {c} : caller'[d] = caller[d]

LEMMA Becomes ==
  ASSUME TypeOK, NEW c \in Caller, NEW s \in CallerState, Become(c, s)
  PROVE  Moves(c) /\ caller'[c] = s
  BY DEF TypeOK, Become, Moves

LEMMA BasicStep ==
  ASSUME Basic, NEW c \in Caller, Moves(c), row' \in Row, Goes(row, row'),
         accepted' \subseteq Grant, issued' \in Grant, issued <= issued', parent' \in [Grant -> Grant \union {0}],
         \A g \in Grant : g <= issued => parent'[g] = parent[g], InOrder(row', parent', issued'),
         troubled \subseteq troubled', troubled' \subseteq Grant, replayed' \in BOOLEAN,
         interruptions' \in 0 .. MaxInterruptions, Fits(caller'[c], row', parent', issued', troubled')
  PROVE  Basic'
<1>1. TypeOK'
  BY DEF TypeOK, Moves
<1>2. ASSUME NEW d \in Caller \ {c} PROVE Fits(caller'[d], row', parent', issued', troubled')
  BY <1>2, FitsStays DEF Basic, TypeOK, Moves
<1> QED
  BY <1>1, <1>2 DEF Basic

\* What a step that leaves the credential alone does while nothing interrupts.
Calm(c) ==
    /\ ~replayed'
    /\ row.reauth => row'.reauth
    /\ row'.reauth \/ Closed \/ (row'.health = row.health /\ (row'.cooldown => row.cooldown))
    /\ row'.lease # DeadLease /\ (row'.lease \in Caller => row'.live)
    /\ row'.lease = row.lease \/ row.lease \in {c, NoLease}
    /\ caller'[c].pc \in Holding => row'.lease = c
    /\ caller'[c].pc \in HasReply => caller[c].pc \in HasReply /\ caller'[c].grant = caller[c].grant
    /\ caller[c].pc \in HasReply /\ caller'[c].pc \notin HasReply => row'.reauth \/ caller[c].grant # row.grant
    /\ Fresh(caller'[c], row', parent, issued = MaxGrant, Closed)

LEMMA CalmStep ==
  ASSUME Basic, Undisturbed, NEW c \in Caller, Moves(c), Calm(c),
         row'.credential = row.credential, row'.grant = row.grant, UNCHANGED provider
  PROVE  Undisturbed'
<1>1. UNCHANGED <<accepted, issued, parent>> /\ caller' \in [Caller -> CallerState]
      /\ \A d \in Caller \ {c} : caller'[d] = caller[d]
  BY DEF provider, Moves
<1>2. Closed => Closed'
  BY <1>1 DEF Closed, Calm
<1>3. Exists' /\ ~replayed' /\ row'.lease # DeadLease /\ (row'.lease \in Caller => row'.live)
  BY DEF Undisturbed, Calm, Exists
<1>4. \A g \in 1 .. issued' : g \in accepted' \/ Spent(g, parent')
  BY <1>1 DEF Undisturbed
<1>5. ASSUME ~row'.reauth, Spent(row'.grant, parent')
      PROVE  \E d \in Caller : caller'[d].pc \in HasReply /\ caller'[d].grant = row'.grant
  <2>1. PICK d \in Caller : caller[d].pc \in HasReply /\ caller[d].grant = row.grant
    BY <1>1, <1>5 DEF Undisturbed, Calm
  <2>2. CASE d # c
    BY <1>1, <2>1, <2>2
  <2>3. CASE d = c
    BY <1>5, <2>1, <2>3 DEF Calm
  <2> QED
    BY <2>2, <2>3
<1>6. row'.cooldown /\ ~row'.reauth => Closed'
  BY <1>2 DEF Undisturbed, Calm
<1>7. ASSUME NEW d \in Caller PROVE caller'[d].pc \in Holding => row'.lease = d
  <2>1. CASE d = c
    BY <2>1 DEF Calm
  <2>2. CASE d # c
    BY <1>1, <2>2, RefreshConstants DEF Undisturbed, Calm
  <2> QED
    BY <2>1, <2>2
<1>8. ASSUME NEW d \in Caller PROVE Fresh(caller'[d], row', parent', issued' = MaxGrant, Closed')
  <2>1. CASE d = c
    BY <1>1, <1>2, <2>1 DEF Calm, Fresh
  <2>2. CASE d # c
    <3>1. caller'[d] = caller[d] /\ Fresh(caller[d], row, parent, issued = MaxGrant, Closed)
      BY <1>1, <2>2 DEF Undisturbed
    <3>2. Current(caller[d], row') => Current(caller[d], row)
      BY DEF Current, Calm
    <3>3. Closed => caller[d].pc \notin HasReply /\ issued = MaxGrant
      BY DEF Closed
    <3>4. Current(caller[d], row') => Closed \/ row'.health = row.health
      BY DEF Current, Calm
    <3> QED
      BY <1>1, <1>2, <3>1, <3>2, <3>3, <3>4 DEF Fresh
  <2> QED
    BY <2>1, <2>2
<1> QED
  BY <1>3, <1>4, <1>5, <1>6, <1>7, <1>8 DEF Undisturbed

\* A step of a caller that changes neither the credential nor what the provider holds.
LEMMA LocalStep ==
  ASSUME RefreshInv, NEW c \in Caller, Moves(c), row' \in Row, row'.credential = row.credential, row'.grant = row.grant,
         UNCHANGED provider, troubled \subseteq troubled', troubled' \subseteq Grant, replayed' \in BOOLEAN,
         interruptions' \in 0 .. MaxInterruptions, interruptions <= interruptions',
         Fits(caller'[c], row', parent, issued, troubled'),
         interruptions = 0 /\ interruptions' = 0 /\ Undisturbed => Calm(c)
  PROVE  RefreshInv'
<1>1. Basic'
  <2>1. UNCHANGED <<accepted, issued, parent>> /\ issued <= issued /\ issued \in Grant
    BY RefreshConstants DEF provider, RefreshInv, Basic, TypeOK, Grant
  <2>2. InOrder(row', parent', issued')
    BY <2>1 DEF RefreshInv, Basic, InOrder
  <2> QED
    BY <2>1, <2>2, BasicStep DEF RefreshInv, Basic, TypeOK, Goes
<1>2. interruptions' = 0 => Undisturbed'
  <2>1. interruptions' = 0 => interruptions = 0
    BY RefreshConstants DEF RefreshInv, Basic, TypeOK
  <2> QED
    BY <2>1, CalmStep DEF RefreshInv
<1> QED
  BY <1>1, <1>2 DEF RefreshInv

-----------------------------------------------------------------------------
(* How a caller goes on.                                                   *)

Labels ==
    {"new", "picked", "using", "expiring", "locking", "loading", "claiming", "reloading",
     "asking", "answered", "refused", "failed", "rereading", "condemning",
     "writing", "succeeding", "failing", "faulted", "condemned", "ended"}

\* Everything but the program counter.
SameCopy(s, u) ==
    /\ u.affectsHealth = s.affectsHealth /\ u.recovery = s.recovery /\ u.credential = s.credential
    /\ u.health = s.health /\ u.grant = s.grant /\ u.expired = s.expired /\ u.reauth = s.reauth
    /\ u.reply = s.reply /\ u.refused = s.refused

LEMMA GotoStep ==
  ASSUME TypeOK, NEW c \in Caller, NEW label \in Labels, Goto(c, label)
  PROVE  Moves(c) /\ caller'[c].pc = label /\ SameCopy(caller[c], caller'[c])
<1> DEFINE s == [caller[c] EXCEPT !.pc = label]
<1>1. caller[c] \in CallerState
  BY DEF TypeOK
<1>2. s \in CallerState /\ s.pc = label /\ SameCopy(caller[c], s)
  BY <1>1 DEF CallerState, SameCopy, Labels
<1> HIDE DEF s
<1>3. Become(c, s)
  BY DEF Goto, s
<1> QED
  BY <1>2, <1>3, Becomes

LEMMA EndStep ==
  ASSUME TypeOK, NEW c \in Caller, End(c)
  PROVE  Moves(c) /\ caller'[c].pc = "ended" /\ caller'[c].grant = 1 /\ ~caller'[c].refused
<1> DEFINE s == [NewCaller EXCEPT !.pc = "ended"]
<1>1. 1 \in Grant
  BY RefreshConstants DEF Grant
<1>2. s \in CallerState /\ s.pc = "ended" /\ s.grant = 1 /\ ~s.refused
  BY <1>1 DEF NewCaller, CallerState
<1> HIDE DEF s
<1>3. Become(c, s)
  BY DEF End, s
<1> QED
  BY <1>2, <1>3, Becomes

\* A copy that has ended fits any row, and has nothing to keep fresh.
LEMMA EndedFits ==
  ASSUME NEW s, s.pc = "ended", s.grant = 1, ~s.refused, NEW r \in Row, NEW p, NEW i, NEW t, NEW last, NEW closed
  PROVE  Fits(s, r, p, i, t) /\ Fresh(s, r, p, last, closed)
<1>1. 1 <= r.grant
  BY RefreshConstants DEF Row, Grant
<1> QED
  BY <1>1 DEF Fits, Fresh, HasReply

\* The copy of the row's credential.
IsCopy(s, u, r) ==
    /\ u.credential = r.credential /\ u.health = r.health /\ u.grant = r.grant /\ u.expired = r.expired
    /\ u.reauth = r.reauth /\ u.recovery = s.recovery /\ u.refused = s.refused

LEMMA MergeStep ==
  ASSUME TypeOK, NEW c \in Caller, NEW label \in Labels, Become(c, Merged(c, label))
  PROVE  Moves(c) /\ caller'[c].pc = label /\ IsCopy(caller[c], caller'[c], row)
<1>1. caller[c] \in CallerState /\ row \in Row
  BY DEF TypeOK
<1>2. Merged(c, label) \in CallerState /\ Merged(c, label).pc = label /\ IsCopy(caller[c], Merged(c, label), row)
  BY <1>1 DEF CallerState, Row, Merged, IsCopy, Labels
<1> QED
  BY <1>2, Becomes

\* A copy just made fits, if nothing was held against the caller before.
LEMMA CopyOfRowFits ==
  ASSUME NEW s, NEW u, NEW r \in Row, IsCopy(s, u, r), r.credential # 0, ~s.refused,
         u.pc \in {"using", "picked", "claiming", "succeeding", "asking"}, u.pc = "picked" => s.recovery # "running",
         NEW p, NEW i, NEW t
  PROVE  Fits(u, r, p, i, t)
<1>1. r.credential \in Nat /\ r.grant \in Nat
  BY RefreshConstants DEF Row, Grant
<1> QED
  BY <1>1 DEF IsCopy, Fits, HasReply, Refusing

\* A failed refresh ends the caller, or leaves it to record the failure.
LEMMA FailStep ==
  ASSUME TypeOK, NEW c \in Caller, Fail(c), NEW t, Fits(caller[c], row, parent, issued, t), caller[c].pc \notin {"new", "ended"},
         caller[c].recovery = "running" => caller[c].grant \in t
  PROVE  /\ Moves(c) /\ caller'[c].pc \in {"ended", "condemned", "faulted"}
         /\ Fits(caller'[c], row, parent, issued, t)
         /\ caller'[c].pc # "ended" => SameCopy(caller[c], caller'[c])
         /\ caller'[c].pc = "condemned" <=> caller[c].affectsHealth /\ caller[c].recovery = "running"
<1>1. CASE ~caller[c].affectsHealth
  <2>1. Moves(c) /\ caller'[c].pc = "ended" /\ caller'[c].grant = 1 /\ ~caller'[c].refused
    BY <1>1, EndStep DEF Fail
  <2> QED
    BY <1>1, <2>1, EndedFits DEF TypeOK
<1>2. CASE caller[c].affectsHealth
  <2> DEFINE label == IF caller[c].recovery = "running" THEN "condemned" ELSE "faulted"
  <2>1. label \in Labels /\ label \in {"condemned", "faulted"} /\ (label = "condemned" <=> caller[c].recovery = "running")
    BY DEF Labels
  <2>2. Goto(c, label)
    BY <1>2 DEF Fail
  <2> HIDE DEF label
  <2>3. Moves(c) /\ caller'[c].pc = label /\ SameCopy(caller[c], caller'[c])
    BY <2>1, <2>2, GotoStep
  <2>4. Fits(caller'[c], row, parent, issued, t)
    BY <2>1, <2>3 DEF Fits, SameCopy, HasReply, Refusing
  <2> QED
    BY <1>2, <2>1, <2>3, <2>4
<1> QED
  BY <1>1, <1>2

\* What is unchanged while a caller only works on its copy.
LEMMA QuietRow ==
  ASSUME RefreshInv, UNCHANGED row
  PROVE  /\ TypeOK /\ row' \in Row /\ row'.credential = row.credential /\ row'.grant = row.grant
         /\ row'.health = row.health /\ row'.reauth = row.reauth /\ row'.cooldown = row.cooldown
         /\ row'.lease = row.lease /\ row'.live = row.live
         /\ interruptions \in 0 .. MaxInterruptions /\ interruptions <= interruptions
         /\ troubled \subseteq Grant /\ replayed \in BOOLEAN
         /\ \A c \in Caller : caller[c] \in CallerState /\ Fits(caller[c], row, parent, issued, troubled)
<1>1. interruptions <= interruptions
  BY RefreshConstants DEF RefreshInv, Basic, TypeOK
<1> QED
  BY <1>1 DEF RefreshInv, Basic, TypeOK

\* Such a step of a caller that has no reply.
LEMMA CopyStep ==
  ASSUME RefreshInv, NEW c \in Caller, Moves(c), UNCHANGED row, Quiet,
         caller[c].pc \notin HasReply, caller'[c].pc \notin HasReply,
         Fits(caller'[c], row, parent, issued, troubled),
         interruptions = 0 /\ Undisturbed =>
           /\ caller'[c].pc \in Holding => row.lease = c
           /\ Fresh(caller'[c], row, parent, issued = MaxGrant, Closed)
  PROVE  RefreshInv'
<1>1. interruptions = 0 /\ Undisturbed => Calm(c)
  BY DEF Calm, Undisturbed, Quiet
<1> QED
  BY <1>1, QuietRow, LocalStep DEF Quiet

\* ... and has nothing to keep fresh.
Unbound == Labels \ ({"asking", "failed", "refused", "rereading", "condemning", "failing", "faulted"} \union Holding \union HasReply)

LEMMA UnboundStep ==
  ASSUME RefreshInv, NEW c \in Caller, Moves(c), UNCHANGED row, Quiet,
         caller[c].pc \notin HasReply, caller'[c].pc \in Unbound,
         Fits(caller'[c], row, parent, issued, troubled)
  PROVE  RefreshInv'
  BY CopyStep DEF Unbound, Labels, Fresh, Holding, HasReply

-----------------------------------------------------------------------------
(* Using the account.                                                      *)

LEMMA PickStep == ASSUME RefreshInv, NEW c \in Caller, Pick(c) PROVE RefreshInv'
<1>1. PICK affectsHealth \in BOOLEAN : Become(c, [Merged(c, "picked") EXCEPT !.affectsHealth = affectsHealth])
  BY DEF Pick
<1>2. caller[c].pc = "new" /\ Exists /\ UNCHANGED row /\ Quiet
  BY DEF Pick
<1>3. caller[c] \in CallerState /\ row \in Row /\ TypeOK /\ Fits(caller[c], row, parent, issued, troubled)
  BY <1>2, QuietRow DEF RefreshInv, Basic, TypeOK
<1> DEFINE s == [Merged(c, "picked") EXCEPT !.affectsHealth = affectsHealth]
<1>4. s \in CallerState /\ s.pc = "picked" /\ IsCopy(caller[c], s, row)
  BY <1>3 DEF CallerState, Row, Merged, IsCopy
<1> HIDE DEF s
<1>5. Moves(c) /\ caller'[c] = s
  BY <1>1, <1>3, <1>4, Becomes DEF s
<1>6. Fits(s, row, parent, issued, troubled)
  BY <1>2, <1>3, <1>4, CopyOfRowFits DEF Fits, Refusing, Exists
<1> QED
  BY <1>2, <1>4, <1>5, <1>6, UnboundStep DEF Unbound, Labels, Holding, HasReply

LEMMA EnsureUsableStep == ASSUME RefreshInv, NEW c \in Caller, EnsureUsable(c) PROVE RefreshInv'
<1>1. caller[c].pc = "picked" /\ UNCHANGED row /\ Quiet
  BY DEF EnsureUsable
<1>2. caller[c] \in CallerState /\ row \in Row /\ TypeOK /\ Fits(caller[c], row, parent, issued, troubled)
  BY <1>1, QuietRow DEF RefreshInv, Basic, TypeOK
<1>3. CASE (~Exists \/ row.reauth \/ row.cooldown) /\ Fail(c)
  <2>1. /\ Moves(c) /\ caller'[c].pc \in {"ended", "faulted"} /\ Fits(caller'[c], row, parent, issued, troubled)
        /\ caller'[c].pc # "ended" => SameCopy(caller[c], caller'[c])
    BY <1>1, <1>2, <1>3, FailStep DEF Fits
  <2>2. interruptions = 0 /\ Undisturbed => Fresh(caller'[c], row, parent, issued = MaxGrant, Closed)
    BY <1>3, <2>1 DEF Fresh, Undisturbed, Current, HasReply
  <2> QED
    BY <1>1, <2>1, <2>2, CopyStep DEF HasReply, Holding
<1>4. CASE Exists /\ Become(c, Merged(c, "using"))
  <2>1. Moves(c) /\ caller'[c].pc = "using" /\ IsCopy(caller[c], caller'[c], row)
    BY <1>2, <1>4, MergeStep DEF Labels
  <2>2. Fits(caller'[c], row, parent, issued, troubled)
    BY <1>1, <1>2, <1>4, <2>1, CopyOfRowFits DEF Fits, Refusing, Exists
  <2> QED
    BY <1>1, <2>1, <2>2, UnboundStep DEF Unbound, Labels, Holding, HasReply
<1>5. CASE Goto(c, "using")
  <2>1. Moves(c) /\ caller'[c].pc = "using" /\ SameCopy(caller[c], caller'[c])
    BY <1>2, <1>5, GotoStep DEF Labels
  <2>2. Fits(caller'[c], row, parent, issued, troubled)
    BY <1>1, <1>2, <2>1 DEF Fits, SameCopy, Refusing, HasReply
  <2> QED
    BY <1>1, <2>1, <2>2, UnboundStep DEF Unbound, Labels, Holding, HasReply
<1> QED
  BY <1>3, <1>4, <1>5 DEF EnsureUsable

LEMMA AcceptedStep == ASSUME RefreshInv, NEW c \in Caller, Accepted(c) PROVE RefreshInv'
<1>1. caller[c].pc = "using" /\ UNCHANGED row /\ Quiet /\ End(c)
  BY DEF Accepted
<1>2. TypeOK /\ row \in Row
  BY DEF RefreshInv, Basic, TypeOK
<1>3. Moves(c) /\ caller'[c].pc = "ended" /\ Fits(caller'[c], row, parent, issued, troubled)
  BY <1>1, <1>2, EndStep, EndedFits
<1> QED
  BY <1>1, <1>3, UnboundStep DEF Unbound, Labels, Holding, HasReply

\* A caller that goes on without a new copy and without a claim on anything.
LEMMA PlainStep ==
  ASSUME RefreshInv, NEW c \in Caller, NEW label \in Unbound \ {"new", "ended", "expiring", "condemned", "picked"},
         Goto(c, label), UNCHANGED row, Quiet, caller[c].pc \notin HasReply \union Refusing \union {"new", "ended"}
  PROVE  RefreshInv'
<1>1. TypeOK /\ label \in Labels /\ Fits(caller[c], row, parent, issued, troubled)
  BY DEF RefreshInv, Basic, Unbound
<1>2. Moves(c) /\ caller'[c].pc = label /\ SameCopy(caller[c], caller'[c])
  BY <1>1, GotoStep
<1>3. Fits(caller'[c], row, parent, issued, troubled)
  BY <1>1, <1>2 DEF Fits, SameCopy, HasReply, Unbound
<1> QED
  BY <1>2, <1>3, UnboundStep

LEMMA NeedsRefreshStep == ASSUME RefreshInv, NEW c \in Caller, NeedsRefresh(c) PROVE RefreshInv'
  BY PlainStep DEF NeedsRefresh, Unbound, Labels, Holding, HasReply, Refusing

LEMMA LockStep == ASSUME RefreshInv, NEW c \in Caller, Lock(c) PROVE RefreshInv'
  BY PlainStep DEF Lock, Unbound, Labels, Holding, HasReply, Refusing

LEMMA UnauthorizedStep == ASSUME RefreshInv, NEW c \in Caller, Unauthorized(c) PROVE RefreshInv'
<1>1. /\ caller[c].pc = "using" /\ UNCHANGED <<row, provider, replayed, interruptions>>
      /\ troubled' = troubled \union {caller[c].grant}
  BY DEF Unauthorized
<1>2. caller[c] \in CallerState /\ row \in Row /\ TypeOK /\ Fits(caller[c], row, parent, issued, troubled)
  BY <1>1, QuietRow DEF RefreshInv, Basic, TypeOK
<1>3. Moves(c) /\ caller'[c].pc \in {"expiring", "condemned", "ended"} /\ Fits(caller'[c], row, parent, issued, troubled')
  <2>1. CASE Become(c, [caller[c] EXCEPT !.pc = "expiring", !.recovery = "running"])
    <3> DEFINE s == [caller[c] EXCEPT !.pc = "expiring", !.recovery = "running"]
    <3>1. s \in CallerState /\ s.pc = "expiring" /\ s.credential = caller[c].credential /\ s.grant = caller[c].grant
          /\ s.refused = caller[c].refused
      BY <1>2 DEF CallerState
    <3> HIDE DEF s
    <3>2. Moves(c) /\ caller'[c] = s
      BY <1>2, <2>1, <3>1, Becomes DEF s
    <3> QED
      BY <1>1, <1>2, <3>1, <3>2 DEF Fits, HasReply, Refusing
  <2>2. CASE Goto(c, "condemned")
    <3>1. Moves(c) /\ caller'[c].pc = "condemned" /\ SameCopy(caller[c], caller'[c])
      BY <1>2, <2>2, GotoStep DEF Labels
    <3> QED
      BY <1>1, <1>2, <3>1 DEF Fits, SameCopy, HasReply, Refusing
  <2>3. CASE End(c)
    BY <1>2, <2>3, EndStep, EndedFits
  <2> QED
    BY <2>1, <2>2, <2>3 DEF Unauthorized
<1>4. interruptions = 0 /\ Undisturbed => Calm(c)
  BY <1>1, <1>3 DEF Calm, Undisturbed, Fresh, Holding, HasReply
<1>5. troubled' \subseteq Grant
  BY <1>1, <1>2 DEF TypeOK, CallerState
<1> QED
  BY <1>1, <1>3, <1>4, <1>5, QuietRow, LocalStep

LEMMA ExpireStep == ASSUME RefreshInv, NEW c \in Caller, Expire(c) PROVE RefreshInv'
<1>1. caller[c].pc = "expiring" /\ Quiet
  BY DEF Expire
<1>2. caller[c] \in CallerState /\ row \in Row /\ TypeOK /\ Fits(caller[c], row, parent, issued, troubled)
  BY DEF RefreshInv, Basic, TypeOK
<1>3. CASE row' = [row EXCEPT !.expired = TRUE] /\ Become(c, [caller[c] EXCEPT !.pc = "locking", !.expired = TRUE])
  <2>1. /\ row' \in Row /\ row'.credential = row.credential /\ row'.grant = row.grant /\ row'.health = row.health
        /\ row'.reauth = row.reauth /\ row'.cooldown = row.cooldown /\ row'.lease = row.lease /\ row'.live = row.live
    BY <1>2, <1>3 DEF Row
  <2> DEFINE s == [caller[c] EXCEPT !.pc = "locking", !.expired = TRUE]
  <2>2. s \in CallerState /\ s.pc = "locking" /\ s.credential = caller[c].credential /\ s.grant = caller[c].grant
        /\ s.refused = caller[c].refused
    BY <1>2 DEF CallerState
  <2> HIDE DEF s
  <2>3. Moves(c) /\ caller'[c] = s
    BY <1>2, <1>3, <2>2, Becomes DEF s
  <2>4. Fits(caller'[c], row', parent, issued, troubled)
    BY <1>1, <1>2, <2>1, <2>2, <2>3 DEF Fits, HasReply, Refusing
  <2>5. interruptions = 0 /\ Undisturbed => Calm(c)
    BY <1>1, <2>1, <2>2, <2>3 DEF Calm, Undisturbed, Fresh, Quiet, Holding, HasReply
  <2>6. interruptions \in 0 .. MaxInterruptions /\ interruptions <= interruptions /\ troubled \subseteq Grant /\ replayed \in BOOLEAN
    BY <1>2, RefreshConstants DEF TypeOK
  <2> QED
    BY <1>1, <2>1, <2>3, <2>4, <2>5, <2>6, LocalStep DEF Quiet
<1>4. CASE row.credential # caller[c].credential /\ UNCHANGED row /\ Fail(c)
  <2>1. /\ Moves(c) /\ caller'[c].pc \in {"ended", "condemned", "faulted"} /\ Fits(caller'[c], row, parent, issued, troubled)
        /\ caller'[c].pc # "ended" => SameCopy(caller[c], caller'[c])
    BY <1>1, <1>2, <1>4, FailStep DEF Fits
  <2>2. Fresh(caller'[c], row, parent, issued = MaxGrant, Closed)
    BY <1>4, <2>1 DEF Fresh, Current, SameCopy, HasReply
  <2> QED
    BY <1>1, <1>4, <2>1, <2>2, CopyStep DEF HasReply, Holding
<1> QED
  BY <1>3, <1>4 DEF Expire

\* The health columns of the row change, or nothing.
HealthChange(r, q) ==
    /\ q \in Row /\ q.credential = r.credential /\ q.grant = r.grant /\ q.lease = r.lease /\ q.live = r.live

LEMMA MarkedRow ==
  ASSUME NEW r \in Row, NEW reauth \in BOOLEAN
  PROVE  LET q == [r EXCEPT !.reauth = reauth, !.cooldown = TRUE, !.health = @ + 1] IN
           HealthChange(r, q) /\ q.reauth = reauth /\ q.cooldown /\ q.health = r.health + 1
<1>1. r.health + 1 \in Nat
  BY DEF Row
<1> QED
  BY <1>1 DEF HealthChange, Row

LEMMA CondemnedStep == ASSUME RefreshInv, NEW c \in Caller, Condemned(c) PROVE RefreshInv'
<1>1. caller[c].pc = "condemned" /\ Quiet /\ End(c)
  BY DEF Condemned
<1>2. caller[c] \in CallerState /\ row \in Row /\ TypeOK
  BY DEF RefreshInv, Basic, TypeOK
<1>3. row' = row \/ (HealthChange(row, row') /\ row'.reauth)
  BY <1>2, MarkedRow DEF Condemned
<1>4. HealthChange(row, row') /\ (row.reauth => row'.reauth)
  BY <1>2, <1>3 DEF HealthChange
<1>5. Moves(c) /\ caller'[c].pc = "ended" /\ caller'[c].grant = 1 /\ ~caller'[c].refused
  BY <1>1, <1>2, EndStep
<1>6. Fits(caller'[c], row', parent, issued, troubled) /\ Fresh(caller'[c], row', parent, issued = MaxGrant, Closed)
  BY <1>4, <1>5, EndedFits DEF HealthChange
<1>7. interruptions = 0 /\ Undisturbed => Calm(c)
  BY <1>1, <1>3, <1>4, <1>5, <1>6 DEF Calm, Undisturbed, Quiet, Holding, HasReply, HealthChange
<1>8. interruptions \in 0 .. MaxInterruptions /\ interruptions <= interruptions /\ troubled \subseteq Grant /\ replayed \in BOOLEAN
  BY <1>2, RefreshConstants DEF TypeOK
<1> QED
  BY <1>1, <1>4, <1>5, <1>6, <1>7, <1>8, LocalStep DEF Quiet, HealthChange

LEMMA FaultedStep == ASSUME RefreshInv, NEW c \in Caller, Faulted(c) PROVE RefreshInv'
<1>1. caller[c].pc = "faulted" /\ Quiet /\ End(c)
  BY DEF Faulted
<1>2. caller[c] \in CallerState /\ row \in Row /\ TypeOK
  BY DEF RefreshInv, Basic, TypeOK
<1>3. row' = row \/ (HealthChange(row, row') /\ row'.reauth = row.reauth /\ Current(caller[c], row))
  <2>1. ~row.reauth => [row EXCEPT !.cooldown = TRUE, !.health = @ + 1]
                       = [row EXCEPT !.reauth = FALSE, !.cooldown = TRUE, !.health = @ + 1]
    BY <1>2 DEF Row
  <2> DEFINE q == [row EXCEPT !.reauth = FALSE, !.cooldown = TRUE, !.health = @ + 1]
  <2>2. HealthChange(row, q) /\ q.reauth = FALSE
    BY <1>2, MarkedRow
  <2> HIDE DEF q
  <2>3. row' = row \/ (row' = q /\ ~row.reauth /\ row.credential = caller[c].credential)
    BY <2>1 DEF Faulted, q
  <2> QED
    BY <1>2, <2>2, <2>3 DEF Current, Row
<1>4. HealthChange(row, row') /\ row'.reauth = row.reauth
  BY <1>2, <1>3 DEF HealthChange
<1>5. Moves(c) /\ caller'[c].pc = "ended" /\ caller'[c].grant = 1 /\ ~caller'[c].refused
  BY <1>1, <1>2, EndStep
<1>6. Fits(caller'[c], row', parent, issued, troubled) /\ Fresh(caller'[c], row', parent, issued = MaxGrant, Closed)
  BY <1>4, <1>5, EndedFits DEF HealthChange
<1>7. Undisturbed => row' = row \/ Closed
  BY <1>1, <1>3 DEF Undisturbed, Fresh
<1>8. interruptions = 0 /\ Undisturbed => Calm(c)
  BY <1>1, <1>4, <1>5, <1>6, <1>7 DEF Calm, Undisturbed, Quiet, Holding, HasReply, HealthChange
<1>9. interruptions \in 0 .. MaxInterruptions /\ interruptions <= interruptions /\ troubled \subseteq Grant /\ replayed \in BOOLEAN
  BY <1>2, RefreshConstants DEF TypeOK
<1> QED
  BY <1>1, <1>4, <1>5, <1>6, <1>8, <1>9, LocalStep DEF Quiet, HealthChange

-----------------------------------------------------------------------------
(* Refreshing the stored account.                                          *)

LEMMA LoadStep == ASSUME RefreshInv, NEW c \in Caller, Load(c) PROVE RefreshInv'
<1>1. caller[c].pc = "loading" /\ UNCHANGED row /\ Quiet
  BY DEF Load
<1>2. caller[c] \in CallerState /\ row \in Row /\ TypeOK /\ Fits(caller[c], row, parent, issued, troubled)
  BY <1>1, QuietRow DEF RefreshInv, Basic, TypeOK
<1>3. CASE ~Exists /\ Goto(c, "failing")
  <2>1. Moves(c) /\ caller'[c].pc = "failing" /\ SameCopy(caller[c], caller'[c])
    BY <1>2, <1>3, GotoStep DEF Labels
  <2>2. Fits(caller'[c], row, parent, issued, troubled)
    BY <1>1, <1>2, <2>1 DEF Fits, SameCopy, Refusing, HasReply
  <2>3. ~Undisturbed
    BY <1>3 DEF Undisturbed
  <2> QED
    BY <1>1, <2>1, <2>2, <2>3, CopyStep DEF HasReply
<1>4. ASSUME Exists, NEW label \in {"claiming", "succeeding"}, Become(c, Merged(c, label)) PROVE RefreshInv'
  <2>1. Moves(c) /\ caller'[c].pc = label /\ IsCopy(caller[c], caller'[c], row)
    BY <1>2, <1>4, MergeStep DEF Labels
  <2>2. Fits(caller'[c], row, parent, issued, troubled)
    BY <1>1, <1>2, <1>4, <2>1, CopyOfRowFits DEF Fits, Refusing, Exists
  <2> QED
    BY <1>1, <2>1, <2>2, UnboundStep DEF Unbound, Labels, Holding, HasReply
<1> QED
  BY <1>3, <1>4 DEF Load

LEMMA ClaimStep == ASSUME RefreshInv, NEW c \in Caller, Claim(c) PROVE RefreshInv'
<1>1. caller[c].pc = "claiming" /\ Quiet
  BY DEF Claim
<1>2. caller[c] \in CallerState /\ row \in Row /\ TypeOK /\ Fits(caller[c], row, parent, issued, troubled)
  BY DEF RefreshInv, Basic, TypeOK
<1>3. CASE CanClaim(c) /\ row' = [row EXCEPT !.lease = c, !.live = TRUE] /\ Goto(c, "reloading")
  <2>1. /\ row' \in Row /\ row'.credential = row.credential /\ row'.grant = row.grant /\ row'.health = row.health
        /\ row'.reauth = row.reauth /\ row'.cooldown = row.cooldown /\ row'.lease = c /\ row'.live
    BY <1>2, <1>3 DEF Row
  <2>2. Moves(c) /\ caller'[c].pc = "reloading" /\ SameCopy(caller[c], caller'[c])
    BY <1>2, <1>3, GotoStep DEF Labels
  <2>3. Fits(caller'[c], row', parent, issued, troubled)
    BY <1>1, <1>2, <2>1, <2>2 DEF Fits, SameCopy, Refusing, HasReply
  <2>4. interruptions = 0 /\ Undisturbed => Calm(c)
    <3>1. Undisturbed => row.lease \in {c, NoLease}
      BY <1>2, <1>3 DEF CanClaim, Undisturbed, Row
    <3> QED
      BY <1>1, <2>1, <2>2, <3>1, RefreshConstants DEF Calm, Undisturbed, Quiet, Fresh, Holding, HasReply
  <2>5. interruptions \in 0 .. MaxInterruptions /\ interruptions <= interruptions /\ troubled \subseteq Grant /\ replayed \in BOOLEAN
    BY <1>2, RefreshConstants DEF TypeOK
  <2> QED
    BY <1>1, <2>1, <2>2, <2>3, <2>4, <2>5, LocalStep DEF Quiet
<1>4. CASE UNCHANGED row /\ Goto(c, "loading")
  BY <1>1, <1>4, PlainStep DEF Unbound, Labels, Holding, HasReply, Refusing
<1> QED
  BY <1>3, <1>4 DEF Claim

LEMMA ReloadStep == ASSUME RefreshInv, NEW c \in Caller, Reload(c) PROVE RefreshInv'
<1>1. caller[c].pc = "reloading" /\ UNCHANGED row /\ Quiet
  BY DEF Reload
<1>2. caller[c] \in CallerState /\ row \in Row /\ TypeOK /\ Fits(caller[c], row, parent, issued, troubled)
  BY <1>1, QuietRow DEF RefreshInv, Basic, TypeOK
<1>3. CASE ~Exists /\ Goto(c, "failing")
  <2>1. Moves(c) /\ caller'[c].pc = "failing" /\ SameCopy(caller[c], caller'[c])
    BY <1>2, <1>3, GotoStep DEF Labels
  <2>2. Fits(caller'[c], row, parent, issued, troubled)
    BY <1>1, <1>2, <2>1 DEF Fits, SameCopy, Refusing, HasReply
  <2>3. ~Undisturbed
    BY <1>3 DEF Undisturbed
  <2> QED
    BY <1>1, <2>1, <2>2, <2>3, CopyStep DEF HasReply
<1>4. ASSUME Exists, NEW label \in {"asking", "succeeding"}, Become(c, Merged(c, label)) PROVE RefreshInv'
  <2>1. Moves(c) /\ caller'[c].pc = label /\ IsCopy(caller[c], caller'[c], row)
    BY <1>2, <1>4, MergeStep DEF Labels
  <2>2. Fits(caller'[c], row, parent, issued, troubled)
    BY <1>1, <1>2, <1>4, <2>1, CopyOfRowFits DEF Fits, Refusing, Exists
  <2>3. ASSUME Undisturbed
        PROVE  row.lease = c /\ Fresh(caller'[c], row, parent, issued = MaxGrant, Closed)
    <3>1. row.lease = c /\ \A d \in Caller : caller[d].pc \in HasReply => d = c
      BY <1>1, <2>3 DEF Undisturbed, Holding, HasReply
    <3>2. ~row.reauth => ~Spent(row.grant, parent)
      BY <1>1, <2>3, <3>1 DEF Undisturbed, HasReply
    <3> QED
      BY <2>1, <3>1, <3>2 DEF Fresh, IsCopy, HasReply
  <2> QED
    BY <1>1, <2>1, <2>2, <2>3, CopyStep DEF HasReply
<1> QED
  BY <1>3, <1>4 DEF Reload

LEMMA HeartbeatFailsStep == ASSUME RefreshInv, NEW c \in Caller, HeartbeatFails(c) PROVE RefreshInv'
<1>1. /\ caller[c].pc \in {"reloading", "asking", "answered", "refused", "failed"} /\ UNCHANGED row /\ Quiet
      /\ Goto(c, "failing") /\ (row.lease # c \/ ~row.live)
  BY DEF HeartbeatFails
<1>2. caller[c] \in CallerState /\ row \in Row /\ TypeOK /\ Fits(caller[c], row, parent, issued, troubled)
  BY <1>1, QuietRow DEF RefreshInv, Basic, TypeOK
<1>3. Moves(c) /\ caller'[c].pc = "failing" /\ SameCopy(caller[c], caller'[c])
  BY <1>1, <1>2, GotoStep DEF Labels
<1>4. Fits(caller'[c], row, parent, issued, troubled)
  BY <1>1, <1>2, <1>3 DEF Fits, SameCopy, Refusing, HasReply
<1>5. ~Undisturbed
  BY <1>1 DEF Undisturbed, Holding
<1> QED
  BY <1>1, <1>3, <1>4, <1>5, QuietRow, LocalStep DEF Quiet

\* A caller that fails to get an answer while no interruption is counted has met the bound
\* MaxGrant, and holds the lease.
LEMMA UnavailableStep == ASSUME RefreshInv, NEW c \in Caller, Unavailable(c) PROVE RefreshInv'
<1>1. caller[c].pc = "asking" /\ UNCHANGED <<row, provider, troubled, replayed>> /\ Goto(c, "failed")
  BY DEF Unavailable
<1>2. caller[c] \in CallerState /\ row \in Row /\ TypeOK /\ Fits(caller[c], row, parent, issued, troubled)
  BY <1>1, QuietRow DEF RefreshInv, Basic, TypeOK
<1>3. Moves(c) /\ caller'[c].pc = "failed" /\ SameCopy(caller[c], caller'[c])
  BY <1>1, <1>2, GotoStep DEF Labels
<1>4. Fits(caller'[c], row, parent, issued, troubled)
  BY <1>1, <1>2, <1>3 DEF Fits, SameCopy, Refusing, HasReply
<1>5. interruptions' \in 0 .. MaxInterruptions /\ interruptions <= interruptions'
      /\ (interruptions' = 0 => issued = MaxGrant)
  BY <1>2, RefreshConstants DEF Unavailable, TypeOK
<1>6. ASSUME interruptions' = 0, Undisturbed PROVE Calm(c)
  <2>1. row.lease = c
    BY <1>1, <1>6 DEF Undisturbed, Holding
  <2>2. Closed
    BY <1>1, <1>5, <1>6, <2>1 DEF Undisturbed, Closed, Holding, HasReply
  <2> QED
    BY <1>1, <1>3, <1>6, <2>1, <2>2 DEF Calm, Undisturbed, Fresh, HasReply
<1> QED
  BY <1>1, <1>3, <1>4, <1>5, <1>6, QuietRow, LocalStep

LEMMA RefusedStep == ASSUME RefreshInv, NEW c \in Caller, Refused(c) PROVE RefreshInv'
<1>1. /\ caller[c].pc = "asking" /\ caller[c].grant \notin accepted /\ UNCHANGED <<row, provider, interruptions>>
      /\ Become(c, [caller[c] EXCEPT !.pc = "refused", !.refused = TRUE])
      /\ replayed' = (replayed \/ (~caller[c].reauth /\ Spent(caller[c].grant, parent)))
      /\ troubled' = troubled \union {caller[c].grant}
  BY DEF Refused, Spent
<1>2. caller[c] \in CallerState /\ row \in Row /\ TypeOK /\ Fits(caller[c], row, parent, issued, troubled)
  BY <1>1, QuietRow DEF RefreshInv, Basic, TypeOK
<1> DEFINE s == [caller[c] EXCEPT !.pc = "refused", !.refused = TRUE]
<1>3. s \in CallerState /\ s.pc = "refused" /\ s.refused /\ s.credential = caller[c].credential
      /\ s.grant = caller[c].grant /\ s.recovery = caller[c].recovery
  BY <1>2 DEF CallerState
<1> HIDE DEF s
<1>4. Moves(c) /\ caller'[c] = s
  BY <1>1, <1>2, <1>3, Becomes DEF s
<1>5. Fits(caller'[c], row, parent, issued, troubled') /\ troubled' \subseteq Grant
  BY <1>1, <1>2, <1>3, <1>4 DEF Fits, Refusing, HasReply, TypeOK, CallerState
<1>6. ASSUME interruptions = 0, Undisturbed PROVE Calm(c)
  <2>1. row.lease = c /\ \A d \in Caller : caller[d].pc \notin HasReply
    BY <1>1, <1>6 DEF Undisturbed, Holding, HasReply
  <2>2. caller[c].reauth \/ ~Spent(caller[c].grant, parent)
    BY <1>1, <1>6 DEF Undisturbed, Fresh
  <2>3. ~Current(caller[c], row)
    <3>1. SUFFICES ASSUME Current(caller[c], row) PROVE FALSE
      OBVIOUS
    <3>2. caller[c].grant = row.grant
      BY <1>1, <1>2, <3>1 DEF Fits, Current
    <3>3. row.grant \in 1 .. issued
      BY <1>2, RefreshConstants DEF RefreshInv, Basic, InOrder, Row, Grant, TypeOK
    <3>4. Spent(row.grant, parent)
      BY <1>1, <1>6, <3>2, <3>3 DEF Undisturbed
    <3> QED
      BY <1>6, <2>1, <3>1, <3>4 DEF Undisturbed, Current
  <2>4. Fresh(s, row, parent, issued = MaxGrant, Closed)
    BY <1>3, <2>3 DEF Fresh, Current, HasReply
  <2> QED
    BY <1>1, <1>3, <1>4, <1>6, <2>1, <2>2, <2>4 DEF Calm, Undisturbed, HasReply
<1>7. replayed' \in BOOLEAN
  BY <1>1
<1> QED
  BY <1>1, <1>4, <1>5, <1>6, <1>7, QuietRow, LocalStep

LEMMA ReplyLostStep == ASSUME RefreshInv, NEW c \in Caller, ReplyLost(c) PROVE RefreshInv'
<1>1. /\ caller[c].pc = "answered" /\ UNCHANGED <<row, provider, troubled, replayed>>
      /\ Become(c, [caller[c] EXCEPT !.pc = "failed", !.reply = 0])
  BY DEF ReplyLost
<1>2. caller[c] \in CallerState /\ row \in Row /\ TypeOK /\ Fits(caller[c], row, parent, issued, troubled)
  BY <1>1, QuietRow DEF RefreshInv, Basic, TypeOK
<1> DEFINE s == [caller[c] EXCEPT !.pc = "failed", !.reply = 0]
<1>3. s \in CallerState /\ s.pc = "failed" /\ s.refused = caller[c].refused /\ s.credential = caller[c].credential
      /\ s.grant = caller[c].grant
  BY <1>2 DEF CallerState
<1> HIDE DEF s
<1>4. Moves(c) /\ caller'[c] = s
  BY <1>1, <1>2, <1>3, Becomes DEF s
<1>5. Fits(caller'[c], row, parent, issued, troubled)
  BY <1>1, <1>2, <1>3, <1>4 DEF Fits, Refusing, HasReply
<1>6. interruptions' \in 0 .. MaxInterruptions /\ interruptions <= interruptions' /\ interruptions' # 0
  BY <1>2, RefreshConstants DEF ReplyLost, TypeOK
<1> QED
  BY <1>1, <1>4, <1>5, <1>6, QuietRow, LocalStep

-----------------------------------------------------------------------------
(* Recording a failed refresh.                                             *)

LEMMA Steady ==
  ASSUME RefreshInv
  PROVE  /\ interruptions \in 0 .. MaxInterruptions /\ interruptions <= interruptions /\ troubled \subseteq troubled
         /\ troubled \subseteq Grant /\ replayed \in BOOLEAN
  BY RefreshConstants DEF RefreshInv, Basic, TypeOK

\* From one state of failure to the next one, with the row as it is.
LEMMA FailingOn ==
  ASSUME RefreshInv, NEW c \in Caller, NEW label \in {"condemning", "failing"}, Goto(c, label), UNCHANGED row, Quiet,
         caller[c].pc \in {"failed", "refused", "condemning"}, label = "condemning" => caller[c].refused
  PROVE  RefreshInv'
<1>1. TypeOK /\ Fits(caller[c], row, parent, issued, troubled)
  BY DEF RefreshInv, Basic
<1>2. Moves(c) /\ caller'[c].pc = label /\ SameCopy(caller[c], caller'[c])
  BY <1>1, GotoStep DEF Labels
<1>3. Fits(caller'[c], row, parent, issued, troubled)
  BY <1>1, <1>2 DEF Fits, SameCopy, Refusing, HasReply
<1>4. ASSUME Undisturbed
      PROVE  row.lease = c /\ Fresh(caller'[c], row, parent, issued = MaxGrant, Closed)
  BY <1>2, <1>4 DEF Undisturbed, Holding, Fresh, Current, SameCopy, HasReply
<1> QED
  BY <1>2, <1>3, <1>4, CopyStep DEF HasReply

\* The failure is written to the row and to the copy.
LEMMA FailingMarks ==
  ASSUME RefreshInv, NEW c \in Caller, NEW label \in {"rereading", "failing"}, NEW reauth \in BOOLEAN,
         row' = [row EXCEPT !.reauth = reauth, !.cooldown = TRUE, !.health = @ + 1],
         Become(c, [caller[c] EXCEPT !.pc = label, !.health = @ + 1]), Quiet, row.reauth => reauth,
         caller[c].pc \in {"failed", "refused", "condemning"}, row.credential = caller[c].credential
  PROVE  RefreshInv'
<1>1. TypeOK /\ row \in Row /\ caller[c] \in CallerState /\ Fits(caller[c], row, parent, issued, troubled)
  BY DEF RefreshInv, Basic, TypeOK
<1>2. HealthChange(row, row') /\ row'.reauth = reauth
  BY <1>1, MarkedRow
<1> DEFINE s == [caller[c] EXCEPT !.pc = label, !.health = @ + 1]
<1>3. s \in CallerState /\ s.pc = label /\ s.credential = caller[c].credential /\ s.grant = caller[c].grant
      /\ s.refused = caller[c].refused
  <2>1. caller[c].health + 1 \in Nat
    BY <1>1 DEF CallerState
  <2> QED
    BY <1>1, <2>1 DEF CallerState
<1> HIDE DEF s
<1>4. Moves(c) /\ caller'[c] = s
  BY <1>1, <1>3, Becomes DEF s
<1>5. Fits(caller'[c], row', parent, issued, troubled)
  BY <1>1, <1>2, <1>3, <1>4 DEF Fits, Refusing, HasReply, HealthChange
<1>6. ASSUME Undisturbed PROVE Calm(c)
  <2>1. row.lease = c
    BY <1>6 DEF Undisturbed, Holding
  <2>2. ~reauth => Closed
    BY <1>6 DEF Undisturbed, Fresh, Current
  <2>3. Fresh(s, row', parent, issued = MaxGrant, Closed)
    BY <1>2, <1>3, <2>2 DEF Fresh, Current, HasReply
  <2> QED
    BY <1>2, <1>3, <1>4, <1>6, <2>1, <2>2, <2>3 DEF Calm, Undisturbed, HasReply, HealthChange, Quiet
<1> QED
  BY <1>2, <1>4, <1>5, <1>6, Steady, LocalStep DEF Quiet, HealthChange

LEMMA RecordRefreshFailureStep == ASSUME RefreshInv, NEW c \in Caller, RecordRefreshFailure(c) PROVE RefreshInv'
<1>1. caller[c].pc \in {"refused", "failed"} /\ Quiet
  BY DEF RecordRefreshFailure
<1> DEFINE after == IF caller[c].refused THEN "condemning" ELSE "failing"
<1>2. CASE UNCHANGED row /\ Goto(c, "failing")
  BY <1>1, <1>2, FailingOn
<1>3. CASE UNCHANGED row /\ Goto(c, after)
  BY <1>1, <1>3, FailingOn
<1>4. ASSUME NEW reauth \in BOOLEAN, row.credential = caller[c].credential, row.reauth => reauth,
             row' = [row EXCEPT !.reauth = reauth, !.cooldown = TRUE, !.health = @ + 1],
             Become(c, [caller[c] EXCEPT !.pc = "rereading", !.health = @ + 1])
      PROVE  RefreshInv'
  BY <1>1, <1>4, FailingMarks
<1> QED
  BY <1>2, <1>3, <1>4 DEF RecordRefreshFailure

LEMMA CondemnStep == ASSUME RefreshInv, NEW c \in Caller, Condemn(c) PROVE RefreshInv'
<1>1. caller[c].pc = "condemning" /\ Quiet
  BY DEF Condemn
<1>2. CASE UNCHANGED row /\ Goto(c, "failing")
  BY <1>1, <1>2, FailingOn
<1>3. CASE /\ row.credential = caller[c].credential
           /\ row' = [row EXCEPT !.reauth = TRUE, !.cooldown = TRUE, !.health = @ + 1]
           /\ Become(c, [caller[c] EXCEPT !.pc = "failing", !.health = @ + 1])
  BY <1>1, <1>3, FailingMarks
<1> QED
  BY <1>2, <1>3 DEF Condemn

LEMMA RereadStep == ASSUME RefreshInv, NEW c \in Caller, Reread(c) PROVE RefreshInv'
<1>1. caller[c].pc = "rereading" /\ UNCHANGED row /\ Quiet
  BY DEF Reread
<1>2. TypeOK /\ row \in Row /\ caller[c] \in CallerState /\ Fits(caller[c], row, parent, issued, troubled)
  BY DEF RefreshInv, Basic, TypeOK
<1> DEFINE label == IF caller[c].refused THEN "condemning" ELSE "failing"
<1> DEFINE health == IF Exists THEN row.health ELSE caller[c].health
<1> DEFINE s == [caller[c] EXCEPT !.pc = label, !.health = health]
<1>3. Become(c, s)
  BY <1>2 DEF Reread, CallerState
<1>4. health \in Nat /\ label \in {"condemning", "failing"} /\ (label = "condemning" <=> caller[c].refused)
  BY <1>2 DEF CallerState, Row
<1> HIDE DEF label, health
<1>5. s \in CallerState /\ s.pc = label /\ s.credential = caller[c].credential /\ s.grant = caller[c].grant
      /\ s.refused = caller[c].refused
  BY <1>2, <1>4 DEF CallerState
<1> HIDE DEF s
<1>6. Moves(c) /\ caller'[c] = s
  BY <1>2, <1>3, <1>5, Becomes
<1>7. Fits(s, row, parent, issued, troubled)
  BY <1>1, <1>2, <1>4, <1>5 DEF Fits, Refusing, HasReply
<1>8. ASSUME Undisturbed PROVE row.lease = c /\ Fresh(s, row, parent, issued = MaxGrant, Closed)
  BY <1>1, <1>4, <1>5, <1>8 DEF Undisturbed, Holding, Fresh, Current, HasReply
<1> QED
  BY <1>1, <1>4, <1>5, <1>6, <1>7, <1>8, CopyStep DEF HasReply

-----------------------------------------------------------------------------
(* The answer of the provider.                                             *)

LEMMA RenewStep == ASSUME RefreshInv, NEW c \in Caller, Renew(c) PROVE RefreshInv'
<1>1. caller[c].pc = "answered" /\ UNCHANGED row /\ Quiet
  BY DEF Renew
<1>2. TypeOK /\ Fits(caller[c], row, parent, issued, troubled)
  BY DEF RefreshInv, Basic
<1>3. CASE row.lease = c /\ Goto(c, "writing")
  <2>1. Moves(c) /\ caller'[c].pc = "writing" /\ SameCopy(caller[c], caller'[c])
    BY <1>2, <1>3, GotoStep DEF Labels
  <2>2. Fits(caller'[c], row, parent, issued, troubled)
    BY <1>1, <1>2, <2>1 DEF Fits, SameCopy, Refusing, HasReply
  <2>3. Undisturbed => Calm(c)
    BY <1>1, <1>3, <2>1 DEF Calm, Undisturbed, Quiet, Fresh, Current, SameCopy, HasReply
  <2> QED
    BY <1>1, <2>1, <2>2, <2>3, QuietRow, LocalStep DEF Quiet
<1>4. CASE ~(row.lease = c /\ row.live) /\ Goto(c, "failing")
  <2>1. Moves(c) /\ caller'[c].pc = "failing" /\ SameCopy(caller[c], caller'[c])
    BY <1>2, <1>4, GotoStep DEF Labels
  <2>2. Fits(caller'[c], row, parent, issued, troubled)
    BY <1>1, <1>2, <2>1 DEF Fits, SameCopy, Refusing, HasReply
  <2>3. ~Undisturbed
    BY <1>1, <1>4 DEF Undisturbed, Holding
  <2> QED
    BY <1>1, <2>1, <2>2, <2>3, QuietRow, LocalStep DEF Quiet
<1> QED
  BY <1>3, <1>4 DEF Renew

\* The new tokens are dropped.
LEMMA WriteFails ==
  ASSUME RefreshInv, NEW c \in Caller, caller[c].pc = "writing", ~CanWrite(c), UNCHANGED row, Goto(c, "failing"), Quiet
  PROVE  RefreshInv'
<1>1. TypeOK /\ Fits(caller[c], row, parent, issued, troubled)
  BY DEF RefreshInv, Basic
<1>2. Moves(c) /\ caller'[c].pc = "failing" /\ SameCopy(caller[c], caller'[c])
  BY <1>1, GotoStep DEF Labels
<1>3. Fits(caller'[c], row, parent, issued, troubled)
  BY <1>1, <1>2 DEF Fits, SameCopy, Refusing, HasReply
<1>4. ASSUME Undisturbed PROVE Calm(c)
  <2>1. ~Current(caller[c], row)
    BY <1>4 DEF Undisturbed, Holding, HasReply, Fresh, Current, CanWrite
  <2>2. row.reauth \/ caller[c].grant # row.grant
    BY <1>1, <1>4, <2>1 DEF Current, Undisturbed, Exists, Fits
  <2> QED
    BY <1>2, <1>4, <2>1, <2>2 DEF Calm, Undisturbed, Quiet, Fresh, Current, SameCopy, Holding, HasReply
<1> QED
  BY <1>2, <1>3, <1>4, QuietRow, LocalStep DEF Quiet

\* The new tokens are stored.
LEMMA WriteSucceeds ==
  ASSUME RefreshInv, NEW c \in Caller, Write(c), CanWrite(c)
  PROVE  RefreshInv'
<1>1. /\ caller[c].pc = "writing" /\ row.lease = c /\ row.credential = caller[c].credential /\ ~row.reauth
      /\ UNCHANGED <<provider, troubled, replayed, interruptions>>
  BY DEF Write, CanWrite, Quiet
<1>2. /\ TypeOK /\ row \in Row /\ caller[c] \in CallerState /\ Fits(caller[c], row, parent, issued, troubled)
      /\ InOrder(row, parent, issued)
  BY DEF RefreshInv, Basic, TypeOK
<1> DEFINE health == IF caller[c].affectsHealth THEN row.health + 1 ELSE row.health
<1> DEFINE cooldown == row.cooldown /\ ~caller[c].affectsHealth
<1> DEFINE r == [row EXCEPT !.grant = caller[c].reply, !.expired = FALSE, !.credential = @ + 1, !.health = health,
                            !.cooldown = cooldown, !.lease = NoLease, !.live = FALSE]
<1> DEFINE s == [caller[c] EXCEPT !.pc = "succeeding", !.reply = 0, !.grant = caller[c].reply,
                                  !.expired = FALSE, !.credential = @ + 1, !.health = health]
<1>3. row' = r /\ Become(c, s)
  BY <1>2 DEF Write, Row
<1>4. caller[c].reply \in Grant /\ row.credential # 0 /\ row.credential + 1 \in Nat /\ health \in Nat /\ cooldown \in BOOLEAN
      /\ caller[c].grant = row.grant /\ row.grant < caller[c].reply /\ caller[c].reply <= issued
      /\ ~caller[c].refused
  BY <1>1, <1>2 DEF Fits, HasReply, Refusing, Row, CallerState
<1> HIDE DEF health, cooldown
<1>5. /\ r \in Row /\ r.grant = caller[c].reply /\ r.credential = row.credential + 1 /\ r.cooldown = cooldown
      /\ r.lease = NoLease /\ r.reauth = row.reauth
  BY <1>2, <1>4 DEF Row
<1>6. /\ s \in CallerState /\ s.pc = "succeeding" /\ s.grant = caller[c].reply /\ s.credential = row.credential + 1
      /\ ~s.refused
  BY <1>1, <1>2, <1>4 DEF CallerState
<1> HIDE DEF r, s
<1>7. Moves(c) /\ caller'[c] = s
  BY <1>2, <1>3, <1>6, Becomes
<1>8. row.grant \in Nat /\ issued \in Nat /\ caller[c].reply \in Nat /\ row.credential \in Nat
      /\ \A g \in Grant : parent[g] \in Nat /\ g \in Nat
  BY <1>2, <1>4, RefreshConstants DEF Row, Grant, TypeOK
<1>9. UNCHANGED <<accepted, issued, parent>> /\ caller' \in [Caller -> CallerState]
      /\ \A d \in Caller \ {c} : caller'[d] = caller[d]
  BY <1>1, <1>7 DEF provider, Moves
<1>10. Basic'
  <2>1. InOrder(r, parent, issued)
    BY <1>2, <1>4, <1>5, <1>8 DEF InOrder
  <2>2. Fits(s, r, parent, issued, troubled)
    BY <1>5, <1>6, <1>8 DEF Fits, HasReply, Refusing
  <2>3. Goes(row, r)
    BY <1>4, <1>5, <1>8 DEF Goes
  <2>4. issued <= issued
    BY <1>8
  <2> QED
    BY <1>1, <1>2, <1>3, <1>5, <1>7, <1>9, <2>1, <2>2, <2>3, <2>4, BasicStep DEF RefreshInv, TypeOK
<1>11. ASSUME interruptions = 0, Undisturbed PROVE Undisturbed'
  <2>1. Exists' /\ ~replayed' /\ row'.lease # DeadLease /\ row'.lease \notin Caller
    BY <1>1, <1>3, <1>5, <1>8, <1>11, RefreshConstants DEF Exists, Undisturbed
  <2>2. \A g \in 1 .. issued' : g \in accepted' \/ Spent(g, parent')
    BY <1>9, <1>11 DEF Undisturbed
  <2>3. ~Spent(row'.grant, parent')
    BY <1>2, <1>3, <1>4, <1>5, <1>8, <1>9 DEF Spent, InOrder
  <2>4. ~row'.cooldown
    BY <1>1, <1>3, <1>5, <1>11 DEF Undisturbed, Closed, HasReply, cooldown
  <2>5. ASSUME NEW d \in Caller PROVE caller'[d].pc \notin Holding
    <3>1. CASE d = c
      BY <1>6, <1>7, <3>1 DEF Holding
    <3>2. CASE d # c
      BY <1>1, <1>9, <1>11, <3>2 DEF Undisturbed
    <3> QED
      BY <3>1, <3>2
  <2>6. ASSUME NEW d \in Caller PROVE Fresh(caller'[d], row', parent', issued' = MaxGrant, Closed')
    <3>1. CASE d = c
      BY <1>6, <1>7, <3>1 DEF Fresh, HasReply
    <3>2. CASE caller'[d].pc \in {"new", "ended"}
      BY <3>2 DEF Fresh, HasReply
    <3>3. CASE d # c /\ caller'[d].pc \notin {"new", "ended"}
      <4>1. caller'[d] = caller[d] /\ caller[d] \in CallerState /\ Fits(caller[d], row, parent, issued, troubled)
        BY <1>2, <1>9, <3>3 DEF RefreshInv, Basic, TypeOK
      <4>2. caller[d].credential <= row.credential /\ caller[d].credential \in Nat
        BY <1>4, <3>3, <4>1 DEF Fits, CallerState
      <4>3. ~Current(caller'[d], row')
        BY <1>3, <1>5, <1>8, <4>1, <4>2 DEF Current
      <4> QED
        BY <2>5, <4>3 DEF Fresh, Holding, HasReply
    <3> QED
      BY <3>1, <3>2, <3>3
  <2> QED
    BY <2>1, <2>2, <2>3, <2>4, <2>5, <2>6 DEF Undisturbed
<1> QED
  BY <1>1, <1>10, <1>11 DEF RefreshInv

\* The provider answers: the caller's grant is used up, its successor is on its way.
LEMMA GrantedStep == ASSUME RefreshInv, NEW c \in Caller, Granted(c) PROVE RefreshInv'
<1> DEFINE next == issued + 1
<1>1. /\ caller[c].pc = "asking" /\ caller[c].grant \in accepted /\ issued < MaxGrant /\ issued' = next
      /\ accepted' = (accepted \ {caller[c].grant}) \union {next}
      /\ parent' = [parent EXCEPT ![next] = caller[c].grant]
      /\ Become(c, [caller[c] EXCEPT !.pc = "answered", !.reply = next])
      /\ UNCHANGED <<row, troubled, replayed, interruptions>>
  BY DEF Granted
<1>2. /\ TypeOK /\ row \in Row /\ caller[c] \in CallerState /\ Fits(caller[c], row, parent, issued, troubled)
      /\ InOrder(row, parent, issued)
  BY DEF RefreshInv, Basic, TypeOK
<1>3. /\ next \in Grant /\ issued \in Grant /\ issued \in Nat /\ next \in Nat /\ issued < next
      /\ row.grant \in Nat /\ caller[c].grant \in Grant /\ caller[c].grant \in Nat /\ caller[c].grant <= row.grant
      /\ \A g \in Grant : g \in Nat /\ g >= 1
  BY <1>1, <1>2, RefreshConstants DEF TypeOK, Row, CallerState, Grant, Fits
<1> DEFINE s == [caller[c] EXCEPT !.pc = "answered", !.reply = next]
<1>4. /\ s \in CallerState /\ s.pc = "answered" /\ s.reply = next /\ s.grant = caller[c].grant
      /\ s.credential = caller[c].credential /\ s.health = caller[c].health /\ s.refused = caller[c].refused
  BY <1>2, <1>3 DEF CallerState
<1> HIDE DEF s
<1>5. Moves(c) /\ caller'[c] = s
  BY <1>1, <1>2, <1>4, Becomes DEF s
<1>6. /\ parent' \in [Grant -> Grant \union {0}] /\ parent'[next] = caller[c].grant /\ parent[next] = 0
      /\ \A g \in Grant : g # next => parent'[g] = parent[g]
  BY <1>1, <1>2, <1>3 DEF TypeOK, InOrder
<1> HIDE DEF next
<1>7. Basic'
  <2>1. InOrder(row, parent', next)
    <3>1. row.grant <= next
      BY <1>2, <1>3 DEF InOrder
    <3>2. ASSUME NEW g \in Grant PROVE parent'[g] <= row.grant /\ parent'[g] < g /\ (g > next => parent'[g] = 0)
      <4>1. CASE g = next
        BY <1>2, <1>3, <1>6, <4>1 DEF InOrder
      <4>2. CASE g # next
        BY <1>2, <1>3, <1>6, <4>2 DEF InOrder
      <4> QED
        BY <4>1, <4>2
    <3> QED
      BY <3>1, <3>2 DEF InOrder
  <2>2. Fits(s, row, parent', next, troubled)
    <3>1. caller[c].grant < next
      BY <1>2, <1>3 DEF InOrder
    <3>2. next <= next
      BY <1>3
    <3> QED
      BY <1>1, <1>2, <1>3, <1>4, <1>6, <3>1, <3>2 DEF Fits, HasReply, Refusing
  <2>3. Goes(row, row)
    BY DEF Goes
  <2>4. accepted' \subseteq Grant /\ issued <= next
    BY <1>1, <1>2, <1>3 DEF TypeOK
  <2>5. \A g \in Grant : g <= issued => parent'[g] = parent[g]
    BY <1>3, <1>6
  <2> QED
    BY <1>1, <1>2, <1>3, <1>5, <1>6, <2>1, <2>2, <2>3, <2>4, <2>5, BasicStep DEF RefreshInv, TypeOK
<1>8. ASSUME interruptions = 0, Undisturbed PROVE Undisturbed'
  <2>1. row.lease = c /\ \A d \in Caller : caller[d].pc \in Holding => d = c
    BY <1>1, <1>8 DEF Undisturbed, Holding
  <2>2. ~Closed /\ issued # MaxGrant /\ caller' \in [Caller -> CallerState] /\ \A d \in Caller \ {c} : caller'[d] = caller[d]
    BY <1>1, <1>3, <1>5, RefreshConstants DEF Closed, Moves
  <2>3. Exists' /\ ~replayed' /\ row'.lease # DeadLease /\ (row'.lease \in Caller => row'.live)
    BY <1>1, <1>8 DEF Exists, Undisturbed
  <2>4. \A g : g # 0 /\ Spent(g, parent) => Spent(g, parent')
    BY <1>6 DEF Spent
  <2>5. ASSUME NEW g \in 1 .. issued' PROVE g \in accepted' \/ Spent(g, parent')
    <3>1. CASE g = next
      BY <1>1, <3>1
    <3>2. CASE g = caller[c].grant
      BY <1>3, <1>6, <3>2 DEF Spent
    <3>3. CASE g # next /\ g # caller[c].grant
      <4>1. g \in 1 .. issued /\ g # 0
        BY <1>1, <1>3, <2>5, <3>3 DEF next
      <4> QED
        BY <1>1, <1>8, <2>4, <3>3, <4>1 DEF Undisturbed
    <3> QED
      BY <3>1, <3>2, <3>3
  <2>6. ASSUME ~row'.reauth, Spent(row'.grant, parent')
        PROVE  \E d \in Caller : caller'[d].pc \in HasReply /\ caller'[d].grant = row'.grant
    <3>1. PICK h \in Grant : parent'[h] = row.grant
      BY <1>1, <2>6 DEF Spent
    <3>2. CASE h = next
      BY <1>1, <1>4, <1>5, <1>6, <3>1, <3>2 DEF HasReply
    <3>3. CASE h # next
      <4>1. Spent(row.grant, parent)
        BY <1>6, <3>1, <3>3 DEF Spent
      <4>2. PICK d \in Caller : caller[d].pc \in HasReply
        BY <1>1, <1>8, <2>6, <4>1 DEF Undisturbed
      <4>3. FALSE
        BY <1>1, <2>1, <4>2 DEF HasReply, Holding
      <4> QED
        BY <4>3
    <3> QED
      BY <3>2, <3>3
  <2>7. ~(row'.cooldown /\ ~row'.reauth)
    BY <1>1, <1>8, <2>2 DEF Undisturbed
  <2>8. ASSUME NEW d \in Caller PROVE caller'[d].pc \in Holding => row'.lease = d
    BY <1>1, <2>1, <2>2
  <2>9. ASSUME NEW d \in Caller PROVE Fresh(caller'[d], row', parent', issued' = MaxGrant, Closed')
    <3>1. CASE d = c
      BY <1>1, <1>4, <1>5, <1>8, <2>2, <3>1 DEF Undisturbed, Fresh, Current, HasReply
    <3>2. CASE d # c
      <4>1. caller'[d] = caller[d] /\ caller[d].pc \notin Holding
        BY <2>1, <2>2, <3>2
      <4> QED
        BY <1>1, <1>8, <2>2, <4>1 DEF Undisturbed, Fresh, Holding, HasReply
    <3> QED
      BY <3>1, <3>2
  <2> QED
    BY <2>3, <2>5, <2>6, <2>7, <2>8, <2>9 DEF Undisturbed
<1> QED
  BY <1>1, <1>7, <1>8 DEF RefreshInv

-----------------------------------------------------------------------------
(* The end of a refresh.                                                   *)

LEMMA SucceedStep ==
  ASSUME TypeOK, NEW c \in Caller, Succeed(c), caller[c].pc = "succeeding", NEW t, Fits(caller[c], row, parent, issued, t)
  PROVE  Moves(c) /\ caller'[c].pc \in {"picked", "using"} /\ Fits(caller'[c], row, parent, issued, t)
<1>1. caller[c] \in CallerState
  BY DEF TypeOK
<1>2. CASE Become(c, [caller[c] EXCEPT !.pc = "picked", !.recovery = "done"])
  <2> DEFINE s == [caller[c] EXCEPT !.pc = "picked", !.recovery = "done"]
  <2>1. /\ s \in CallerState /\ s.pc = "picked" /\ s.recovery = "done" /\ s.credential = caller[c].credential
        /\ s.grant = caller[c].grant /\ s.refused = caller[c].refused
    BY <1>1 DEF CallerState
  <2> HIDE DEF s
  <2>2. Moves(c) /\ caller'[c] = s
    BY <1>2, <2>1, Becomes DEF s
  <2> QED
    BY <2>1, <2>2 DEF Fits, HasReply, Refusing
<1>3. CASE Goto(c, "using")
  <2>1. Moves(c) /\ caller'[c].pc = "using" /\ SameCopy(caller[c], caller'[c])
    BY <1>3, GotoStep DEF Labels
  <2> QED
    BY <2>1 DEF Fits, SameCopy, HasReply, Refusing
<1> QED
  BY <1>2, <1>3 DEF Succeed

LEMMA ReturnStep == ASSUME RefreshInv, NEW c \in Caller, Return(c) PROVE RefreshInv'
<1>1. caller[c].pc \in {"succeeding", "failing"} /\ UNCHANGED <<provider, replayed, interruptions>>
  BY DEF Return
<1>2. TypeOK /\ row \in Row /\ caller[c] \in CallerState /\ Fits(caller[c], row, parent, issued, troubled)
  BY DEF RefreshInv, Basic, TypeOK
<1>3. /\ row' \in Row /\ row'.credential = row.credential /\ row'.grant = row.grant /\ row'.health = row.health
      /\ row'.reauth = row.reauth /\ row'.cooldown = row.cooldown
      /\ (row'.lease = row.lease /\ row'.live = row.live) \/ (row.lease = c /\ row'.lease = NoLease)
  BY <1>2 DEF Return, Row
<1>4. /\ troubled \subseteq troubled' /\ troubled' \subseteq Grant
      /\ Moves(c) /\ caller'[c].pc \in {"picked", "using", "ended", "condemned", "faulted"}
      /\ Fits(caller'[c], row, parent, issued, troubled')
      /\ caller'[c].pc = "faulted" => caller[c].pc = "failing" /\ SameCopy(caller[c], caller'[c])
  <2>1. CASE caller[c].pc = "succeeding"
    <3>1. Succeed(c) /\ troubled' = troubled
      BY <2>1 DEF Return
    <3> QED
      BY <1>2, <2>1, <3>1, SucceedStep DEF TypeOK
  <2>2. CASE caller[c].pc = "failing"
    <3>1. Fail(c) /\ troubled' = troubled \union {caller[c].grant}
      BY <2>2 DEF Return
    <3>2. Fits(caller[c], row, parent, issued, troubled') /\ caller[c].grant \in troubled'
      BY <1>2, <3>1 DEF Fits
    <3>3. /\ Moves(c) /\ caller'[c].pc \in {"ended", "condemned", "faulted"} /\ Fits(caller'[c], row, parent, issued, troubled')
          /\ caller'[c].pc # "ended" => SameCopy(caller[c], caller'[c])
      BY <1>2, <2>2, <3>1, <3>2, FailStep
    <3> QED
      BY <1>2, <2>2, <3>1, <3>3 DEF TypeOK, CallerState
  <2> QED
    BY <1>1, <2>1, <2>2
<1>5. Fits(caller'[c], row', parent, issued, troubled')
  BY <1>3, <1>4 DEF Fits
<1>6. ASSUME Undisturbed PROVE Calm(c)
  <2>1. Fresh(caller'[c], row', parent, issued = MaxGrant, Closed)
    BY <1>3, <1>4, <1>6 DEF Undisturbed, Fresh, Current, SameCopy, HasReply
  <2>2. row'.lease # DeadLease /\ (row'.lease \in Caller => row'.live) /\ (row'.lease = row.lease \/ row.lease \in {c, NoLease})
    BY <1>3, <1>6, RefreshConstants DEF Undisturbed
  <2> QED
    BY <1>1, <1>3, <1>4, <1>6, <2>1, <2>2 DEF Calm, Undisturbed, Holding, HasReply
<1> QED
  BY <1>1, <1>3, <1>4, <1>5, <1>6, Steady, LocalStep

LEMMA CrashStep == ASSUME RefreshInv, NEW c \in Caller, Crash(c) PROVE RefreshInv'
<1>1. /\ End(c) /\ interruptions < MaxInterruptions /\ interruptions' = interruptions + 1
      /\ UNCHANGED <<provider, troubled, replayed>>
  BY DEF Crash
<1>2. TypeOK /\ row \in Row
  BY DEF RefreshInv, Basic, TypeOK
<1>3. row' \in Row /\ row'.credential = row.credential /\ row'.grant = row.grant
  BY <1>2 DEF Crash, Row
<1>4. Moves(c) /\ Fits(caller'[c], row', parent, issued, troubled)
  BY <1>1, <1>2, <1>3, EndStep, EndedFits
<1>5. interruptions' \in 0 .. MaxInterruptions /\ interruptions <= interruptions' /\ interruptions' # 0
  BY <1>1, <1>2, RefreshConstants DEF TypeOK
<1> QED
  BY <1>1, <1>3, <1>4, <1>5, Steady, LocalStep

-----------------------------------------------------------------------------
(* The rest of the service, the provider, and time.                        *)

LEMMA OtherBasic ==
  ASSUME Basic, UNCHANGED <<caller, parent, troubled, replayed>>, row' \in Row, Goes(row, row'),
         accepted' \subseteq Grant, issued' \in Grant, issued <= issued', InOrder(row', parent, issued'),
         interruptions' \in 0 .. MaxInterruptions
  PROVE  Basic'
<1>1. TypeOK'
  BY DEF Basic, TypeOK
<1>2. \A c \in Caller : Fits(caller[c], row', parent, issued', troubled)
  <2>1. troubled \subseteq troubled /\ \A g \in Grant : g <= issued => parent[g] = parent[g]
    OBVIOUS
  <2> QED
    BY <2>1, FitsStays DEF Basic, TypeOK
<1> QED
  BY <1>1, <1>2 DEF Basic

\* The row's credential stays; an interruption, or only an expiry or the end of a cooldown.
LEMMA TimeStep ==
  ASSUME RefreshInv, UNCHANGED <<caller, issued, parent, troubled, replayed>>, row' \in Row, Goes(row, row'),
         row'.grant = row.grant, accepted' \subseteq Grant,
         \/ interruptions < MaxInterruptions /\ interruptions' = interruptions + 1
         \/ /\ UNCHANGED <<accepted, interruptions>> /\ row'.credential = row.credential /\ row'.health = row.health
            /\ row'.reauth = row.reauth /\ (row'.cooldown => row.cooldown) /\ row'.lease = row.lease /\ row'.live = row.live
         \/ row.lease = DeadLease /\ UNCHANGED interruptions
  PROVE  RefreshInv'
<1>1. Basic'
  <2>1. interruptions' \in 0 .. MaxInterruptions /\ issued' \in Grant /\ issued <= issued' /\ InOrder(row', parent, issued')
    BY RefreshConstants DEF RefreshInv, Basic, TypeOK, InOrder, Grant
  <2> QED
    BY <2>1, OtherBasic DEF RefreshInv
<1>2. CASE interruptions < MaxInterruptions /\ interruptions' = interruptions + 1
  <2>1. interruptions' # 0
    BY <1>2, RefreshConstants DEF RefreshInv, Basic, TypeOK
  <2> QED
    BY <1>1, <2>1 DEF RefreshInv
<1>3. CASE /\ UNCHANGED <<accepted, interruptions>> /\ row'.credential = row.credential /\ row'.health = row.health
           /\ row'.reauth = row.reauth /\ (row'.cooldown => row.cooldown) /\ row'.lease = row.lease /\ row'.live = row.live
  <2>1. Undisturbed => Undisturbed'
    <3>1. Closed' <=> Closed
      BY DEF Closed
    <3>2. ASSUME Undisturbed, NEW c \in Caller
          PROVE  Fresh(caller'[c], row', parent', issued' = MaxGrant, Closed')
      BY <1>3, <3>1, <3>2 DEF Undisturbed, Fresh, Current
    <3> QED
      BY <1>3, <3>1, <3>2 DEF Undisturbed, Exists
  <2> QED
    BY <1>1, <1>3, <2>1 DEF RefreshInv
<1>4. CASE row.lease = DeadLease /\ UNCHANGED interruptions
  BY <1>1, <1>4 DEF RefreshInv, Undisturbed
<1> QED
  BY <1>2, <1>3, <1>4

LEMMA EnvironmentStep ==
  ASSUME RefreshInv, TokenExpires \/ CooldownEnds \/ DeadLeaseExpires \/ LeaseExpires \/ HealthRecorded \/ Delete \/ Revoke
  PROVE  RefreshInv'
<1>1. TypeOK /\ row \in Row
  BY DEF RefreshInv, Basic, TypeOK
<1>2. UNCHANGED <<caller, issued, parent, troubled, replayed>> /\ accepted' \subseteq Grant
  BY <1>1 DEF TokenExpires, CooldownEnds, DeadLeaseExpires, LeaseExpires, HealthRecorded, Delete, Revoke, Quiet, provider, TypeOK
<1>3. CASE TokenExpires
  <2>1. /\ row' \in Row /\ row'.credential = row.credential /\ row'.grant = row.grant /\ row'.health = row.health
        /\ row'.reauth = row.reauth /\ row'.cooldown = row.cooldown /\ row'.lease = row.lease /\ row'.live = row.live
    BY <1>1, <1>3 DEF TokenExpires, Row
  <2> QED
    BY <1>2, <1>3, <2>1, TimeStep DEF TokenExpires, Quiet, provider, Goes
<1>4. CASE CooldownEnds
  <2>1. /\ row' \in Row /\ row'.credential = row.credential /\ row'.grant = row.grant /\ row'.health = row.health
        /\ row'.reauth = row.reauth /\ ~row'.cooldown /\ row'.lease = row.lease /\ row'.live = row.live
    BY <1>1, <1>4 DEF CooldownEnds, Row
  <2> QED
    BY <1>2, <1>4, <2>1, TimeStep DEF CooldownEnds, Quiet, provider, Goes
<1>5. CASE DeadLeaseExpires
  <2>1. row' \in Row /\ row'.credential = row.credential /\ row'.grant = row.grant
    BY <1>1, <1>5 DEF DeadLeaseExpires, Row
  <2> QED
    BY <1>2, <1>5, <2>1, TimeStep DEF DeadLeaseExpires, Quiet, Goes
<1>6. CASE LeaseExpires
  <2>1. row' \in Row /\ row'.credential = row.credential /\ row'.grant = row.grant
    BY <1>1, <1>6 DEF LeaseExpires, Row
  <2> QED
    BY <1>2, <1>6, <2>1, TimeStep DEF LeaseExpires, Goes
<1>7. CASE HealthRecorded
  <2>1. row' \in Row /\ row'.credential = row.credential /\ row'.grant = row.grant
    <3>1. row.health + 1 \in Nat
      BY <1>1 DEF Row
    <3> QED
      BY <1>1, <1>7, <3>1 DEF HealthRecorded, Row
  <2> QED
    BY <1>2, <1>7, <2>1, TimeStep DEF HealthRecorded, Goes
<1>8. CASE Delete
  <2>1. row' \in Row /\ row'.credential = 0 /\ row'.grant = row.grant
    BY <1>1, <1>8 DEF Delete, Row
  <2> QED
    BY <1>2, <1>8, <2>1, TimeStep DEF Delete, Goes
<1>9. CASE Revoke
  BY <1>1, <1>2, <1>9, TimeStep DEF Revoke, Goes
<1> QED
  BY <1>3, <1>4, <1>5, <1>6, <1>7, <1>8, <1>9

LEMMA LoginStep == ASSUME RefreshInv, Login PROVE RefreshInv'
<1>1. /\ Exists /\ issued < MaxGrant /\ issued' = issued + 1 /\ accepted' = accepted \union {issued + 1}
      /\ UNCHANGED <<caller, parent, troubled, replayed, interruptions>>
  BY DEF Login
<1>2. TypeOK /\ row \in Row /\ InOrder(row, parent, issued)
  BY DEF RefreshInv, Basic, TypeOK
<1>3. /\ issued + 1 \in Grant /\ issued \in Nat /\ row.grant \in Nat /\ row.credential \in Nat
      /\ row.credential + 1 \in Nat /\ \A g \in Grant : g \in Nat /\ parent[g] \in Nat
  BY <1>1, <1>2, RefreshConstants DEF TypeOK, Row, Grant
<1>4. /\ row' \in Row /\ row'.credential = row.credential + 1 /\ row'.grant = issued + 1 /\ ~row'.cooldown
      /\ row'.lease = row.lease /\ row'.live = row.live
  BY <1>2, <1>3 DEF Login, Row
<1>5. Basic'
  <2>1. Goes(row, row')
    BY <1>1, <1>2, <1>3, <1>4 DEF Goes, Exists, InOrder
  <2>2. InOrder(row', parent, issued')
    BY <1>1, <1>2, <1>3, <1>4 DEF InOrder
  <2>3. issued' \in Grant /\ issued <= issued' /\ accepted' \subseteq Grant
    BY <1>1, <1>2, <1>3 DEF TypeOK
  <2> QED
    BY <1>1, <1>2, <1>4, <2>1, <2>2, <2>3, OtherBasic DEF RefreshInv, TypeOK
<1>6. ASSUME Undisturbed PROVE Undisturbed'
  <2>1. Exists' /\ ~replayed' /\ row'.lease # DeadLease /\ (row'.lease \in Caller => row'.live)
    BY <1>1, <1>3, <1>4, <1>6 DEF Undisturbed, Exists
  <2>2. \A g \in 1 .. issued' : g \in accepted' \/ Spent(g, parent')
    <3>1. \A g \in 1 .. issued' : g = issued + 1 \/ g \in 1 .. issued
      BY <1>1, <1>3
    <3> QED
      BY <1>1, <1>6, <3>1 DEF Undisturbed
  <2>3. ~Spent(row'.grant, parent')
    BY <1>1, <1>2, <1>3, <1>4 DEF Spent, InOrder
  <2>4. \A c \in Caller : caller'[c].pc \in Holding => row'.lease = c
    BY <1>1, <1>4, <1>6 DEF Undisturbed
  <2>5. ASSUME NEW c \in Caller PROVE Fresh(caller'[c], row', parent', issued' = MaxGrant, Closed')
    <3>1. CASE caller[c].pc \in {"new", "ended"}
      BY <1>1, <3>1 DEF Fresh, HasReply
    <3>2. CASE caller[c].pc \notin {"new", "ended"}
      <4>1. caller[c].credential <= row.credential /\ caller[c].credential \in Nat
        BY <1>1, <1>2, <3>2 DEF RefreshInv, Basic, Fits, Exists, TypeOK, CallerState
      <4>2. ~Current(caller[c], row')
        BY <1>3, <1>4, <4>1 DEF Current
      <4> QED
        BY <1>1, <1>6, <4>2 DEF Undisturbed, Fresh
    <3> QED
      BY <3>1, <3>2
  <2> QED
    BY <1>4, <2>1, <2>2, <2>3, <2>4, <2>5 DEF Undisturbed
<1> QED
  BY <1>1, <1>5, <1>6 DEF RefreshInv

-----------------------------------------------------------------------------

LEMMA CallerStep ==
  ASSUME RefreshInv, NEW c \in Caller, Pick(c) \/ Step(c) \/ ReplyLost(c) \/ Crash(c)
  PROVE  RefreshInv'
<1>1. Write(c) => RefreshInv'
  <2>1. Write(c) /\ ~CanWrite(c) => caller[c].pc = "writing" /\ UNCHANGED row /\ Goto(c, "failing") /\ Quiet
    BY DEF Write
  <2> QED
    BY <2>1, WriteFails, WriteSucceeds
<1> QED
  BY <1>1, PickStep, EnsureUsableStep, AcceptedStep, NeedsRefreshStep, UnauthorizedStep, ExpireStep, CondemnedStep, FaultedStep,
    LockStep, LoadStep, ClaimStep, ReloadStep, HeartbeatFailsStep, GrantedStep, RefusedStep, UnavailableStep, ReplyLostStep,
    RecordRefreshFailureStep, RereadStep, CondemnStep, RenewStep, ReturnStep, CrashStep DEF Step

LEMMA RefreshAlways == Spec => []RefreshInv
<1>1. Init => RefreshInv
  <2>1. SUFFICES ASSUME Init PROVE RefreshInv
    OBVIOUS
  <2>2. 1 \in Grant /\ \A g \in Grant : g \in Nat /\ g >= 1
    BY RefreshConstants DEF Grant
  <2>3. /\ row \in Row /\ row.credential = 1 /\ row.grant = 1 /\ row.lease = NoLease /\ ~row.reauth /\ ~row.cooldown
    BY <2>1, <2>2 DEF Init, Row
  <2>4. NewCaller \in CallerState /\ NewCaller.pc = "new" /\ NewCaller.grant = 1 /\ ~NewCaller.refused
        /\ NewCaller.recovery = "none"
    BY <2>2 DEF NewCaller, CallerState
  <2>5. caller \in [Caller -> CallerState] /\ \A c \in Caller : caller[c] = NewCaller
    BY <2>1, <2>4 DEF Init
  <2>6. TypeOK
    <3>1. accepted \subseteq Grant /\ issued \in Grant /\ troubled \subseteq Grant /\ replayed \in BOOLEAN
      BY <2>1, <2>2 DEF Init
    <3>2. parent \in [Grant -> Grant \union {0}]
      BY <2>1 DEF Init
    <3>3. interruptions \in 0 .. MaxInterruptions
      BY <2>1, RefreshConstants DEF Init
    <3> QED
      BY <2>3, <2>5, <3>1, <3>2, <3>3 DEF TypeOK
  <2>7. InOrder(row, parent, issued)
    BY <2>1, <2>2, <2>3 DEF Init, InOrder
  <2>8. \A c \in Caller : Fits(caller[c], row, parent, issued, troubled)
    <3>1. SUFFICES ASSUME NEW c \in Caller PROVE Fits(caller[c], row, parent, issued, troubled)
      OBVIOUS
    <3>2. caller[c].pc = "new" /\ caller[c].grant <= row.grant /\ ~caller[c].refused /\ caller[c].recovery = "none"
      <4>1. caller[c].grant = 1 /\ row.grant = 1
        BY <2>3, <2>4, <2>5
      <4>2. caller[c].grant <= row.grant
        BY <4>1
      <4> QED
        BY <2>4, <2>5, <4>2
    <3> QED
      BY <3>2 DEF Fits, HasReply, Refusing
  <2>9. Undisturbed
    <3>1. \A g \in 1 .. issued : g \in accepted
      BY <2>1 DEF Init
    <3>2. ~Spent(row.grant, parent)
      BY <2>1, <2>3 DEF Init, Spent
    <3> QED
      BY <2>1, <2>3, <2>4, <2>5, <3>1, <3>2, RefreshConstants
      DEF Init, Undisturbed, Exists, Fresh, Holding, HasReply
  <2> QED
    BY <2>6, <2>7, <2>8, <2>9 DEF RefreshInv, Basic
<1>2. RefreshInv /\ UNCHANGED vars => RefreshInv'
  BY DEF vars, provider, RefreshInv, Basic, TypeOK, Undisturbed, Exists, Closed
<1>3. RefreshInv /\ [Next]_vars => RefreshInv'
  BY <1>2, CallerStep, EnvironmentStep, LoginStep DEF Next
<1> QED
  BY <1>1, <1>3, PTL DEF Spec

\* Type correctness, the health and credential revisions among others.
THEOREM TypeCorrect == Spec => []TypeOK
<1>1. RefreshInv => TypeOK
  BY DEF RefreshInv, Basic
<1> QED
  BY <1>1, RefreshAlways, PTL

\* A refresh token is spent at most once, as long as nothing interrupts a refresh and no login
\* was required when the refresher loaded the account (refreshStoredOAuthAccount loads the row
\* again under the lease).
THEOREM TokensSpentOnce == Spec => []SpentOnce
<1>1. RefreshInv => SpentOnce
  <2>1. SUFFICES ASSUME RefreshInv, replayed PROVE interruptions > 0
    BY DEF SpentOnce
  <2>2. interruptions # 0 /\ interruptions \in 0 .. MaxInterruptions
    BY <2>1 DEF RefreshInv, Undisturbed, Basic, TypeOK
  <2> QED
    BY <2>2, RefreshConstants
<1> QED
  BY <1>1, RefreshAlways, PTL

\* The refresh token in the row can still be used, or its successor is about to be written, or
\* the account waits for a login: an uninterrupted refresh stores what it got.
THEOREM StoredTokenStaysUsable == Spec => []StoredTokenUsable
<1>1. RefreshInv => StoredTokenUsable
  <2>1. SUFFICES ASSUME RefreshInv, interruptions = 0, ~row.reauth, Spent(row.grant, parent)
                 PROVE  \E c \in Caller : /\ caller[c].pc \in HasReply
                                          /\ caller[c].reply \in Grant /\ parent[caller[c].reply] = row.grant
    BY DEF StoredTokenUsable, Spent, HasReply
  <2>2. PICK c \in Caller : caller[c].pc \in HasReply /\ caller[c].grant = row.grant
    BY <2>1 DEF RefreshInv, Undisturbed
  <2> QED
    BY <2>1, <2>2 DEF RefreshInv, Basic, Fits
<1> QED
  BY <1>1, RefreshAlways, PTL

\* Tokens are only ever replaced by those of a login, or by those obtained with the very
\* refresh token they replace, whatever crashes, stalls and lost replies come in between.
THEOREM TokensOnlySucceedTheirParent == Spec => TokensSucceedTheirParent
<1> DEFINE Succeeds == row'.grant # row.grant => parent'[row'.grant] \in {0, row.grant}
<1>1. ASSUME RefreshInv, [Next]_vars, row'.grant # row.grant PROVE parent'[row'.grant] \in {0, row.grant}
  <2>1. row \in Row /\ InOrder(row, parent, issued) /\ TypeOK
    BY <1>1 DEF RefreshInv, Basic, TypeOK
  <2>2. CASE Login
    <3>1. row'.grant = issued + 1 /\ parent' = parent /\ issued + 1 \in Grant /\ issued + 1 > issued
      BY <2>1, <2>2, RefreshConstants DEF Login, Row, TypeOK, Grant
    <3> QED
      BY <2>1, <3>1 DEF InOrder
  <2>3. ASSUME NEW c \in Caller, Write(c) PROVE parent'[row'.grant] \in {0, row.grant}
    <3>1. CanWrite(c)
      BY <1>1, <2>3 DEF Write
    <3>2. row'.grant = caller[c].reply /\ parent' = parent
      BY <2>1, <2>3, <3>1 DEF Write, Quiet, provider, Row
    <3>3. parent[caller[c].reply] = caller[c].grant /\ caller[c].grant = row.grant
      BY <1>1, <2>3, <3>1 DEF RefreshInv, Basic, Fits, Write, CanWrite, HasReply
    <3> QED
      BY <3>2, <3>3
  <2>4. ASSUME NEW c \in Caller, Pick(c) \/ Step(c) \/ ReplyLost(c) \/ Crash(c), ~Write(c) PROVE row'.grant = row.grant
    BY <2>1, <2>4 DEF Row, Step, Pick, EnsureUsable, Accepted, NeedsRefresh, Unauthorized, Expire, Condemned, Faulted, Lock, Load,
      Claim, Reload, HeartbeatFails, Granted, Refused, Unavailable, RecordRefreshFailure, Reread, Condemn, Renew, Return,
      ReplyLost, Crash
  <2>5. (TokenExpires \/ CooldownEnds \/ DeadLeaseExpires \/ LeaseExpires \/ HealthRecorded \/ Delete \/ Revoke \/ UNCHANGED vars)
          => row'.grant = row.grant
    BY <2>1 DEF Row, TokenExpires, CooldownEnds, DeadLeaseExpires, LeaseExpires, HealthRecorded, Delete, Revoke, vars
  <2> QED
    BY <1>1, <2>2, <2>3, <2>4, <2>5 DEF Next
<1>2. RefreshInv /\ [Next]_vars => [Succeeds]_vars
  BY <1>1
<1>3. TokensSucceedTheirParent <=> [][Succeeds]_vars
  BY PTL DEF TokensSucceedTheirParent
<1> HIDE DEF Succeeds
<1> QED
  BY <1>2, <1>3, RefreshAlways, PTL DEF Spec

\* The account is only sent back to the login for what befell the tokens it holds, never for
\* what befell those a login or a refresh has replaced.
THEOREM LoginOnlyForTheseTokens == Spec => LoginAskedForTheseTokens
<1> DEFINE ForThese == row'.reauth /\ ~row.reauth => row.grant \in troubled'
<1>1. ASSUME RefreshInv, [Next]_vars, row'.reauth, ~row.reauth PROVE row.grant \in troubled'
  <2>1. row \in Row /\ TypeOK /\ \A c \in Caller : Fits(caller[c], row, parent, issued, troubled)
    BY <1>1 DEF RefreshInv, Basic, TypeOK
  <2>2. ASSUME NEW c \in Caller, Condemned(c) \/ RecordRefreshFailure(c) \/ Condemn(c) PROVE row.grant \in troubled'
    <3>1. row.credential = caller[c].credential /\ troubled' = troubled
      BY <1>1, <2>1, <2>2 DEF Condemned, RecordRefreshFailure, Condemn, Quiet, Row
    <3>2. caller[c].pc = "condemned" \/ caller[c].refused
      BY <1>1, <2>1, <2>2 DEF Condemned, RecordRefreshFailure, Condemn, Fits, Row
    <3>3. caller[c].pc \notin {"new", "ended"}
      BY <2>2 DEF Condemned, RecordRefreshFailure, Condemn
    <3> QED
      BY <2>1, <3>1, <3>2, <3>3 DEF Fits
  <2>3. ASSUME NEW c \in Caller, Pick(c) \/ Step(c) \/ ReplyLost(c) \/ Crash(c),
               ~Condemned(c), ~RecordRefreshFailure(c), ~Condemn(c)
        PROVE  row'.reauth = row.reauth
    <3>1. Write(c) => row'.reauth = row.reauth
      BY <2>1 DEF Write, Row
    <3> QED
      BY <2>1, <2>3, <3>1 DEF Row, Step, Pick, EnsureUsable, Accepted, NeedsRefresh, Unauthorized, Expire, Faulted, Lock, Load,
        Claim, Reload, HeartbeatFails, Granted, Refused, Unavailable, Reread, Renew, Return, ReplyLost, Crash
  <2>4. (TokenExpires \/ CooldownEnds \/ DeadLeaseExpires \/ LeaseExpires \/ HealthRecorded \/ Delete \/ Revoke \/ Login
           \/ UNCHANGED vars)
          => ~row'.reauth
    BY <1>1, <2>1 DEF Row, TokenExpires, CooldownEnds, DeadLeaseExpires, LeaseExpires, HealthRecorded, Delete, Revoke, Login, vars
  <2> QED
    BY <1>1, <2>2, <2>3, <2>4 DEF Next
<1>2. RefreshInv /\ [Next]_vars => [ForThese]_vars
  BY <1>1
<1>3. LoginAskedForTheseTokens <=> [][ForThese]_vars
  BY PTL DEF LoginAskedForTheseTokens
<1> HIDE DEF ForThese
<1> QED
  BY <1>2, <1>3, RefreshAlways, PTL DEF Spec

=============================================================================

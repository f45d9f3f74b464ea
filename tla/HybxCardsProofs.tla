-------------------------- MODULE HybxCardsProofs --------------------------
(***************************************************************************)
(* Proofs about HybxCards, for any accounts, brands, requests and bounds,  *)
(* any number of overlapping requests, failing writes and stops: every     *)
(* file and copy has its type, and no card has spent more than its limit.  *)
(* When requests do not overlap, what the cards show was paid, and if      *)
(* nothing fails either a conversion moves value and makes none.           *)
(*                                                                         *)
(* What a step may rely on was checked by an earlier step of the same      *)
(* request: a card is charged what "readCard" found to be available, and a *)
(* mirror gives what "fromHybx" found in it.  So the invariant is about    *)
(* the steps a request has before it: each such step is led by the one     *)
(* that checks, with nothing in between that changes the copy, or the      *)
(* check has been made and the copy still is as it was.                    *)
(***************************************************************************)
EXTENDS HybxCards, SumTheorems, TLAPS

-----------------------------------------------------------------------------
(* Steps that rely on a check *)

Step == {"try", "end", "seed", "mirrorSync", "saveMirrors", "ensureCards", "saveCards", "coreSync",
         "saveBank", "toHybx", "fromHybx", "convertBank", "moveMirror", "federate", "moveToCore",
         "tellCore", "issue", "refresh", "refreshOnly", "debitMirror", "chargeCard", "readCard",
         "debit", "send"}

\* The steps between the check and the step that relies on it leave the copy of
\* the cards (of the mirrors) alone.
CardMid == {"debit", "send", "saveBank", "try", "debitMirror", "saveMirrors", "end", "federate"}
MirrorMid == {"convertBank", "saveBank"}

\* Between i and j, both excluded, there are only such steps, and no call that
\* ends there began before.
Span(s, i, j, mid) ==
    \A k \in (i + 1)..(j - 1) :
        s[k] \in mid /\ (s[k] = "end" => \E l \in (i + 1)..(k - 1) : s[l] = "try")

LedAt(s, j, checks, mid) ==
    \E i \in 1..(j - 1) : s[i] \in checks /\ Span(s, i, j, mid)
OpenAt(s, j, mid) == \A k \in 1..(j - 1) : s[k] \in mid

\* Every use is led by a check; or all that are not have only such steps before.
Led(s, use, checks, mid) ==
    \A j \in 1..Len(s) : s[j] = use => LedAt(s, j, checks, mid)
LedOrOpen(s, use, checks, mid) ==
    \A j \in 1..Len(s) : s[j] = use => LedAt(s, j, checks, mid) \/ OpenAt(s, j, mid)

LEMMA LedIsLedOrOpen ==
    ASSUME NEW s, NEW use, NEW checks, NEW mid, Led(s, use, checks, mid)
    PROVE  LedOrOpen(s, use, checks, mid)
BY DEF Led, LedOrOpen

LEMMA NothingLeft ==
    ASSUME NEW use, NEW checks, NEW mid
    PROVE  Led(<<>>, use, checks, mid)
BY DEF Led

\* The rest of a sequence.
LEMMA RestOf ==
    ASSUME NEW s \in Seq(Step), NEW m \in 1..Len(s)
    PROVE  /\ SubSeq(s, m, Len(s)) \in Seq(Step)
           /\ Len(SubSeq(s, m, Len(s))) = Len(s) - m + 1
           /\ \A j \in 1..(Len(s) - m + 1) :
                 j + m - 1 \in m..Len(s) /\ SubSeq(s, m, Len(s))[j] = s[j + m - 1]
<1>1. PICK L \in Nat : L = Len(s)
  OBVIOUS
<1>2. \A i \in m..L : s[i] \in Step
  BY <1>1
<1> QED
  BY <1>1, <1>2

LEMMA SpanOfRest ==
    ASSUME NEW s \in Seq(Step), NEW m \in 1..Len(s), NEW t \in Seq(Step), NEW mid,
           t = SubSeq(s, m, Len(s)), NEW j \in 1..Len(t), NEW i \in m..(j + m - 2),
           Span(s, i, j + m - 1, mid)
    PROVE  Span(t, i - m + 1, j, mid)
<1>1. /\ Len(t) = Len(s) - m + 1 /\ Len(s) \in Nat /\ m \in Nat /\ j \in Nat /\ i \in Nat
      /\ \A k \in 1..Len(t) : t[k] = s[k + m - 1]
  BY RestOf
<1>2. SUFFICES ASSUME NEW k \in (i - m + 2)..(j - 1)
               PROVE  /\ t[k] \in mid
                      /\ t[k] = "end" => \E l \in (i - m + 2)..(k - 1) : t[l] = "try"
  <2>1. (i - m + 1) + 1 = i - m + 2
    BY <1>1
  <2> QED
    BY <2>1 DEF Span
<1>3. k \in 1..Len(t) /\ k + m - 1 \in (i + 1)..(j + m - 2)
  BY <1>1
<1>4. t[k] = s[k + m - 1] /\ t[k] \in mid
  BY <1>1, <1>3 DEF Span
<1>5. ASSUME t[k] = "end"
      PROVE  \E l \in (i - m + 2)..(k - 1) : t[l] = "try"
  <2>1. PICK n \in (i + 1)..(k + m - 2) : s[n] = "try"
    BY <1>1, <1>3, <1>4, <1>5 DEF Span
  <2>2. n - m + 1 \in (i - m + 2)..(k - 1) /\ n - m + 1 \in 1..Len(t)
    BY <1>1, <1>3
  <2>3. t[n - m + 1] = s[n]
    <3>1. (n - m + 1) + m - 1 = n
      BY <1>1
    <3> QED
      BY <1>1, <2>2, <3>1
  <2> QED
    BY <2>1, <2>2, <2>3
<1> QED
  BY <1>4, <1>5

\* What leads a use in the whole leads it in the rest, if it is in the rest.
LEMMA LedInRest ==
    ASSUME NEW s \in Seq(Step), NEW m \in 1..Len(s), NEW t \in Seq(Step), NEW checks, NEW mid,
           t = SubSeq(s, m, Len(s)), NEW j \in 1..Len(t), NEW i \in 1..(j + m - 2), i >= m,
           s[i] \in checks, Span(s, i, j + m - 1, mid)
    PROVE  LedAt(t, j, checks, mid)
<1>1. i \in m..(j + m - 2) /\ i - m + 1 \in 1..(j - 1) /\ i - m + 1 \in 1..Len(t)
  BY RestOf
<1>2. Span(t, i - m + 1, j, mid)
  BY <1>1, SpanOfRest
<1>3. t[i - m + 1] = s[i]
  <2>1. (i - m + 1) + m - 1 = i
    BY <1>1
  <2> QED
    BY <1>1, <2>1, RestOf
<1> QED
  BY <1>1, <1>2, <1>3 DEF LedAt

\* The steps before the rest are no checks, but perhaps the first of them.
LEMMA RestAfter ==
    ASSUME NEW s \in Seq(Step), NEW m \in 1..Len(s), NEW use, NEW checks, NEW mid,
           NEW t \in Seq(Step), t = SubSeq(s, m, Len(s)),
           LedOrOpen(s, use, checks, mid),
           \A i \in 1..(m - 1) : s[i] \in checks => i = 1
    PROVE  /\ LedOrOpen(t, use, checks, mid)
           /\ \/ m = 1 /\ Led(s, use, checks, mid)
              \/ m > 1 /\ s[1] \notin checks /\ (Led(s, use, checks, mid) \/ s[1] \notin mid)
              => Led(t, use, checks, mid)
<1>1. /\ Len(t) = Len(s) - m + 1 /\ Len(s) \in Nat /\ m \in Nat
      /\ \A k \in 1..Len(t) : k + m - 1 \in m..Len(s) /\ t[k] = s[k + m - 1]
  BY RestOf
<1>2. ASSUME NEW j \in 1..Len(t), t[j] = use, LedAt(s, j + m - 1, checks, mid)
      PROVE  LedAt(t, j, checks, mid) \/ (m > 1 /\ s[1] \in checks /\ OpenAt(t, j, mid))
  <2>1. PICK i \in 1..(j + m - 2) : s[i] \in checks /\ Span(s, i, j + m - 1, mid)
    BY <1>1, <1>2 DEF LedAt
  <2>2. CASE i >= m
    BY <2>1, <2>2, LedInRest
  <2>3. CASE i < m
    <3>1. i = 1 /\ m > 1 /\ s[1] \in checks
      BY <1>1, <2>1, <2>3
    <3>2. ASSUME NEW k \in 1..(j - 1)
          PROVE  t[k] \in mid
      <4>1. k \in 1..Len(t) /\ k + m - 1 \in 2..(j + m - 2)
        BY <1>1, <3>1
      <4> QED
        BY <1>1, <2>1, <3>1, <4>1 DEF Span
    <3> QED
      BY <3>1, <3>2 DEF OpenAt
  <2> QED
    BY <1>1, <2>2, <2>3
<1>3. ASSUME NEW j \in 1..Len(t), OpenAt(s, j + m - 1, mid)
      PROVE  OpenAt(t, j, mid) /\ (m > 1 => s[1] \in mid)
  <2>1. ASSUME NEW k \in 1..(j - 1)
        PROVE  t[k] \in mid
    <3>1. k \in 1..Len(t) /\ k + m - 1 \in 1..(j + m - 2)
      BY <1>1
    <3> QED
      BY <1>1, <1>3, <3>1 DEF OpenAt
  <2>2. m > 1 => 1 \in 1..(j + m - 2)
    BY <1>1
  <2> QED
    BY <1>1, <1>3, <2>1, <2>2 DEF OpenAt
<1>4. ASSUME NEW j \in 1..Len(t), t[j] = use
      PROVE  j + m - 1 \in 1..Len(s) /\ s[j + m - 1] = use
  BY <1>1, <1>4
<1>5. LedOrOpen(t, use, checks, mid)
  BY <1>2, <1>3, <1>4 DEF LedOrOpen
<1>6. ASSUME m = 1, Led(s, use, checks, mid)
      PROVE  Led(t, use, checks, mid)
  BY <1>2, <1>4, <1>6 DEF Led
<1>7. ASSUME m > 1, s[1] \notin checks, Led(s, use, checks, mid) \/ s[1] \notin mid
      PROVE  Led(t, use, checks, mid)
  BY <1>2, <1>3, <1>4, <1>7 DEF Led, LedOrOpen
<1> QED
  BY <1>5, <1>6, <1>7

\* The rest from the end of the call that the request is in.
LEMMA RestOfCall ==
    ASSUME NEW s \in Seq(Step), NEW m \in 1..Len(s), NEW use, NEW checks, NEW mid,
           NEW t \in Seq(Step), t = SubSeq(s, m, Len(s)),
           LedOrOpen(s, use, checks, mid), use # "end",
           s[m] = "end", "end" \notin checks, \A i \in 1..(m - 1) : s[i] # "try"
    PROVE  /\ LedOrOpen(t, use, checks, mid)
           /\ Led(s, use, checks, mid) => Led(t, use, checks, mid)
<1>1. /\ Len(t) = Len(s) - m + 1 /\ Len(s) \in Nat /\ m \in Nat
      /\ \A k \in 1..Len(t) : k + m - 1 \in m..Len(s) /\ t[k] = s[k + m - 1]
  BY RestOf
<1>2. ASSUME NEW j \in 1..Len(t), t[j] = use, LedAt(s, j + m - 1, checks, mid)
      PROVE  LedAt(t, j, checks, mid)
  <2>1. PICK i \in 1..(j + m - 2) : s[i] \in checks /\ Span(s, i, j + m - 1, mid)
    BY <1>1, <1>2 DEF LedAt
  <2>2. CASE i >= m
    BY <2>1, <2>2, LedInRest
  <2>3. CASE i < m
    <3>1. j + m - 1 > m
      BY <1>1, <1>2
    <3>2. m \in (i + 1)..(j + m - 2)
      BY <1>1, <2>3, <3>1
    <3>3. PICK l \in (i + 1)..(m - 1) : s[l] = "try"
      BY <1>1, <2>1, <3>2 DEF Span
    <3>4. l \in 1..(m - 1)
      BY <1>1, <3>3
    <3> QED
      BY <3>3, <3>4
  <2> QED
    BY <1>1, <2>2, <2>3
<1>3. ASSUME NEW j \in 1..Len(t), OpenAt(s, j + m - 1, mid)
      PROVE  OpenAt(t, j, mid)
  <2>1. ASSUME NEW k \in 1..(j - 1)
        PROVE  t[k] \in mid
    <3>1. k \in 1..Len(t) /\ k + m - 1 \in 1..(j + m - 2)
      BY <1>1
    <3> QED
      BY <1>1, <1>3, <3>1 DEF OpenAt
  <2> QED
    BY <2>1 DEF OpenAt
<1>4. ASSUME NEW j \in 1..Len(t), t[j] = use
      PROVE  j + m - 1 \in 1..Len(s) /\ s[j + m - 1] = use
  BY <1>1, <1>4
<1> QED
  BY <1>2, <1>3, <1>4 DEF Led, LedOrOpen

-----------------------------------------------------------------------------
(* The steps of a request *)

CardChecks == {"readCard"}
MirrorChecks == {"toHybx", "fromHybx"}

\* The files are saved right after the copy was made, and a card is charged once
\* the bank has saved that its account has paid.
CardMakers == {"ensureCards", "issue", "refresh", "refreshOnly", "chargeCard"}
BankMakers == {"coreSync", "moveToCore", "convertBank", "debit", "send"}
PaidChecks == {"saveBank"}
PaidMid == {"try", "debitMirror", "saveMirrors", "end", "federate"}

\* ensureCards may go on after the save that follows it.
SavesCards(s) == \A i \in 1..Len(s) : s[i] = "ensureCards" => i < Len(s) /\ s[i + 1] = "saveCards"

\* Only a request that moves money to a mirror has the step that does.
Directed(s, r) == \A i \in 1..Len(s) : s[i] = "toHybx" => ToMirror(r)

\* A request that has not begun.
Whole(s, r) ==
    /\ s \in Seq(Step) /\ SavesCards(s) /\ Directed(s, r)
    /\ Led(s, "chargeCard", CardChecks, CardMid) /\ Led(s, "moveMirror", MirrorChecks, MirrorMid)
    /\ Led(s, "chargeCard", PaidChecks, PaidMid)
    /\ Led(s, "saveCards", CardMakers, {}) /\ Led(s, "saveBank", BankMakers, {})

LEMMA SpanOfFirst ==
    ASSUME NEW s \in Seq(Step), NEW t \in Seq(Step), NEW mid, NEW i \in Nat, i > 0,
           NEW j \in 1..Len(s), Span(s, i, j, mid)
    PROVE  Span(s \o t, i, j, mid)
<1>1. \A k \in 1..Len(s) : (s \o t)[k] = s[k]
  OBVIOUS
<1>2. \A k \in (i + 1)..(j - 1) : k \in 1..Len(s) /\ \A l \in (i + 1)..(k - 1) : l \in 1..Len(s)
  OBVIOUS
<1> QED
  BY <1>1, <1>2 DEF Span

LEMMA SpanOfSecond ==
    ASSUME NEW s \in Seq(Step), NEW t \in Seq(Step), NEW mid, NEW i \in Nat, i > 0,
           NEW j \in 1..Len(t), Span(t, i, j, mid)
    PROVE  Span(s \o t, Len(s) + i, Len(s) + j, mid)
<1>1. PICK L \in Nat : L = Len(s)
  OBVIOUS
<1>2. \A k \in 1..Len(t) : (s \o t)[L + k] = t[k]
  BY <1>1
<1>3. SUFFICES ASSUME NEW k \in (L + i + 1)..(L + j - 1)
               PROVE  /\ (s \o t)[k] \in mid
                      /\ (s \o t)[k] = "end" => \E l \in (L + i + 1)..(k - 1) : (s \o t)[l] = "try"
  BY <1>1 DEF Span
<1>4. k - L \in (i + 1)..(j - 1) /\ k - L \in 1..Len(t) /\ L + (k - L) = k
  BY <1>1
<1>5. (s \o t)[k] = t[k - L]
  BY <1>2, <1>4
<1>6. ASSUME t[k - L] = "end"
      PROVE  \E l \in (L + i + 1)..(k - 1) : (s \o t)[l] = "try"
  <2>1. PICK l \in (i + 1)..(k - L - 1) : t[l] = "try"
    BY <1>4, <1>6 DEF Span
  <2>2. L + l \in (L + i + 1)..(k - 1) /\ l \in 1..Len(t)
    BY <1>1, <1>4
  <2> QED
    BY <1>2, <2>1, <2>2
<1> QED
  BY <1>4, <1>5, <1>6 DEF Span

LEMMA LedBoth ==
    ASSUME NEW s \in Seq(Step), NEW t \in Seq(Step), NEW use, NEW checks, NEW mid,
           Led(s, use, checks, mid), Led(t, use, checks, mid)
    PROVE  Led(s \o t, use, checks, mid)
<1>1. PICK L \in Nat : L = Len(s)
  OBVIOUS
<1>2. /\ Len(s \o t) = L + Len(t) /\ Len(t) \in Nat
      /\ \A k \in 1..L : (s \o t)[k] = s[k]
      /\ \A k \in 1..Len(t) : (s \o t)[L + k] = t[k]
  BY <1>1
<1>3. SUFFICES ASSUME NEW j \in 1..(L + Len(t)), (s \o t)[j] = use
               PROVE  LedAt(s \o t, j, checks, mid)
  BY <1>2 DEF Led
<1>4. CASE j <= L
  <2>1. j \in 1..L
    BY <1>1, <1>4
  <2>2. PICK i \in 1..(j - 1) : s[i] \in checks /\ Span(s, i, j, mid)
    BY <1>1, <1>2, <1>3, <2>1 DEF Led, LedAt
  <2>3. i \in 1..L /\ Span(s \o t, i, j, mid)
    BY <1>1, <2>1, <2>2, SpanOfFirst
  <2> QED
    BY <1>2, <2>2, <2>3 DEF LedAt
<1>5. CASE j > L
  <2>1. PICK n \in 1..Len(t) : n = j - L
    <3>1. j - L \in 1..Len(t)
      BY <1>1, <1>2, <1>5
    <3> QED
      BY <3>1
  <2>2. j = L + n
    BY <1>1, <2>1
  <2>3. PICK i \in 1..(n - 1) : t[i] \in checks /\ Span(t, i, n, mid)
    BY <1>2, <1>3, <2>1, <2>2 DEF Led, LedAt
  <2>4. Span(s \o t, L + i, j, mid)
    BY <1>1, <2>1, <2>2, <2>3, SpanOfSecond
  <2>5. i \in 1..Len(t) /\ L + i \in 1..(j - 1)
    BY <1>1, <2>1, <2>2
  <2> QED
    BY <1>2, <2>3, <2>4, <2>5 DEF LedAt
<1> QED
  BY <1>1, <1>2, <1>4, <1>5

LEMMA WholeBoth ==
    ASSUME NEW s, NEW t, NEW r, Whole(s, r), Whole(t, r)
    PROVE  Whole(s \o t, r)
<1>1. s \in Seq(Step) /\ t \in Seq(Step) /\ s \o t \in Seq(Step)
  BY DEF Whole
<1>2. PICK L \in Nat : L = Len(s)
  BY <1>1
<1>3. /\ Len(s \o t) = L + Len(t) /\ Len(t) \in Nat
      /\ \A k \in 1..L : (s \o t)[k] = s[k]
      /\ \A k \in 1..Len(t) : (s \o t)[L + k] = t[k]
  BY <1>1, <1>2
<1>4. ASSUME NEW i \in 1..(L + Len(t))
      PROVE  /\ (s \o t)[i] = "toHybx" => ToMirror(r)
             /\ (s \o t)[i] = "ensureCards" => i < L + Len(t) /\ (s \o t)[i + 1] = "saveCards"
  <2>1. CASE i <= L
    <3>1. i \in 1..L /\ (s \o t)[i] = s[i]
      BY <1>2, <1>3, <2>1
    <3>2. ASSUME s[i] = "ensureCards"
          PROVE  i + 1 \in 1..L /\ s[i + 1] = "saveCards"
      BY <1>2, <3>1, <3>2 DEF Whole, SavesCards
    <3>3. s[i] = "toHybx" => ToMirror(r)
      BY <1>2, <3>1 DEF Whole, Directed
    <3> QED
      BY <1>2, <1>3, <3>1, <3>2, <3>3
  <2>2. CASE i > L
    <3>1. PICK n \in 1..Len(t) : i = L + n
      <4>1. i - L \in 1..Len(t) /\ i = L + (i - L)
        BY <1>2, <1>3, <2>2
      <4> QED
        BY <4>1
    <3>2. (s \o t)[i] = t[n]
      BY <1>3, <3>1
    <3>3. ASSUME t[n] = "ensureCards"
          PROVE  n + 1 \in 1..Len(t) /\ t[n + 1] = "saveCards" /\ i + 1 = L + (n + 1)
      BY <1>2, <1>3, <3>1, <3>3 DEF Whole, SavesCards
    <3>4. t[n] = "toHybx" => ToMirror(r)
      BY <3>1 DEF Whole, Directed
    <3> QED
      BY <1>2, <1>3, <3>1, <3>2, <3>3, <3>4
  <2> QED
    BY <1>2, <1>3, <2>1, <2>2
<1>5. /\ Led(s \o t, "chargeCard", CardChecks, CardMid)
      /\ Led(s \o t, "moveMirror", MirrorChecks, MirrorMid)
      /\ Led(s \o t, "chargeCard", PaidChecks, PaidMid)
      /\ Led(s \o t, "saveCards", CardMakers, {}) /\ Led(s \o t, "saveBank", BankMakers, {})
  BY <1>1, LedBoth DEF Whole
<1> QED
  BY <1>1, <1>3, <1>4, <1>5 DEF Whole, SavesCards, Directed

LEMMA Joined ==
    ASSUME NEW s \in Seq(Step), NEW t \in Seq(Step), NEW L \in Nat, Len(s) = L
    PROVE  /\ s \o t \in Seq(Step) /\ Len(s \o t) = L + Len(t)
           /\ \A k \in 1..L : (s \o t)[k] = s[k]
           /\ \A k \in 1..Len(t) : (s \o t)[L + k] = t[k]
OBVIOUS

LEMMA LedNext ==
    ASSUME NEW s \in Seq(Step), NEW use, NEW checks, NEW mid,
           \A j \in 1..Len(s) : s[j] = use => j > 1 /\ s[j - 1] \in checks
    PROVE  Led(s, use, checks, mid)
<1>1. ASSUME NEW j \in 1..Len(s), s[j] = use
      PROVE  LedAt(s, j, checks, mid)
  <2>1. j - 1 \in 1..(j - 1) /\ s[j - 1] \in checks
    BY <1>1
  <2>2. \A k \in (j - 1 + 1)..(j - 1) : FALSE
    OBVIOUS
  <2>3. Span(s, j - 1, j, mid)
    BY <2>2 DEF Span
  <2> QED
    BY <2>1, <2>3 DEF LedAt
<1> QED
  BY <1>1 DEF Led

\* Short sequences that rely on no check, and in which each save follows what
\* makes its copy.
LEMMA ShortWhole ==
    ASSUME NEW s \in Seq(Step), NEW r, SavesCards(s),
           \A i \in 1..Len(s) :
              /\ s[i] \notin {"toHybx", "chargeCard", "moveMirror"}
              /\ s[i] = "saveCards" => i > 1 /\ s[i - 1] \in CardMakers
              /\ s[i] = "saveBank" => i > 1 /\ s[i - 1] \in BankMakers
    PROVE  Whole(s, r)
<1>1. /\ Led(s, "chargeCard", CardChecks, CardMid) /\ Led(s, "moveMirror", MirrorChecks, MirrorMid)
      /\ Led(s, "chargeCard", PaidChecks, PaidMid)
  BY DEF Led
<1>2. Led(s, "saveCards", CardMakers, {}) /\ Led(s, "saveBank", BankMakers, {})
  BY LedNext
<1> QED
  BY <1>1, <1>2 DEF Whole, Directed

\* The steps that rely on one before, or have to do with one after.
Relying == {"toHybx", "chargeCard", "moveMirror", "saveCards", "saveBank", "ensureCards"}

LEMMA OneWhole ==
    ASSUME NEW a \in Step \ Relying, NEW r
    PROVE  Whole(<<a>>, r)
<1>1. PICK s : s = <<a>>
  OBVIOUS
<1>2. s \in Seq(Step) /\ Len(s) = 1 /\ s[1] = a
  BY <1>1
<1>3. \A i \in 1..1 : i = 1
  OBVIOUS
<1> QED
  BY <1>1, <1>2, <1>3, ShortWhole DEF SavesCards, Relying

LEMMA TwoWhole ==
    ASSUME NEW a \in Step \ Relying, NEW b \in Step, NEW r,
           \/ b \notin Relying
           \/ b = "saveCards" /\ a \in CardMakers
           \/ b = "saveBank" /\ a \in BankMakers
    PROVE  Whole(<<a, b>>, r)
<1>1. PICK s : s = <<a, b>>
  OBVIOUS
<1>2. s \in Seq(Step) /\ Len(s) = 2 /\ s[1] = a /\ s[2] = b
  BY <1>1
<1>3. /\ \A i \in 1..2 : i = 1 \/ i = 2
      /\ 2 - 1 = 1 /\ 2 > 1
  OBVIOUS
<1>4. SavesCards(s)
  BY <1>2, <1>3 DEF SavesCards, Relying
<1>5. \A i \in 1..Len(s) :
         /\ s[i] \notin {"toHybx", "chargeCard", "moveMirror"}
         /\ s[i] = "saveCards" => i > 1 /\ s[i - 1] \in CardMakers
         /\ s[i] = "saveBank" => i > 1 /\ s[i - 1] \in BankMakers
  BY <1>2, <1>3 DEF Relying
<1> QED
  BY <1>1, <1>2, <1>4, <1>5, ShortWhole

LEMMA ThreeWhole ==
    ASSUME NEW a \in Step \ Relying, NEW b \in Step, NEW d \in Step, NEW r,
           b \notin Relying \/ (b = "ensureCards" /\ d = "saveCards"),
           \/ d = "saveCards" /\ b \in CardMakers
           \/ d = "saveBank" /\ b \in BankMakers
    PROVE  Whole(<<a, b, d>>, r)
<1>1. PICK s : s = <<a, b, d>>
  OBVIOUS
<1>2. s \in Seq(Step) /\ Len(s) = 3 /\ s[1] = a /\ s[2] = b /\ s[3] = d
  BY <1>1
<1>3. /\ \A i \in 1..3 : i = 1 \/ i = 2 \/ i = 3
      /\ 2 - 1 = 1 /\ 2 > 1 /\ 3 - 1 = 2 /\ 3 > 1 /\ 2 < 3 /\ 2 + 1 = 3
  OBVIOUS
<1>4. SavesCards(s)
  BY <1>2, <1>3 DEF SavesCards, Relying
<1>5. \A i \in 1..Len(s) :
         /\ s[i] \notin {"toHybx", "chargeCard", "moveMirror"}
         /\ s[i] = "saveCards" => i > 1 /\ s[i - 1] \in CardMakers
         /\ s[i] = "saveBank" => i > 1 /\ s[i - 1] \in BankMakers
  BY <1>2, <1>3 DEF Relying
<1> QED
  BY <1>1, <1>2, <1>4, <1>5, ShortWhole

\* Steps that rely on no check, and none that is one.
LEMMA PlainSteps ==
    ASSUME NEW r
    PROVE  /\ Whole(<<"seed">>, r) /\ Whole(<<"federate">>, r) /\ Whole(<<"tellCore">>, r)
           /\ Whole(<<>>, r) /\ Whole(<<"try">>, r) /\ Whole(<<"end">>, r)
           /\ Whole(SyncMirrors, r) /\ Whole(EnsureCards, r) /\ Whole(SyncCore, r)
           /\ Whole(<<"seed", "moveToCore", "saveBank">>, r)
           /\ Whole(<<"issue", "saveCards">>, r) /\ Whole(<<"refresh", "saveCards">>, r)
           /\ Whole(<<"refreshOnly", "saveCards">>, r)
           /\ Whole(<<"seed", "send", "saveBank">>, r)
           /\ Whole(<<"debitMirror", "saveMirrors">>, r)
           /\ Whole(<<"readCard", "debit", "saveBank">>, r)
           /\ Whole(<<"readCard", "send", "saveBank">>, r)
<1>1. /\ Whole(<<"seed">>, r) /\ Whole(<<"federate">>, r) /\ Whole(<<"tellCore">>, r)
      /\ Whole(<<"try">>, r) /\ Whole(<<"end">>, r)
  BY OneWhole DEF Step, Relying
<1>2. Whole(<<>>, r)
  BY DEF Whole, SavesCards, Directed, Led
<1>3. Whole(SyncMirrors, r) /\ Whole(SyncCore, r)
  BY TwoWhole DEF SyncMirrors, SyncCore, Step, Relying, BankMakers
<1>4. /\ Whole(<<"issue", "saveCards">>, r) /\ Whole(<<"refresh", "saveCards">>, r)
      /\ Whole(<<"refreshOnly", "saveCards">>, r) /\ Whole(<<"debitMirror", "saveMirrors">>, r)
  <2>1. Whole(<<"issue", "saveCards">>, r)
    BY TwoWhole DEF Step, Relying, CardMakers
  <2>2. Whole(<<"refresh", "saveCards">>, r)
    BY TwoWhole DEF Step, Relying, CardMakers
  <2>3. Whole(<<"refreshOnly", "saveCards">>, r)
    BY TwoWhole DEF Step, Relying, CardMakers
  <2>4. Whole(<<"debitMirror", "saveMirrors">>, r)
    BY TwoWhole DEF Step, Relying, CardMakers
  <2> QED
    BY <2>1, <2>2, <2>3, <2>4
<1>5. Whole(EnsureCards, r)
  BY ThreeWhole DEF EnsureCards, Step, Relying, CardMakers
<1>6. /\ Whole(<<"seed", "moveToCore", "saveBank">>, r) /\ Whole(<<"seed", "send", "saveBank">>, r)
      /\ Whole(<<"readCard", "debit", "saveBank">>, r) /\ Whole(<<"readCard", "send", "saveBank">>, r)
  <2>1. Whole(<<"seed", "moveToCore", "saveBank">>, r)
    BY ThreeWhole DEF Step, Relying, BankMakers
  <2>2. Whole(<<"seed", "send", "saveBank">>, r)
    BY ThreeWhole DEF Step, Relying, BankMakers
  <2>3. Whole(<<"readCard", "debit", "saveBank">>, r)
    BY ThreeWhole DEF Step, Relying, BankMakers
  <2>4. Whole(<<"readCard", "send", "saveBank">>, r)
    BY ThreeWhole DEF Step, Relying, BankMakers
  <2> QED
    BY <2>1, <2>2, <2>3, <2>4
<1> QED
  BY <1>1, <1>2, <1>3, <1>4, <1>5, <1>6

\* A conversion checks the mirror and has only steps of the bank in between.
LEMMA WholeConvert ==
    ASSUME NEW r, NEW direction \in {"toHybx", "fromHybx"}, direction = "toHybx" => ToMirror(r)
    PROVE  Whole(Convert(direction), r)
<1> DEFINE s == <<direction, "convertBank", "saveBank", "moveMirror", "saveMirrors">>
<1>1. s \in Seq(Step) /\ Len(s) = 5
  BY DEF Step
<1>2. /\ s[1] = direction /\ s[2] = "convertBank" /\ s[3] = "saveBank"
      /\ s[4] = "moveMirror" /\ s[5] = "saveMirrors"
  OBVIOUS
<1> HIDE DEF s
<1>3. \A i \in 1..5 : i = 1 \/ i = 2 \/ i = 3 \/ i = 4 \/ i = 5
  OBVIOUS
<1>4. /\ SavesCards(s) /\ Directed(s, r) /\ Led(s, "chargeCard", CardChecks, CardMid)
      /\ Led(s, "chargeCard", PaidChecks, PaidMid) /\ Led(s, "saveCards", CardMakers, {})
  BY <1>1, <1>2, <1>3 DEF SavesCards, Directed, Led
<1>6. Led(s, "saveBank", BankMakers, {})
  <2>1. ASSUME NEW j \in 1..5, s[j] = "saveBank"
        PROVE  j = 3
    BY <1>2, <1>3, <2>1
  <2>2. s[3 - 1] \in BankMakers
    BY <1>2 DEF BankMakers
  <2> QED
    BY <1>1, <2>1, <2>2, LedNext
<1>5. Led(s, "moveMirror", MirrorChecks, MirrorMid)
  <2>1. ASSUME NEW j \in 1..5, s[j] = "moveMirror"
        PROVE  j = 4
    BY <1>2, <1>3, <2>1
  <2>2. 1 \in 1..3 /\ s[1] \in MirrorChecks
    BY <1>2 DEF MirrorChecks
  <2>3. Span(s, 1, 4, MirrorMid)
    <3>1. \A k \in (1 + 1)..(4 - 1) : k = 2 \/ k = 3
      OBVIOUS
    <3> QED
      BY <1>2, <3>1 DEF Span, MirrorMid
  <2>4. LedAt(s, 4, MirrorChecks, MirrorMid)
    BY <2>2, <2>3 DEF LedAt
  <2> QED
    BY <1>1, <2>1, <2>4 DEF Led
<1> QED
  BY <1>1, <1>4, <1>5, <1>6 DEF Whole, Convert, s

LEMMA WholeIgnored ==
    ASSUME NEW call, NEW r, Whole(call, r)
    PROVE  Whole(Ignored(call), r)
BY PlainSteps, WholeBoth DEF Ignored

\* There was a check, and only such steps have followed.
Since(s, checks, mid) == \E i \in 1..Len(s) : s[i] \in checks /\ Span(s, i, Len(s) + 1, mid)
Checked(s) == Since(s, CardChecks, CardMid) /\ Since(s, PaidChecks, PaidMid)
\* Such steps, no more calls ending than began.
Between(t, mid) ==
    \A k \in 1..Len(t) :
        t[k] \in mid /\ (t[k] = "end" => \E l \in 1..(k - 1) : t[l] = "try")

LEMMA SinceMore ==
    ASSUME NEW s \in Seq(Step), NEW t \in Seq(Step), NEW checks, NEW mid,
           Since(s, checks, mid), Between(t, mid)
    PROVE  Since(s \o t, checks, mid)
<1>1. PICK L \in Nat : L = Len(s)
  OBVIOUS
<1>2. /\ Len(s \o t) = L + Len(t) /\ Len(t) \in Nat
      /\ \A k \in 1..L : (s \o t)[k] = s[k]
      /\ \A k \in 1..Len(t) : (s \o t)[L + k] = t[k]
  BY <1>1
<1>3. PICK i \in 1..L : s[i] \in checks /\ Span(s, i, L + 1, mid)
  BY <1>1 DEF Since
<1>4. ASSUME NEW k \in (i + 1)..(L + Len(t))
      PROVE  /\ (s \o t)[k] \in mid
             /\ (s \o t)[k] = "end" => \E l \in (i + 1)..(k - 1) : (s \o t)[l] = "try"
  <2>1. CASE k <= L
    <3>1. k \in 1..L /\ k \in (i + 1)..((L + 1) - 1)
      BY <1>1, <1>3, <2>1
    <3>2. \A l \in (i + 1)..(k - 1) : l \in 1..L
      BY <1>1, <1>3, <3>1
    <3> QED
      BY <1>2, <1>3, <3>1, <3>2 DEF Span
  <2>2. CASE k > L
    <3>1. k - L \in 1..Len(t) /\ L + (k - L) = k
      BY <1>1, <1>2, <1>3, <2>2
    <3>2. (s \o t)[k] = t[k - L]
      BY <1>2, <3>1
    <3>3. ASSUME t[k - L] = "end"
          PROVE  \E l \in (i + 1)..(k - 1) : (s \o t)[l] = "try"
      <4>1. PICK l \in 1..(k - L - 1) : t[l] = "try"
        BY <3>1, <3>3 DEF Between
      <4>2. L + l \in (i + 1)..(k - 1) /\ l \in 1..Len(t)
        BY <1>1, <1>2, <1>3, <3>1
      <4> QED
        BY <1>2, <4>1, <4>2
    <3> QED
      BY <3>1, <3>2, <3>3 DEF Between
  <2> QED
    BY <1>1, <1>2, <1>3, <2>1, <2>2
<1>5. (L + Len(t) + 1) - 1 = L + Len(t)
  BY <1>1, <1>2
<1>6. Span(s \o t, i, L + Len(t) + 1, mid)
  BY <1>4, <1>5 DEF Span
<1>7. i \in 1..(L + Len(t)) /\ (s \o t)[i] \in checks
  BY <1>1, <1>2, <1>3
<1> QED
  BY <1>2, <1>6, <1>7 DEF Since

LEMMA CheckedMore ==
    ASSUME NEW s \in Seq(Step), NEW t \in Seq(Step), Checked(s), Between(t, PaidMid)
    PROVE  Checked(s \o t)
<1>1. Between(t, CardMid)
  BY DEF Between, PaidMid, CardMid
<1> QED
  BY <1>1, SinceMore DEF Checked

LEMMA WholeCharge ==
    ASSUME NEW s, NEW r, Whole(s, r), Checked(s)
    PROVE  Whole(s \o ChargeCards, r)
<1> DEFINE t == <<"chargeCard", "saveCards">>
<1>1. s \in Seq(Step) /\ t \in Seq(Step) /\ s \o t \in Seq(Step)
  <2>1. t \in Seq(Step)
    BY DEF Step
  <2> HIDE DEF t
  <2> QED
    BY <2>1 DEF Whole
<1>2. PICK L \in Nat : L = Len(s)
  BY <1>1
<1>3. /\ Len(s \o t) = L + 2
      /\ \A k \in 1..L : (s \o t)[k] = s[k]
      /\ (s \o t)[L + 1] = "chargeCard" /\ (s \o t)[L + 2] = "saveCards"
  BY <1>1, <1>2
<1>4. \A k \in 1..(L + 2) : k \in 1..L \/ k = L + 1 \/ k = L + 2
  BY <1>2
<1> DEFINE u == s \o t
<1> HIDE DEF t
<1>5. SavesCards(u) /\ Directed(u, r)
  <2>1. ASSUME NEW i \in 1..(L + 2)
        PROVE  /\ u[i] = "toHybx" => ToMirror(r)
               /\ u[i] = "ensureCards" => i < L + 2 /\ u[i + 1] = "saveCards"
    <3>1. CASE i \in 1..L
      <4>1. ASSUME s[i] = "ensureCards"
            PROVE  i + 1 \in 1..L /\ s[i + 1] = "saveCards"
        BY <1>2, <3>1, <4>1 DEF Whole, SavesCards
      <4>2. s[i] = "toHybx" => ToMirror(r)
        BY <1>2, <3>1 DEF Whole, Directed
      <4> QED
        BY <1>2, <1>3, <3>1, <4>1, <4>2
    <3> QED
      BY <1>3, <1>4, <3>1
  <2> QED
    BY <1>3, <2>1 DEF SavesCards, Directed
<1>6. ASSUME NEW use, NEW checks, NEW mid, Led(s, use, checks, mid), NEW j \in 1..L, u[j] = use
      PROVE  LedAt(u, j, checks, mid)
  <2>1. PICK i \in 1..(j - 1) : s[i] \in checks /\ Span(s, i, j, mid)
    BY <1>2, <1>3, <1>6 DEF Led, LedAt
  <2>2. Span(u, i, j, mid)
    BY <1>1, <1>2, <2>1, SpanOfFirst
  <2>3. i \in 1..L
    BY <1>2
  <2> QED
    BY <1>3, <2>1, <2>2, <2>3 DEF LedAt
<1>7. Led(u, "moveMirror", MirrorChecks, MirrorMid)
  BY <1>3, <1>4, <1>6 DEF Whole, Led
<1>8. ASSUME NEW checks, NEW mid, Since(s, checks, mid)
      PROVE  LedAt(u, L + 1, checks, mid)
  <2>1. PICK i \in 1..L : s[i] \in checks /\ Span(s, i, L + 1, mid)
    BY <1>2, <1>8 DEF Since
  <2>2. \A k \in (i + 1)..((L + 1) - 1) : k \in 1..L /\ \A l \in (i + 1)..(k - 1) : l \in 1..L
    BY <1>2
  <2>3. Span(u, i, L + 1, mid)
    BY <1>3, <2>1, <2>2 DEF Span
  <2>4. (L + 1) - 1 = L
    BY <1>2
  <2> QED
    BY <1>3, <2>1, <2>3, <2>4 DEF LedAt
<1>9. LedAt(u, L + 1, CardChecks, CardMid) /\ LedAt(u, L + 1, PaidChecks, PaidMid)
  BY <1>8 DEF Checked
<1>10. Led(u, "chargeCard", CardChecks, CardMid) /\ Led(u, "chargeCard", PaidChecks, PaidMid)
  BY <1>3, <1>4, <1>6, <1>9 DEF Whole, Led
<1>11. Led(u, "saveBank", BankMakers, {})
  BY <1>3, <1>4, <1>6 DEF Whole, Led
<1>12. LedAt(u, L + 2, CardMakers, {})
  <2>1. /\ L + 1 \in 1..((L + 2) - 1) /\ u[L + 1] \in CardMakers
        /\ \A k \in (L + 1 + 1)..((L + 2) - 1) : FALSE
    BY <1>2, <1>3 DEF CardMakers
  <2> QED
    BY <2>1 DEF LedAt, Span
<1>13. Led(u, "saveCards", CardMakers, {})
  BY <1>3, <1>4, <1>6, <1>12 DEF Whole, Led
<1> QED
  BY <1>1, <1>5, <1>7, <1>10, <1>11, <1>13 DEF Whole, ChargeCards, t

LEMMA BetweenSteps ==
    Between(ChargeMirror, PaidMid) /\ Between(RecordSpend, PaidMid)
<1>1. Between(RecordSpend, PaidMid)
  BY DEF Between, RecordSpend, PaidMid
<1> DEFINE call == <<"try">> \o <<"debitMirror", "saveMirrors">>
           s == call \o <<"end">>
<1>2. /\ call \in Seq(Step) /\ Len(call) = 3
      /\ call[1] = "try" /\ call[2] = "debitMirror" /\ call[3] = "saveMirrors"
  <2>1. <<"try">> \in Seq(Step) /\ <<"debitMirror", "saveMirrors">> \in Seq(Step)
    BY DEF Step
  <2> QED
    BY <2>1
<1> HIDE DEF call
<1>3. Len(s) = 4 /\ s[1] = "try" /\ s[2] = "debitMirror" /\ s[3] = "saveMirrors" /\ s[4] = "end"
  <2> DEFINE last == <<"end">>
  <2>1. last \in Seq(Step) /\ Len(last) = 1 /\ last[1] = "end"
    BY DEF Step
  <2> HIDE DEF last
  <2>2. /\ Len(call \o last) = 3 + 1 /\ (call \o last)[3 + 1] = last[1]
        /\ \A k \in 1..3 : (call \o last)[k] = call[k]
    <3>1. /\ Len(call \o last) = 3 + Len(last)
          /\ \A k \in 1..3 : (call \o last)[k] = call[k]
          /\ \A k \in 1..Len(last) : (call \o last)[3 + k] = last[k]
      <4>1. 3 \in Nat
        OBVIOUS
      <4> QED
        BY <1>2, <2>1, <4>1, Joined, Zenon
    <3> QED
      BY <2>1, <3>1
  <2>3. 3 + 1 = 4
    OBVIOUS
  <2> QED
    BY <1>2, <2>1, <2>2, <2>3 DEF last
<1> HIDE DEF s
<1>4. \A k \in 1..4 : k = 1 \/ k = 2 \/ k = 3 \/ k = 4
  OBVIOUS
<1>5. s[4] = "end" => \E l \in 1..(4 - 1) : s[l] = "try"
  BY <1>3
<1>6. Between(s, PaidMid)
  BY <1>3, <1>4, <1>5 DEF Between, PaidMid
<1> QED
  BY <1>1, <1>6 DEF s, call, ChargeMirror, Ignored

\* Purchases, wires and releases.
LEMMA WholePayments ==
    ASSUME NEW r
    PROVE  Whole(Authorize, r) /\ Whole(Wire, r) /\ Whole(Release, r)
<1> DEFINE Paid(how) == EnsureCards \o <<"readCard", how, "saveBank">>
<1>1. /\ Whole(Ignored(<<"debitMirror", "saveMirrors">>), r) /\ Whole(RecordSpend, r)
      /\ Whole(<<"seed">>, r) /\ Whole(EnsureCards, r)
  BY PlainSteps, WholeIgnored DEF RecordSpend
<1>2. Whole(ChargeMirror, r)
  BY <1>1 DEF ChargeMirror
<1>3. ASSUME NEW how \in {"debit", "send"}
      PROVE  Whole(Paid(how), r) /\ Checked(Paid(how))
  <2>1. Whole(Paid(how), r)
    BY PlainSteps, WholeBoth
  <2> DEFINE s == Paid(how)
  <2>3. Len(s) = 6 /\ s[4] = "readCard" /\ s[5] = how /\ s[6] = "saveBank"
    <3> DEFINE u == <<"readCard", how, "saveBank">>
    <3>1. EnsureCards \in Seq(Step) /\ Len(EnsureCards) = 3
      BY DEF EnsureCards, Step
    <3>2. u \in Seq(Step) /\ Len(u) = 3 /\ u[1] = "readCard" /\ u[2] = how /\ u[3] = "saveBank"
      BY DEF Step
    <3> HIDE DEF u
    <3> DEFINE e == EnsureCards \o u
    <3>3. Len(e) = 3 + 3 /\ e[3 + 1] = u[1] /\ e[3 + 2] = u[2] /\ e[3 + 3] = u[3]
      <4>1. /\ Len(e) = 3 + Len(u)
            /\ \A k \in 1..Len(u) : e[3 + k] = u[k]
        <5>1. 3 \in Nat
          OBVIOUS
        <5> QED
          BY <3>1, <3>2, <5>1, Joined, Zenon
      <4> HIDE DEF e
      <4> QED
        BY <3>2, <4>1
    <3>4. 3 + 1 = 4 /\ 3 + 2 = 5 /\ 3 + 3 = 6
      OBVIOUS
    <3> QED
      BY <3>2, <3>3, <3>4 DEF u
  <2> HIDE DEF s
  <2>4. \A k \in (4 + 1)..((6 + 1) - 1) : k = 5 \/ k = 6
    OBVIOUS
  <2>5. Span(s, 4, 6 + 1, CardMid)
    BY <2>3, <2>4 DEF Span, CardMid
  <2>7. Span(s, 6, 6 + 1, PaidMid)
    <3>1. \A k \in (6 + 1)..((6 + 1) - 1) : FALSE
      OBVIOUS
    <3> QED
      BY <3>1 DEF Span
  <2>6. Checked(s)
    BY <2>3, <2>5, <2>7 DEF Checked, Since, CardChecks, PaidChecks
  <2> QED
    BY <2>1, <2>6 DEF s
<1> HIDE DEF Paid
<1>4. ASSUME NEW how \in {"debit", "send"}
      PROVE  /\ Whole(Paid(how) \o ChargeMirror, r) /\ Checked(Paid(how) \o ChargeMirror)
             /\ Whole(Paid(how) \o ChargeMirror \o RecordSpend, r)
             /\ Checked(Paid(how) \o ChargeMirror \o RecordSpend)
  <2>1. Whole(Paid(how) \o ChargeMirror, r) /\ Checked(Paid(how) \o ChargeMirror)
    BY <1>2, <1>3, WholeBoth, BetweenSteps, CheckedMore DEF Whole
  <2> DEFINE s == Paid(how) \o ChargeMirror
  <2> HIDE DEF s
  <2>2. Whole(s, r) /\ Checked(s)
    BY <2>1 DEF s
  <2>3. Whole(s \o RecordSpend, r) /\ Checked(s \o RecordSpend)
    BY <1>1, <2>2, WholeBoth, BetweenSteps, CheckedMore DEF Whole
  <2> QED
    BY <2>1, <2>3 DEF s
<1>5. Whole(Authorize, r)
  BY <1>4, WholeCharge DEF Authorize, Paid
<1>6. Whole(Wire, r)
  <2>1. Whole(Paid("send") \o ChargeMirror \o ChargeCards, r)
    BY <1>4, WholeCharge
  <2> QED
    BY <1>1, <2>1, WholeBoth DEF Wire, Paid
<1>7. Whole(Release, r)
  BY <1>1, <1>6, WholeBoth DEF Release
<1> QED
  BY <1>5, <1>6, <1>7

LEMMA WholePrograms ==
    ASSUME CardAssumption, NEW r \in CardRequest
    PROVE  Whole(Program(r.op), r)
<1>1. /\ Whole(<<"seed">>, r) /\ Whole(<<"federate">>, r) /\ Whole(<<"tellCore">>, r)
      /\ Whole(SyncMirrors, r) /\ Whole(EnsureCards, r) /\ Whole(SyncCore, r)
      /\ Whole(<<"seed", "moveToCore", "saveBank">>, r)
      /\ Whole(<<"issue", "saveCards">>, r) /\ Whole(<<"refresh", "saveCards">>, r)
      /\ Whole(<<"refreshOnly", "saveCards">>, r)
      /\ Whole(<<"seed", "send", "saveBank">>, r)
  BY PlainSteps
<1>2. Whole(Convert("fromHybx"), r) /\ (ToMirror(r) => Whole(Convert("toHybx"), r))
  BY WholeConvert
<1>3. Whole(Authorize, r) /\ Whole(Wire, r) /\ Whole(Release, r)
  BY WholePayments
<1>4. Whole(IssueOne, r)
  BY <1>1, WholeBoth DEF IssueOne
<1>5. Whole(IssueHybx, r)
  BY <1>1, WholeBoth DEF IssueHybx
<1>6. Whole(IssueAll, r)
  <2>1. Whole(<<"seed">> \o SyncMirrors, r)
    BY <1>1, WholeBoth
  <2>2. Whole(<<"seed">> \o SyncMirrors \o EnsureCards, r)
    BY <1>1, <2>1, WholeBoth
  <2> QED
    BY <1>1, <2>2, WholeBoth DEF IssueAll
<1>7. Whole(Activate, r)
  BY <1>1, <1>6, WholeBoth DEF Activate
<1>8. Whole(Middleware, r)
  <2>1. /\ Whole(Ignored(SyncMirrors), r) /\ Whole(Ignored(EnsureCards), r)
        /\ Whole(Ignored(SyncCore), r)
    BY <1>1, WholeIgnored
  <2>2. Whole(<<"seed">> \o Ignored(SyncMirrors), r)
    BY <1>1, <2>1, WholeBoth
  <2>3. Whole(<<"seed">> \o Ignored(SyncMirrors) \o Ignored(EnsureCards), r)
    BY <2>1, <2>2, WholeBoth
  <2> QED
    BY <2>1, <2>3, WholeBoth DEF Middleware
<1>9. Whole(Sync, r)
  <2>1. Whole(<<"seed">> \o SyncMirrors, r) /\ Whole(Ignored(EnsureCards), r)
    BY <1>1, WholeBoth, WholeIgnored
  <2>2. Whole(<<"seed">> \o SyncMirrors \o Ignored(EnsureCards), r)
    BY <2>1, WholeBoth
  <2> QED
    BY <1>8, <2>2, WholeBoth DEF Sync
<1>10. Whole(ConvertRequest("fromHybx"), r) /\ (ToMirror(r) => Whole(ConvertRequest("toHybx"), r))
  BY <1>1, <1>2, WholeBoth DEF ConvertRequest
<1>11. /\ Whole(Exchange("exchangeFrom"), r) /\ Whole(Exchange("exchangeBank"), r)
       /\ Whole(Exchange("exchangeChain"), r)
       /\ ToMirror(r) => Whole(Exchange("exchangeTo"), r)
  <2>1. Whole(ToChain, r)
    BY <1>1, <1>2, WholeBoth DEF ToChain
  <2>2. Whole(BankRoute("exchangeFrom"), r) /\ (ToMirror(r) => Whole(BankRoute("exchangeTo"), r))
    BY <1>2 DEF BankRoute
  <2>3. Whole(BankRoute("exchangeBank"), r)
    <3>1. Whole(<<"federate">> \o Ignored(Convert("fromHybx")), r)
      BY <1>1, <1>2, WholeIgnored, WholeBoth
    <3> QED
      BY <3>1 DEF BankRoute
  <2>4. ASSUME NEW route, Whole(IF route = "exchangeChain" THEN ToChain ELSE BankRoute(route), r)
        PROVE  Whole(Exchange(route), r)
    <3>1. PICK s : s = IF route = "exchangeChain" THEN ToChain ELSE BankRoute(route)
      OBVIOUS
    <3>2. Whole(<<"seed">> \o s, r)
      BY <1>1, <2>4, <3>1, WholeBoth
    <3>3. Whole(<<"seed">> \o s \o Middleware, r)
      BY <1>8, <3>2, WholeBoth
    <3> QED
      BY <3>1, <3>3 DEF Exchange
  <2> QED
    BY <2>1, <2>2, <2>3, <2>4
<1>12. Whole(ToCore, r)
  <2>1. Whole(<<"seed", "moveToCore", "saveBank">> \o Ignored(<<"tellCore">>), r)
    BY <1>1, WholeIgnored, WholeBoth
  <2> QED
    BY <1>8, <2>1, WholeBoth DEF ToCore
<1>13. ToMirror(r) => Whole(CoreToHybx, r) /\ Whole(ToPlatform, r)
  <2> SUFFICES ASSUME ToMirror(r)
               PROVE  Whole(CoreToHybx, r) /\ Whole(ToPlatform, r)
    OBVIOUS
  <2>1. Whole(<<"seed">> \o SyncCore, r) /\ Whole(<<"seed">> \o Convert("toHybx"), r)
    BY <1>1, <1>2, WholeBoth
  <2>2. Whole(<<"seed">> \o SyncCore \o SyncMirrors, r)
    BY <1>1, <2>1, WholeBoth
  <2>3. Whole(<<"seed">> \o SyncCore \o SyncMirrors \o Convert("toHybx"), r)
    BY <1>2, <2>2, WholeBoth
  <2>4. Whole(CoreToHybx, r)
    BY <1>8, <2>3, WholeBoth DEF CoreToHybx
  <2>5. Whole(ToPlatform, r)
    BY <1>8, <2>1, WholeBoth DEF ToPlatform
  <2> QED
    BY <2>4, <2>5
<1>14. Whole(Bootstrap, r)
  <2>1. /\ Whole(Ignored(<<"seed">>), r) /\ Whole(Ignored(SyncMirrors), r)
        /\ Whole(Ignored(EnsureCards), r) /\ Whole(Ignored(SyncCore), r)
        /\ Whole(Ignored(IssueHybx), r) /\ Whole(Ignored(IssueAll), r)
    BY <1>1, <1>5, <1>6, WholeIgnored
  <2>2. Whole(<<"seed">> \o SyncCore, r)
    BY <1>1, WholeBoth
  <2>3. Whole(Ignored(<<"seed">> \o SyncCore), r)
    BY <2>2, WholeIgnored
  <2> DEFINE a == Ignored(<<"seed">>) \o Ignored(<<"seed">> \o SyncCore)
             b == a \o Ignored(SyncMirrors)
             d == b \o Ignored(EnsureCards)
             e == d \o Ignored(SyncCore)
             f == e \o Ignored(IssueHybx)
  <2>4. Whole(a, r)
    BY <2>1, <2>3, WholeBoth
  <2> HIDE DEF a
  <2>5. Whole(b, r)
    BY <2>1, <2>4, WholeBoth
  <2> HIDE DEF b
  <2>6. Whole(d, r)
    BY <2>1, <2>5, WholeBoth
  <2> HIDE DEF d
  <2>7. Whole(e, r)
    BY <2>1, <2>6, WholeBoth
  <2> HIDE DEF e
  <2>8. Whole(f, r)
    BY <2>1, <2>7, WholeBoth
  <2> HIDE DEF f
  <2>9. Whole(f \o Ignored(IssueAll), r)
    BY <2>1, <2>8, WholeBoth
  <2> QED
    BY <2>9 DEF Bootstrap, a, b, d, e, f
<1>15. CASE r.op \in {"list", "issue", "authorize", "wire"}
  <2>1. Whole(CardProgram(r.op), r)
    BY <1>1, <1>3, <1>4, <1>15 DEF CardProgram
  <2> QED
    BY <1>15, <2>1 DEF Program
<1>16. CASE r.op \in {"sync", "issueHybx", "issueAll", "activate", "release", "bootstrap", "swift", "toCore"}
  <2>1. Whole(SwiftRelease, r)
    BY <1>1 DEF SwiftRelease
  <2> QED
    BY <1>3, <1>5, <1>6, <1>7, <1>9, <1>12, <1>14, <1>16, <2>1 DEF Program
<1>17. CASE r.op \in {"toHybx", "fromHybx"}
  <2>1. r.op = "toHybx" => ToMirror(r)
    BY DEF ToMirror
  <2>2. Program(r.op) = ConvertRequest(r.op)
    BY <1>17 DEF Program
  <2> QED
    BY <1>10, <1>17, <2>1, <2>2
<1>18. CASE r.op \in {"exchangeTo", "exchangeFrom", "exchangeBank", "exchangeChain"}
  <2>1. r.op = "exchangeTo" => ToMirror(r)
    BY DEF ToMirror
  <2>2. Program(r.op) = Exchange(r.op)
    BY <1>18 DEF Program
  <2> QED
    BY <1>11, <1>18, <2>1, <2>2
<1>19. CASE r.op \in {"platform", "coreToHybx"}
  <2>1. ToMirror(r)
    BY <1>19 DEF ToMirror
  <2>2. Program(r.op) = IF r.op = "platform" THEN ToPlatform ELSE CoreToHybx
    BY <1>19 DEF Program
  <2> QED
    BY <1>13, <1>19, <2>1, <2>2
<1> QED
  BY <1>15, <1>16, <1>17, <1>18, <1>19 DEF CardRequest

-----------------------------------------------------------------------------
(* The files *)

CardData == [limit : Nat, spent : Nat]
CardsSound(f) == f \in CardFile /\ \A k \in Card : f[k] # NoCard => f[k].spent <= f[k].limit

\* What a request's copies are.
CopyFiles == [bank : BankFile, mirrors : MirrorFile, cards : CardFile]
CopySound(mine) == mine \in CopyFiles /\ CardsSound(mine.cards)

LEMMA BlankSound == ASSUME CardAssumption PROVE CopySound(Blank)
<1>1. EmptyBank \in BankFile /\ NoMirrors \in MirrorFile /\ NoCards \in CardFile
  BY DEF EmptyBank, BankFile, NoMirrors, MirrorFile, NoCards, CardFile
<1>2. CardsSound(NoCards)
  BY <1>1 DEF CardsSound, NoCards
<1> QED
  BY <1>1, <1>2 DEF CopySound, CopyFiles, Blank

LEMMA LoadedFile ==
    ASSUME bank \in BankFile \cup {NoFile, Broken}, CanLoad
    PROVE  Loaded \in BankFile
BY DEF CanLoad, Loaded, EmptyBank, BankFile

LEMMA FileExcept ==
    ASSUME NEW st \in BankFile, NEW a, NEW acct \in BankAccount
    PROVE  [st EXCEPT ![a] = acct] \in BankFile
BY DEF BankFile

LEMMA DebitedFile ==
    ASSUME NEW st \in BankFile, NEW a, NEW n \in Nat, CanDebit(st, a, n)
    PROVE  Debited(st, a, n) \in BankFile /\ Debited(st, a, n)[a] \in BankAccount
<1>1. a \in Account /\ st[a] \in BankAccount /\ st[a].bal >= n
  BY DEF CanDebit, Exists, BankFile
<1>2. PICK acct : acct = [st[a] EXCEPT !.bal = @ - n, !.out = @ + n]
  OBVIOUS
<1>3. acct \in BankAccount
  <2>1. st[a].bal - n \in Nat /\ st[a].out + n \in Nat
    BY <1>1 DEF BankAccount
  <2> QED
    BY <1>1, <1>2, <2>1 DEF BankAccount
<1>4. Debited(st, a, n) = [st EXCEPT ![a] = acct]
  BY <1>1, <1>2 DEF Debited, BankFile, BankAccount
<1> QED
  BY <1>1, <1>3, <1>4, FileExcept DEF BankFile

LEMMA CreditedFile ==
    ASSUME NEW st \in BankFile, NEW a, NEW n \in Nat, Exists(st, a)
    PROVE  Credited(st, a, n) \in BankFile
<1>1. a \in Account /\ st[a] \in BankAccount
  BY DEF Exists, BankFile
<1>2. PICK acct : acct = [st[a] EXCEPT !.bal = @ + n, !.in = @ + n]
  OBVIOUS
<1>3. acct \in BankAccount
  <2>1. st[a].bal + n \in Nat /\ st[a].in + n \in Nat
    BY <1>1 DEF BankAccount
  <2> QED
    BY <1>1, <1>2, <2>1 DEF BankAccount
<1>4. Credited(st, a, n) = [st EXCEPT ![a] = acct]
  BY <1>1, <1>2 DEF Credited, BankFile, BankAccount
<1>5. [st EXCEPT ![a] = acct] \in BankFile
  BY <1>3, FileExcept
<1> QED
  BY <1>4, <1>5

LEMMA MovedFile ==
    ASSUME NEW st \in BankFile, NEW a, NEW b, NEW n \in Nat, CanMove(st, a, b, n)
    PROVE  Moved(st, a, b, n) \in BankFile
<1>1. CanDebit(st, a, n) /\ Exists(st, b)
  BY DEF CanMove
<1>2. Debited(st, a, n) \in BankFile /\ Debited(st, a, n)[a] \in BankAccount
  BY <1>1, DebitedFile
<1>3. Exists(Debited(st, a, n), b)
  <2>1. CASE b = a
    BY <1>1, <1>2, <2>1, BankAssumption DEF Exists
  <2>2. CASE b # a
    BY <1>1, <2>2 DEF Debited, Exists, BankFile
  <2> QED
    BY <2>1, <2>2
<1> QED
  BY <1>2, <1>3, CreditedFile DEF Moved

\* A send: the statement also says what was settled.
LEMMA SentFile ==
    ASSUME NEW st \in BankFile, NEW a, NEW n \in Nat, CanDebit(st, a, n), NEW done \in Nat
    PROVE  [Debited(st, a, n) EXCEPT ![a].settled = @ + done] \in BankFile
<1>1. PICK new : new = Debited(st, a, n)
  OBVIOUS
<1>2. new \in BankFile /\ new[a] \in BankAccount
  BY <1>1, DebitedFile
<1>3. [new[a] EXCEPT !.settled = @ + done] \in BankAccount
  BY <1>2 DEF BankAccount
<1>4. [new EXCEPT ![a] = [new[a] EXCEPT !.settled = @ + done]] \in BankFile
  BY <1>2, <1>3, FileExcept
<1> QED
  BY <1>1, <1>4

LEMMA CoreSyncedFile ==
    ASSUME NEW st \in BankFile, NEW balances \in [CoreAccounts -> Nat]
    PROVE  CoreSynced(st, balances) \in BankFile
<1>1. ASSUME NEW a \in Account
      PROVE  CoreSynced(st, balances)[a] \in BankAccount \cup {NoAccount}
  <2>1. CASE a \notin CoreAccounts
    BY <2>1 DEF CoreSynced, BankFile
  <2>2. CASE a \in CoreAccounts
    <3>1. PICK was : was = (IF st[a] = NoAccount THEN WithSystemAccount(st, a, CoreCurrency) ELSE st)[a]
      OBVIOUS
    <3>2. was \in BankAccount
      <4>1. CASE st[a] = NoAccount
        <5>1. was = [currency |-> CoreCurrency, opening |-> 0, bal |-> 0,
                     in |-> 0, out |-> 0, settled |-> 0]
          BY <3>1, <4>1 DEF WithSystemAccount, BankFile
        <5> QED
          BY <5>1, BankAssumption DEF BankAccount
      <4>2. CASE st[a] # NoAccount
        BY <3>1, <4>2 DEF BankFile
      <4> QED
        BY <4>1, <4>2
    <3>3. CoreSynced(st, balances)[a] = [was EXCEPT !.bal = balances[a]]
      BY <2>2, <3>1 DEF CoreSynced
    <3>4. balances[a] \in Nat
      BY <2>2
    <3> QED
      BY <3>2, <3>3, <3>4 DEF BankAccount
  <2> QED
    BY <2>1, <2>2
<1>2. CoreSynced(st, balances) = [a \in Account |-> CoreSynced(st, balances)[a]]
  BY DEF CoreSynced
<1> QED
  BY <1>1, <1>2 DEF BankFile

LEMMA MirroredFile ==
    ASSUME NEW old \in MirrorFile, NEW st \in BankFile
    PROVE  Mirrored(old, st) \in MirrorFile
<1>1. ASSUME NEW a \in Account
      PROVE  (IF st[a] = NoAccount THEN old[a] ELSE st[a].bal) \in Nat \cup {NoMirror}
  BY DEF MirrorFile, BankFile, BankAccount
<1> QED
  BY <1>1 DEF Mirrored, MirrorFile

-----------------------------------------------------------------------------
(* The cards *)

LEMMA MaxOfTwo ==
    ASSUME NEW a \in Nat, NEW b \in Nat
    PROVE  Max({a, b}) \in Nat /\ Max({a, b}) >= a
<1>1. \E x \in {a, b} : \A y \in {a, b} : x >= y
  <2>1. CASE a >= b
    BY <2>1
  <2>2. CASE b >= a
    BY <2>2
  <2> QED
    BY <2>1, <2>2
<1>2. Max({a, b}) \in {a, b} /\ \A y \in {a, b} : Max({a, b}) >= y
  BY <1>1, Zenon DEF Max
<1> QED
  BY <1>2

\* Files that a request reads as it computes a limit: it takes one that does not
\* parse for an empty one.
LEMMA MoneyIsNat ==
    ASSUME NEW k \in Card, NEW st \in BankFile \cup {Broken}, NEW ms \in MirrorFile \cup {Broken}
    PROVE  MoneyOf(k, st, ms) \in Nat
<1>1. k.acct \in Account
  BY DEF Card
<1>2. PICK mirror : mirror = IF k.issuer = "hybx" /\ ms # Broken /\ ms[k.acct] # NoMirror
                             THEN ms[k.acct] ELSE 0
  OBVIOUS
<1>3. mirror \in Nat
  BY <1>1, <1>2 DEF MirrorFile
<1>4. PICK own : own = IF st = Broken \/ st[k.acct] = NoAccount THEN mirror ELSE st[k.acct].bal
  OBVIOUS
<1>5. own \in Nat
  BY <1>1, <1>3, <1>4 DEF BankFile, BankAccount
<1> QED
  BY <1>2, <1>3, <1>4, <1>5 DEF MoneyOf

LEMMA SyncedData ==
    ASSUME NEW k \in Card, NEW st \in BankFile \cup {Broken}, NEW ms \in MirrorFile \cup {Broken},
           NEW rec \in CardData
    PROVE  /\ Synced(k, rec, st, ms) \in CardData
           /\ Synced(k, rec, st, ms).spent = rec.spent
           /\ Synced(k, rec, st, ms).limit >= rec.limit
<1>1. PICK n : n = MoneyOf(k, st, ms)
  OBVIOUS
<1>2. n \in Nat /\ rec.limit \in Nat
  BY <1>1, MoneyIsNat DEF CardData
<1>3. PICK more : more = Max({rec.limit, n})
  OBVIOUS
<1>4. more \in Nat /\ more >= rec.limit
  BY <1>2, <1>3, MaxOfTwo
<1>5. Synced(k, rec, st, ms) = [rec EXCEPT !.limit = more]
  BY <1>1, <1>3 DEF Synced
<1> QED
  BY <1>4, <1>5 DEF CardData

LEMMA NewCardData ==
    ASSUME CardAssumption, NEW balance \in Nat
    PROVE  NewCard(balance) \in CardData /\ NewCard(balance).spent <= NewCard(balance).limit
BY DEF NewCard, CardData, CardAssumption

LEMMA CardsExcept ==
    ASSUME NEW f, CardsSound(f), NEW k, NEW rec \in CardData, rec.spent <= rec.limit
    PROVE  CardsSound([f EXCEPT ![k] = rec])
BY DEF CardsSound, CardFile, CardData

LEMMA RefreshedSound ==
    ASSUME CardAssumption, NEW f, CardsSound(f),
           NEW st \in BankFile \cup {Broken}, NEW ms \in MirrorFile \cup {Broken}
    PROVE  CardsSound(Refreshed(f, st, ms))
<1>1. ASSUME NEW k \in Card, f[k] # NoCard
      PROVE  /\ Synced(k, f[k], st, ms) \in CardData
             /\ Synced(k, f[k], st, ms).spent <= Synced(k, f[k], st, ms).limit
  <2>1. f[k] \in CardData /\ f[k].spent <= f[k].limit
    BY <1>1 DEF CardsSound, CardFile, CardData
  <2>2. PICK g : g = Synced(k, f[k], st, ms)
    OBVIOUS
  <2>3. g \in CardData /\ g.spent = f[k].spent /\ g.limit >= f[k].limit
    BY <2>1, <2>2, SyncedData
  <2>4. g.spent <= g.limit
    BY <2>1, <2>3 DEF CardData
  <2> QED
    BY <2>2, <2>3, <2>4
<1> QED
  BY <1>1 DEF CardsSound, CardFile, Refreshed, CardData

LEMMA WithCardsSound ==
    ASSUME CardAssumption, NEW f, CardsSound(f), NEW st \in BankFile, NEW ms \in MirrorFile
    PROVE  CardsSound(WithCards(f, st, ms))
<1> DEFINE new == WithCards(f, st, ms)
<1>1. ASSUME NEW k \in Card
      PROVE  /\ new[k] \in CardData \cup {NoCard}
             /\ new[k] # NoCard => new[k].spent <= new[k].limit
  <2>1. k.acct \in Account
    BY DEF Card
  <2>2. CASE new[k] = f[k]
    BY <2>2 DEF CardsSound, CardFile, CardData
  <2>3. CASE new[k] = NoCard
    BY <2>3
  <2>4. CASE st[k.acct] # NoAccount /\ new[k] = NewCard(st[k.acct].bal)
    <3>1. st[k.acct].bal \in Nat
      BY <2>1, <2>4 DEF BankFile, BankAccount
    <3> QED
      BY <2>4, <3>1, NewCardData
  <2>5. CASE ms[k.acct] # NoMirror /\ new[k] = NewCard(HybxBalance(ms[k.acct], st[k.acct]))
    <3>1. HybxBalance(ms[k.acct], st[k.acct]) \in Nat
      BY <2>1, <2>5 DEF HybxBalance, MirrorFile, BankFile, BankAccount
    <3> QED
      BY <2>5, <3>1, NewCardData
  <2> QED
    BY <2>2, <2>3, <2>4, <2>5 DEF WithCards
<1>2. new = [k \in Card |-> new[k]]
  BY DEF WithCards
<1> HIDE DEF new
<1> QED
  BY <1>1, <1>2 DEF CardsSound, CardFile, CardData, new

LEMMA DedupedSound ==
    ASSUME NEW f, CardsSound(f), NEW g \in Deduped(f)
    PROVE  CardsSound(g)
<1>1. PICK keep : g = [k \in Card |-> IF k \in keep THEN f[k] ELSE NoCard]
  BY DEF Deduped
<1> QED
  BY <1>1 DEF CardsSound, CardFile

-----------------------------------------------------------------------------
(* The invariant *)

\* The card a payment is by has the amount left to spend, and the mirror a
\* conversion takes from has it.
CardReady(r, mine) ==
    CardOf(r) \in Card =>
        /\ mine.cards[CardOf(r)] # NoCard
        /\ mine.cards[CardOf(r)].spent + r.amount <= mine.cards[CardOf(r)].limit
MirrorReady(r, mine) ==
    r.acct \in Account =>
        /\ mine.mirrors[r.acct] # NoMirror
        /\ ToMirror(r) \/ mine.mirrors[r.acct] >= r.amount

\* A request whose steps are s: what they rely on will be checked, or has been.
Going(s, r, mine) ==
    /\ s \in Seq(Step) /\ (s # <<>> => r \in CardRequest)
    /\ SavesCards(s) /\ Directed(s, r)
    /\ LedOrOpen(s, "chargeCard", CardChecks, CardMid)
    /\ Led(s, "chargeCard", CardChecks, CardMid) \/ CardReady(r, mine)
    /\ LedOrOpen(s, "moveMirror", MirrorChecks, MirrorMid)
    /\ Led(s, "moveMirror", MirrorChecks, MirrorMid) \/ MirrorReady(r, mine)

FilesSound ==
    /\ bank \in BankFile \cup {NoFile, Broken} /\ mirrors \in MirrorFile \cup {Broken}
    /\ cards # Broken => CardsSound(cards)
    /\ core \in [CoreAccounts -> Nat]

HybxInv ==
    /\ FilesSound
    /\ todo \in [Client -> Seq(Step)] /\ ask \in [Client -> CardRequest \cup {NoRequest}]
    /\ copy \in [Client -> CopyFiles]
    /\ \A c \in Client : CopySound(copy[c]) /\ Going(todo[c], ask[c], copy[c])

LEMMA WholeGoes ==
    ASSUME NEW s, NEW r \in CardRequest, NEW mine, Whole(s, r)
    PROVE  Going(s, r, mine)
BY LedIsLedOrOpen DEF Whole, Going

LEMMA NothingGoes ==
    ASSUME NEW r, NEW mine
    PROVE  Going(<<>>, r, mine)
<1>1. <<>> \in Seq(Step) /\ SavesCards(<<>>) /\ Directed(<<>>, r)
  BY DEF SavesCards, Directed
<1> QED
  BY <1>1, NothingLeft, LedIsLedOrOpen DEF Going

\* The rest of a sequence saves its cards and is as directed.
LEMMA RestKeeps ==
    ASSUME NEW s \in Seq(Step), NEW m \in 1..Len(s), NEW t \in Seq(Step), NEW r,
           t = SubSeq(s, m, Len(s)), SavesCards(s), Directed(s, r)
    PROVE  SavesCards(t) /\ Directed(t, r)
<1>1. /\ Len(t) = Len(s) - m + 1 /\ Len(s) \in Nat /\ m \in Nat
      /\ \A k \in 1..Len(t) : k + m - 1 \in m..Len(s) /\ t[k] = s[k + m - 1]
  BY RestOf
<1>2. ASSUME NEW i \in 1..Len(t)
      PROVE  /\ t[i] = "toHybx" => ToMirror(r)
             /\ t[i] = "ensureCards" => i < Len(t) /\ t[i + 1] = "saveCards"
  <2>1. i + m - 1 \in 1..Len(s) /\ t[i] = s[i + m - 1]
    BY <1>1
  <2>2. ASSUME t[i] = "ensureCards"
        PROVE  i < Len(t) /\ t[i + 1] = "saveCards"
    <3>1. i + m - 1 < Len(s) /\ s[(i + m - 1) + 1] = "saveCards"
      BY <2>1, <2>2 DEF SavesCards
    <3>2. i + 1 \in 1..Len(t) /\ (i + 1) + m - 1 = (i + m - 1) + 1
      BY <1>1, <3>1
    <3>3. t[i + 1] = s[(i + 1) + m - 1]
      BY <1>1, <3>2
    <3> QED
      BY <1>1, <3>1, <3>2, <3>3
  <2> QED
    BY <2>1, <2>2 DEF Directed
<1> QED
  BY <1>2 DEF SavesCards, Directed

\* What a step must leave, or bring about, for the steps behind it.
Leaves(step, r, old, new) ==
    /\ step \in CardChecks \/ (step \in CardMid /\ CardReady(r, old)) => CardReady(r, new)
    /\ step \in MirrorChecks \/ (step \in MirrorMid /\ MirrorReady(r, old)) => MirrorReady(r, new)

\* The request after its first step.
LEMMA TailGoes ==
    ASSUME NEW s, NEW r, NEW old, NEW new, s # <<>>, Going(s, r, old), Leaves(s[1], r, old, new)
    PROVE  Going(Tail(s), r, new)
<1>1. s \in Seq(Step) /\ Len(s) \in Nat /\ Len(s) >= 1 /\ r \in CardRequest
  BY DEF Going
<1>2. CASE Len(s) = 1
  <2>1. PICK t : t = Tail(s)
    OBVIOUS
  <2>2. t \in Seq(Step) /\ Len(t) = 0
    BY <1>1, <1>2, <2>1
  <2>3. t = <<>>
    BY <2>2
  <2> QED
    BY <2>1, <2>3, NothingGoes
<1>3. CASE Len(s) > 1
  <2>1. 2 \in 1..Len(s) /\ Tail(s) = SubSeq(s, 2, Len(s))
    BY <1>1, <1>3
  <2>2. PICK t : t = Tail(s)
    OBVIOUS
  <2>3. t \in Seq(Step) /\ t = SubSeq(s, 2, Len(s))
    BY <1>1, <2>1, <2>2
  <2>4. SavesCards(t) /\ Directed(t, r)
    BY <1>1, <2>1, <2>3, RestKeeps DEF Going
  <2>6. ASSUME NEW use, NEW checks, NEW mid, LedOrOpen(s, use, checks, mid)
        PROVE  /\ LedOrOpen(t, use, checks, mid)
               /\ s[1] \notin checks /\ (Led(s, use, checks, mid) \/ s[1] \notin mid)
                  => Led(t, use, checks, mid)
    <3>1. PICK m \in 1..Len(s) : m = 2
      BY <2>1
    <3>2. \A i \in 1..(m - 1) : s[i] \in checks => i = 1
      BY <3>1
    <3>3. m > 1 /\ t = SubSeq(s, m, Len(s))
      BY <2>3, <3>1
    <3> QED
      BY <1>1, <2>3, <2>6, <3>2, <3>3, RestAfter
  <2>7. /\ LedOrOpen(t, "chargeCard", CardChecks, CardMid)
        /\ Led(t, "chargeCard", CardChecks, CardMid) \/ CardReady(r, new)
    BY <2>6 DEF Going, Leaves
  <2>8. /\ LedOrOpen(t, "moveMirror", MirrorChecks, MirrorMid)
        /\ Led(t, "moveMirror", MirrorChecks, MirrorMid) \/ MirrorReady(r, new)
    BY <2>6 DEF Going, Leaves
  <2> QED
    BY <1>1, <2>2, <2>3, <2>4, <2>7, <2>8 DEF Going
<1>4. Len(s) = 1 \/ Len(s) > 1
  <2>1. PICK L : L = Len(s)
    OBVIOUS
  <2>2. L \in Nat /\ L >= 1
    BY <1>1, <2>1
  <2>3. L = 1 \/ L > 1
    BY <2>2
  <2> QED
    BY <2>1, <2>3
<1> QED
  BY <1>2, <1>3, <1>4

LEMMA MinIs ==
    ASSUME NEW S, S \subseteq Nat, S # {}
    PROVE  Min(S) \in S /\ \A x \in S : Min(S) <= x
<1>1. PICK n \in S : \A x \in S : ~(<<x, n>> \in OpToRel(<, Nat))
  BY NatLessThanWellFounded, WFMin
<1>2. \A x \in S : ~(x < n)
  BY <1>1 DEF OpToRel
<1>3. \A x \in S : n <= x
  BY <1>2
<1>4. Min(S) \in S /\ \A x \in S : Min(S) =< x
  BY <1>3, Zenon DEF Min
<1> QED
  BY <1>4

LEMMA PastMarksGoes ==
    ASSUME NEW s, NEW r, NEW mine, Going(s, r, mine)
    PROVE  Going(PastMarks(s), r, mine)
<1> DEFINE real == {i \in DOMAIN s : s[i] \notin Marks}
<1>1. s \in Seq(Step) /\ Len(s) \in Nat /\ DOMAIN s = 1..Len(s)
  BY DEF Going
<1>2. CASE real = {}
  BY <1>2, NothingGoes DEF PastMarks
<1>3. CASE real # {}
  <2>1. PICK m : m = Min(real)
    OBVIOUS
  <2>2. m \in real /\ \A i \in real : m <= i
    <3>1. real \subseteq Nat
      BY <1>1
    <3> HIDE DEF real
    <3> QED
      BY <1>3, <2>1, <3>1, MinIs
  <2>3. m \in 1..Len(s) /\ \A i \in 1..(m - 1) : s[i] \in Marks
    BY <1>1, <2>2
  <2>4. PICK t : t = SubSeq(s, m, Len(s))
    OBVIOUS
  <2>5. t \in Seq(Step) /\ t # <<>> /\ PastMarks(s) = t
    <3>1. t \in Seq(Step) /\ Len(t) >= 1
      BY <1>1, <2>3, <2>4, RestOf
    <3>2. PastMarks(s) = SubSeq(s, Min(real), Len(s))
      BY <1>3 DEF PastMarks
    <3>3. t # <<>>
      BY <3>1
    <3> QED
      BY <2>1, <2>4, <3>1, <3>2, <3>3
  <2>6. SavesCards(t) /\ Directed(t, r)
    BY <1>1, <2>3, <2>4, <2>5, RestKeeps DEF Going
  <2>7. ASSUME NEW use, NEW checks, NEW mid, LedOrOpen(s, use, checks, mid), checks \cap Marks = {}
        PROVE  LedOrOpen(t, use, checks, mid) /\ (Led(s, use, checks, mid) => Led(t, use, checks, mid))
    <3>1. \A i \in 1..(m - 1) : s[i] \notin checks
      BY <2>3, <2>7
    <3>2. m = 1 \/ (m > 1 /\ 1 \in 1..(m - 1))
      BY <1>1, <2>3
    <3> QED
      BY <1>1, <2>3, <2>4, <2>5, <2>7, <3>1, <3>2, RestAfter
  <2>8. CardChecks \cap Marks = {} /\ MirrorChecks \cap Marks = {}
    BY DEF CardChecks, MirrorChecks, Marks
  <2>9. s # <<>>
    BY <1>1, <2>3
  <2> QED
    BY <2>5, <2>6, <2>7, <2>8, <2>9 DEF Going
<1> QED
  BY <1>2, <1>3

\* The request after the call that has failed.
LEMMA CallFailsGoes ==
    ASSUME NEW s, NEW r, NEW mine, Going(s, r, mine), NEW marks,
           marks = {i \in DOMAIN s : s[i] \in Marks}, marks # {}, s[Min(marks)] = "end"
    PROVE  Going(SubSeq(s, Min(marks), Len(s)), r, mine)
<1>1. s \in Seq(Step) /\ Len(s) \in Nat /\ DOMAIN s = 1..Len(s)
  BY DEF Going
<1>2. PICK m : m = Min(marks)
  OBVIOUS
<1>3. m \in marks /\ \A i \in marks : m <= i
  <2>1. marks \subseteq Nat
    BY <1>1
  <2> QED
    BY <1>2, <2>1, MinIs
<1>4. m \in 1..Len(s) /\ s[m] = "end" /\ \A i \in 1..(m - 1) : s[i] # "try"
  <2>1. m \in 1..Len(s) /\ s[m] = "end"
    BY <1>1, <1>2, <1>3
  <2>2. ASSUME NEW i \in 1..(m - 1), s[i] = "try"
        PROVE  FALSE
    <3>1. i \in 1..Len(s) /\ i < m
      BY <1>1, <2>1
    <3>2. i \in marks
      BY <1>1, <2>2, <3>1 DEF Marks
    <3> QED
      BY <1>1, <1>3, <2>1, <3>1, <3>2
  <2> QED
    BY <2>1, <2>2
<1>5. PICK t : t = SubSeq(s, m, Len(s))
  OBVIOUS
<1>6. t \in Seq(Step) /\ s # <<>>
  BY <1>1, <1>4, <1>5, RestOf
<1>7. SavesCards(t) /\ Directed(t, r)
  BY <1>1, <1>4, <1>5, <1>6, RestKeeps DEF Going
<1>8. ASSUME NEW use, NEW checks, NEW mid, LedOrOpen(s, use, checks, mid), use # "end", "end" \notin checks
      PROVE  LedOrOpen(t, use, checks, mid) /\ (Led(s, use, checks, mid) => Led(t, use, checks, mid))
  BY <1>1, <1>4, <1>5, <1>6, <1>8, RestOfCall
<1>9. "end" \notin CardChecks /\ "end" \notin MirrorChecks
  BY DEF CardChecks, MirrorChecks
<1> QED
  BY <1>2, <1>5, <1>6, <1>7, <1>8, <1>9 DEF Going

-----------------------------------------------------------------------------
(* Steps *)

LEMMA Became ==
    ASSUME HybxInv, NEW c \in Client, NEW s, NEW r \in CardRequest \cup {NoRequest}, NEW mine,
           CopySound(mine), Going(s, r, mine), FilesSound',
           todo' = [todo EXCEPT ![c] = s], ask' = [ask EXCEPT ![c] = r],
           copy' = [copy EXCEPT ![c] = mine]
    PROVE  HybxInv'
<1>1. s \in Seq(Step) /\ mine \in CopyFiles
  BY DEF Going, CopySound
<1>2. /\ todo' \in [Client -> Seq(Step)] /\ ask' \in [Client -> CardRequest \cup {NoRequest}]
      /\ copy' \in [Client -> CopyFiles]
  BY <1>1 DEF HybxInv
<1>3. ASSUME NEW d \in Client
      PROVE  CopySound(copy'[d]) /\ Going(todo'[d], ask'[d], copy'[d])
  <2>1. CASE d = c
    BY <2>1 DEF HybxInv
  <2>2. CASE d # c
    <3>1. copy'[d] = copy[d] /\ todo'[d] = todo[d] /\ ask'[d] = ask[d]
      BY <2>2 DEF HybxInv
    <3> QED
      BY <3>1 DEF HybxInv
  <2> QED
    BY <2>1, <2>2
<1> QED
  BY <1>2, <1>3 DEF HybxInv

LEMMA ContinueKeeps ==
    ASSUME CardAssumption, HybxInv, NEW c \in Client, NEW steps, NEW mine,
           CopySound(mine), Going(steps, ask[c], mine), Continue(c, steps, mine), FilesSound'
    PROVE  HybxInv'
<1>1. PICK rest, r : rest = PastMarks(steps) /\ r = ask[c]
  OBVIOUS
<1>2. /\ todo' = [todo EXCEPT ![c] = rest]
      /\ copy' = [copy EXCEPT ![c] = IF rest = <<>> THEN Blank ELSE mine]
      /\ ask' = [ask EXCEPT ![c] = IF rest = <<>> THEN NoRequest ELSE r]
  BY <1>1 DEF Continue
<1>3. Going(rest, r, mine) /\ r \in CardRequest \cup {NoRequest}
  BY <1>1, PastMarksGoes DEF HybxInv
<1>4. CASE rest = <<>>
  <2>1. ask' = [ask EXCEPT ![c] = NoRequest] /\ copy' = [copy EXCEPT ![c] = Blank]
    BY <1>2, <1>4
  <2>2. Going(rest, NoRequest, Blank)
    BY <1>4, NothingGoes
  <2> QED
    BY <1>2, <2>1, <2>2, BlankSound, Became
<1>5. CASE rest # <<>>
  <2>1. ask' = [ask EXCEPT ![c] = r] /\ copy' = [copy EXCEPT ![c] = mine]
    BY <1>2, <1>5
  <2> QED
    BY <1>2, <1>3, <2>1, Became
<1> QED
  BY <1>4, <1>5

\* The first of the steps a request has before it.
LEMMA AtFirst ==
    ASSUME HybxInv, NEW c \in Client, NEW step, At(c, step)
    PROVE  /\ todo[c] \in Seq(Step) /\ todo[c] # <<>> /\ todo[c][1] = step /\ 1 \in 1..Len(todo[c])
           /\ ask[c] \in CardRequest /\ CopySound(copy[c]) /\ Going(todo[c], ask[c], copy[c])
<1>1. todo[c] # <<>> /\ Head(todo[c]) = step
  BY DEF At
<1>2. CopySound(copy[c]) /\ Going(todo[c], ask[c], copy[c])
  BY DEF HybxInv
<1>3. PICK s : s = todo[c]
  OBVIOUS
<1>4. s \in Seq(Step) /\ s # <<>> /\ Head(s) = step
  BY <1>1, <1>2, <1>3 DEF Going
<1>5. s[1] = step /\ 1 \in 1..Len(s)
  BY <1>4
<1> QED
  BY <1>1, <1>2, <1>3, <1>4, <1>5 DEF Going

LEMMA ProceedKeeps ==
    ASSUME CardAssumption, HybxInv, NEW c \in Client, NEW step, At(c, step), NEW mine,
           CopySound(mine), Leaves(step, ask[c], copy[c], mine), Proceed(c, mine), FilesSound'
    PROVE  HybxInv'
<1>1. PICK s, r, old : s = todo[c] /\ r = ask[c] /\ old = copy[c]
  OBVIOUS
<1>2. s # <<>> /\ s[1] = step /\ Going(s, r, old)
  BY <1>1, AtFirst
<1>3. Going(Tail(s), r, mine)
  BY <1>1, <1>2, TailGoes
<1>4. PICK rest : rest = Tail(s)
  OBVIOUS
<1>5. Continue(c, rest, mine) /\ Going(rest, ask[c], mine)
  BY <1>1, <1>3, <1>4 DEF Proceed
<1> QED
  BY <1>5, ContinueKeeps

LEMMA FailKeeps ==
    ASSUME CardAssumption, HybxInv, NEW c \in Client, Fail(c), FilesSound'
    PROVE  HybxInv'
<1>1. PICK s, r, old : s = todo[c] /\ r = ask[c] /\ old = copy[c]
  OBVIOUS
<1>2. PICK marks : marks = {i \in DOMAIN s : s[i] \in Marks}
  OBVIOUS
<1>3. PICK steps : steps = IF marks # {} /\ s[Min(marks)] = "end"
                           THEN SubSeq(s, Min(marks), Len(s)) ELSE <<>>
  OBVIOUS
<1>4. Continue(c, steps, old)
  BY <1>1, <1>2, <1>3 DEF Fail
<1>5. CopySound(old) /\ Going(s, r, old)
  BY <1>1 DEF HybxInv
<1>6. Going(steps, r, old)
  <2>1. CASE marks # {} /\ s[Min(marks)] = "end"
    BY <1>2, <1>3, <1>5, <2>1, CallFailsGoes
  <2>2. CASE ~(marks # {} /\ s[Min(marks)] = "end")
    <3>1. steps = <<>>
      BY <1>3, <2>2
    <3> QED
      BY <3>1, NothingGoes
  <2> QED
    BY <2>1, <2>2
<1> QED
  BY <1>1, <1>4, <1>5, <1>6, ContinueKeeps

LEMMA FilesStay ==
    ASSUME HybxInv, UNCHANGED <<bank, mirrors, cards, core>>
    PROVE  FilesSound'
BY DEF HybxInv, FilesSound

\* A copy of which one file is another.
LEMMA WithBank ==
    ASSUME NEW old, CopySound(old), NEW st \in BankFile
    PROVE  /\ CopySound([old EXCEPT !.bank = st])
           /\ [old EXCEPT !.bank = st].cards = old.cards
           /\ [old EXCEPT !.bank = st].mirrors = old.mirrors
BY DEF CopySound, CopyFiles

LEMMA WithMirrors ==
    ASSUME NEW old, CopySound(old), NEW ms \in MirrorFile
    PROVE  /\ CopySound([old EXCEPT !.mirrors = ms])
           /\ [old EXCEPT !.mirrors = ms].cards = old.cards
           /\ [old EXCEPT !.mirrors = ms].mirrors = ms
BY DEF CopySound, CopyFiles

LEMMA WithTheCards ==
    ASSUME NEW old, CopySound(old), NEW f, CardsSound(f)
    PROVE  /\ CopySound([old EXCEPT !.cards = f])
           /\ [old EXCEPT !.cards = f].cards = f
           /\ [old EXCEPT !.cards = f].mirrors = old.mirrors
BY DEF CopySound, CopyFiles, CardsSound

\* A step that checks nothing, and leaves the copies alone that are relied on
\* where it may stand.
LEMMA LeavesCopies ==
    ASSUME NEW step, NEW r, NEW old, NEW new, step \notin CardChecks \cup MirrorChecks,
           step \in CardMid => new.cards = old.cards,
           step \in MirrorMid => new.mirrors = old.mirrors
    PROVE  Leaves(step, r, old, new)
BY DEF Leaves, CardReady, MirrorReady

\* A step that leaves the files and goes on with a copy, or fails.
LEMMA ReadsKeeps ==
    ASSUME CardAssumption, HybxInv, NEW c \in Client, NEW step, At(c, step), NEW mine, FilesSound',
           \/ CopySound(mine) /\ Leaves(step, ask[c], copy[c], mine) /\ Proceed(c, mine)
           \/ Fail(c)
    PROVE  HybxInv'
BY ProceedKeeps, FailKeeps

LEMMA InFiles ==
    ASSUME HybxInv
    PROVE  /\ CanLoad => Loaded \in BankFile
           /\ CanLoadMirrors => mirrors \in MirrorFile
           /\ CanLoadCards => CardsSound(cards)
           /\ mirrors \in MirrorFile \cup {Broken}
BY LoadedFile DEF HybxInv, FilesSound, CanLoadMirrors, CanLoadCards

LEMMA RequestAmount ==
    ASSUME NEW r \in CardRequest
    PROVE  r.amount \in Nat
BY DEF CardRequest

-----------------------------------------------------------------------------
(* The bank's steps *)

\* A step that only changes the request's copy of the bank.
LEMMA BankReadKeeps ==
    ASSUME CardAssumption, HybxInv, NEW c \in Client, NEW step, NEW st,
           step \notin CardChecks \cup MirrorChecks,
           At(c, step), UNCHANGED <<bank, mirrors, cards, core>>,
           (st \in BankFile /\ Proceed(c, [copy[c] EXCEPT !.bank = st])) \/ Fail(c)
    PROVE  HybxInv'
<1>1. PICK old, mine : old = copy[c] /\ mine = [copy[c] EXCEPT !.bank = st]
  OBVIOUS
<1>2. CopySound(old)
  BY <1>1, AtFirst
<1>3. ASSUME st \in BankFile
      PROVE  CopySound(mine) /\ Leaves(step, ask[c], copy[c], mine)
  BY <1>1, <1>2, <1>3, WithBank, LeavesCopies
<1> QED
  BY <1>1, <1>3, FilesStay, ReadsKeeps

LEMMA BankReadsKeep ==
    ASSUME CardAssumption, HybxInv, NEW c \in Client,
           ConvertBank(c) \/ Debit(c) \/ MoveToCore(c) \/ CoreSync(c)
    PROVE  HybxInv'
<1>1. PICK r, st0 : r = ask[c] /\ st0 = Loaded
  OBVIOUS
<1>2. CanLoad => st0 \in BankFile
  BY <1>1, InFiles
<1>3. CASE ConvertBank(c)
  <2>1. At(c, "convertBank") /\ UNCHANGED <<bank, mirrors, cards, core>>
    BY <1>3 DEF ConvertBank, Reads
  <2>2. r.amount \in Nat
    BY <1>1, <2>1, AtFirst, RequestAmount
  <2>3. PICK st : st = IF ToMirror(r) THEN Debited(st0, r.acct, r.amount) ELSE Credited(st0, r.acct, r.amount)
    OBVIOUS
  <2>4. \/ Fail(c)
        \/ /\ CanLoad /\ Proceed(c, [copy[c] EXCEPT !.bank = st])
           /\ IF ToMirror(r) THEN CanDebit(st0, r.acct, r.amount) ELSE CanDeposit(st0, r.acct, r.amount)
    BY <1>1, <1>3, <2>3 DEF ConvertBank, Reads
  <2>5. CASE Fail(c)
    BY <2>1, <2>5, FilesStay, FailKeeps
  <2>6. CASE /\ CanLoad /\ Proceed(c, [copy[c] EXCEPT !.bank = st])
             /\ IF ToMirror(r) THEN CanDebit(st0, r.acct, r.amount) ELSE CanDeposit(st0, r.acct, r.amount)
    <3>1. st \in BankFile
      <4>1. CASE ToMirror(r)
        BY <1>2, <2>2, <2>3, <2>6, <4>1, DebitedFile
      <4>2. CASE ~ToMirror(r)
        BY <1>2, <2>2, <2>3, <2>6, <4>2, CreditedFile DEF CanDeposit
      <4> QED
        BY <4>1, <4>2
    <3>2. "convertBank" \notin CardChecks \cup MirrorChecks
      BY DEF CardChecks, MirrorChecks
    <3> QED
      BY <2>1, <2>6, <3>1, <3>2, BankReadKeeps
  <2> QED
    BY <2>4, <2>5, <2>6
<1>4. CASE Debit(c)
  <2>1. At(c, "debit") /\ UNCHANGED <<bank, mirrors, cards, core>>
    BY <1>4 DEF Debit, Reads
  <2>2. r.amount \in Nat
    BY <1>1, <2>1, AtFirst, RequestAmount
  <2>3. PICK st : st = Debited(st0, r.acct, r.amount)
    OBVIOUS
  <2>4. \/ Fail(c)
        \/ CanLoad /\ CanDebit(st0, r.acct, r.amount) /\ Proceed(c, [copy[c] EXCEPT !.bank = st])
    BY <1>1, <1>4, <2>3 DEF Debit, Reads
  <2>5. CanLoad /\ CanDebit(st0, r.acct, r.amount) => st \in BankFile
    BY <1>2, <2>2, <2>3, DebitedFile
  <2>6. "debit" \notin CardChecks \cup MirrorChecks
    BY DEF CardChecks, MirrorChecks
  <2> QED
    BY <2>1, <2>4, <2>5, <2>6, BankReadKeeps
<1>5. CASE MoveToCore(c)
  <2>1. At(c, "moveToCore") /\ UNCHANGED <<bank, mirrors, cards, core>>
    BY <1>5 DEF MoveToCore, Reads
  <2>2. r.amount \in Nat
    BY <1>1, <2>1, AtFirst, RequestAmount
  <2>3. PICK st : st = Moved(st0, r.acct, CoreAccount, r.amount)
    OBVIOUS
  <2>4. \/ Fail(c)
        \/ /\ CanLoad /\ CanMove(st0, r.acct, CoreAccount, r.amount)
           /\ Proceed(c, [copy[c] EXCEPT !.bank = st])
    BY <1>1, <1>5, <2>3 DEF MoveToCore, Reads
  <2>5. CanLoad /\ CanMove(st0, r.acct, CoreAccount, r.amount) => st \in BankFile
    BY <1>2, <2>2, <2>3, MovedFile
  <2>6. "moveToCore" \notin CardChecks \cup MirrorChecks
    BY DEF CardChecks, MirrorChecks
  <2> QED
    BY <2>1, <2>4, <2>5, <2>6, BankReadKeeps
<1>6. CASE CoreSync(c)
  <2>1. At(c, "coreSync") /\ UNCHANGED <<bank, mirrors, cards, core>>
    BY <1>6 DEF CoreSync, Reads
  <2>2. PICK st : st = CoreSynced(st0, core)
    OBVIOUS
  <2>3. \/ Fail(c)
        \/ CanLoad /\ Proceed(c, [copy[c] EXCEPT !.bank = st])
    BY <1>1, <1>6, <2>2 DEF CoreSync, Reads
  <2>4. CanLoad => st \in BankFile
    <3>1. PICK b : b = core
      OBVIOUS
    <3>2. b \in [CoreAccounts -> Nat]
      BY <3>1 DEF HybxInv, FilesSound
    <3> QED
      BY <1>2, <2>2, <3>1, <3>2, CoreSyncedFile
  <2>5. "coreSync" \notin CardChecks \cup MirrorChecks
    BY DEF CardChecks, MirrorChecks
  <2> QED
    BY <2>1, <2>3, <2>4, <2>5, BankReadKeeps
<1> QED
  BY <1>3, <1>4, <1>5, <1>6

LEMMA SendOutKeeps ==
    ASSUME CardAssumption, HybxInv, NEW c \in Client, SendOut(c)
    PROVE  HybxInv'
<1>1. At(c, "send") /\ UNCHANGED <<bank, mirrors, cards, core>>
  BY DEF SendOut
<1>2. PICK r, st0 : r = ask[c] /\ st0 = Loaded
  OBVIOUS
<1>3. r.amount \in Nat /\ (CanLoad => st0 \in BankFile)
  BY <1>1, <1>2, AtFirst, RequestAmount, InFiles
<1>4. CASE Fail(c)
  BY <1>1, <1>4, FilesStay, FailKeeps
<1>5. CASE CanLoad /\ CanDebit(st0, r.acct, r.amount) /\ \E sent :
             Proceed(c, [copy[c] EXCEPT !.bank = [Debited(st0, r.acct, r.amount) EXCEPT
                ![r.acct].settled = @ + (IF sent.completed THEN r.amount ELSE 0)]])
  <2>1. PICK sent : Proceed(c, [copy[c] EXCEPT !.bank = [Debited(st0, r.acct, r.amount) EXCEPT
                ![r.acct].settled = @ + (IF sent.completed THEN r.amount ELSE 0)]])
    BY <1>5
  <2>2. PICK done \in Nat : done = IF sent.completed THEN r.amount ELSE 0
    <3>1. CASE sent.completed
      BY <1>3, <3>1
    <3>2. CASE ~sent.completed
      BY <3>2
    <3> QED
      BY <3>1, <3>2
  <2>3. PICK st : st = [Debited(st0, r.acct, r.amount) EXCEPT ![r.acct].settled = @ + done]
    OBVIOUS
  <2>4. st \in BankFile
    BY <1>3, <1>5, <2>3, SentFile
  <2>5. Proceed(c, [copy[c] EXCEPT !.bank = st])
    BY <2>1, <2>2, <2>3
  <2>6. "send" \notin CardChecks \cup MirrorChecks
    BY DEF CardChecks, MirrorChecks
  <2> QED
    BY <1>1, <2>4, <2>5, <2>6, BankReadKeeps
<1> QED
  BY <1>2, <1>4, <1>5 DEF SendOut

-----------------------------------------------------------------------------
(* The steps of mirrors *)

LEMMA MirrorSyncKeeps ==
    ASSUME CardAssumption, HybxInv, NEW c \in Client, MirrorSync(c)
    PROVE  HybxInv'
<1>1. At(c, "mirrorSync") /\ UNCHANGED <<bank, mirrors, cards, core>>
  BY DEF MirrorSync, Reads
<1>2. PICK old, ms : old = copy[c] /\ ms = Mirrored(mirrors, Loaded)
  OBVIOUS
<1>3. \/ Fail(c)
      \/ CanLoad /\ CanLoadMirrors /\ Proceed(c, [old EXCEPT !.mirrors = ms])
  BY <1>2 DEF MirrorSync, Reads
<1>4. CASE Fail(c)
  BY <1>1, <1>4, FilesStay, FailKeeps
<1>5. CASE CanLoad /\ CanLoadMirrors /\ Proceed(c, [old EXCEPT !.mirrors = ms])
  <2>1. ms \in MirrorFile
    <3>1. PICK ms0, st0 : ms0 = mirrors /\ st0 = Loaded
      OBVIOUS
    <3>2. ms0 \in MirrorFile /\ st0 \in BankFile
      BY <1>5, <3>1, InFiles
    <3> QED
      BY <1>2, <3>1, <3>2, MirroredFile
  <2>2. PICK mine : mine = [old EXCEPT !.mirrors = ms]
    OBVIOUS
  <2>3. CopySound(mine) /\ mine.cards = old.cards
    BY <1>1, <1>2, <2>1, <2>2, AtFirst, WithMirrors
  <2>4. "mirrorSync" \notin CardChecks \cup MirrorChecks \cup MirrorMid
    BY DEF CardChecks, MirrorChecks, MirrorMid
  <2>5. Leaves("mirrorSync", ask[c], old, mine)
    BY <2>3, <2>4, LeavesCopies
  <2> QED
    BY <1>1, <1>2, <1>5, <2>2, <2>3, <2>5, FilesStay, ReadsKeeps
<1> QED
  BY <1>3, <1>4, <1>5

\* A step that writes, and leaves the copies.
LEMMA WritesKeep ==
    ASSUME CardAssumption, HybxInv, NEW c \in Client, NEW step, At(c, step), FilesSound',
           step \notin CardChecks \cup MirrorChecks, Proceed(c, copy[c]) \/ Fail(c)
    PROVE  HybxInv'
<1>1. CopySound(copy[c])
  BY AtFirst
<1>2. Leaves(step, ask[c], copy[c], copy[c])
  BY LeavesCopies
<1> QED
  BY <1>1, <1>2, ReadsKeeps

LEMMA SaveMirrorsKeeps ==
    ASSUME CardAssumption, HybxInv, NEW c \in Client, SaveMirrors(c)
    PROVE  HybxInv'
<1>1. At(c, "saveMirrors") /\ UNCHANGED <<bank, cards, core>>
  BY DEF SaveMirrors
<1>2. /\ Proceed(c, copy[c]) \/ Fail(c)
      /\ mirrors' \in {copy[c].mirrors, mirrors, Broken}
  BY DEF SaveMirrors
<1>3. copy[c].mirrors \in MirrorFile
  BY DEF HybxInv, CopyFiles
<1>4. FilesSound'
  BY <1>1, <1>2, <1>3 DEF HybxInv, FilesSound
<1>5. "saveMirrors" \notin CardChecks \cup MirrorChecks
  BY DEF CardChecks, MirrorChecks
<1> QED
  BY <1>1, <1>2, <1>4, <1>5, WritesKeep

LEMMA ReadMirrorKeeps ==
    ASSUME CardAssumption, HybxInv, NEW c \in Client, ReadMirror(c)
    PROVE  HybxInv'
<1>1. PICK old, ms, r : old = copy[c] /\ ms = mirrors /\ r = ask[c]
  OBVIOUS
<1>2. PICK direction \in {"toHybx", "fromHybx"} :
         /\ At(c, direction) /\ UNCHANGED <<bank, mirrors, cards, core>>
         /\ \/ Fail(c)
            \/ /\ CanLoadMirrors /\ ms[r.acct] # NoMirror
               /\ direction = "fromHybx" => ms[r.acct] >= r.amount
               /\ Proceed(c, [old EXCEPT !.mirrors = ms])
  BY <1>1 DEF ReadMirror, Reads
<1>3. CASE Fail(c)
  BY <1>2, <1>3, FilesStay, FailKeeps
<1>4. CASE /\ CanLoadMirrors /\ ms[r.acct] # NoMirror
           /\ direction = "fromHybx" => ms[r.acct] >= r.amount
           /\ Proceed(c, [old EXCEPT !.mirrors = ms])
  <2>1. ms \in MirrorFile
    BY <1>1, <1>4, InFiles
  <2>2. PICK mine : mine = [old EXCEPT !.mirrors = ms]
    OBVIOUS
  <2>3. CopySound(mine) /\ mine.cards = old.cards /\ mine.mirrors = ms
    BY <1>1, <1>2, <2>1, <2>2, AtFirst, WithMirrors
  <2>4. direction = "toHybx" => ToMirror(r)
    <3>1. PICK s : s = todo[c]
      OBVIOUS
    <3>2. Going(s, r, old) /\ s[1] = direction /\ 1 \in 1..Len(s)
      BY <1>1, <1>2, <3>1, AtFirst
    <3> QED
      BY <3>2 DEF Going, Directed
  <2>5. MirrorReady(r, mine)
    BY <1>4, <2>3, <2>4 DEF MirrorReady
  <2>6. direction \notin CardChecks /\ direction \notin CardMid
    BY DEF CardChecks, CardMid
  <2>7. Leaves(direction, r, old, mine)
    BY <2>5, <2>6 DEF Leaves
  <2> QED
    BY <1>1, <1>2, <1>4, <2>2, <2>3, <2>7, FilesStay, ReadsKeeps
<1> QED
  BY <1>2, <1>3, <1>4

\* A step that relies on a check has no step before it that could be the check:
\* the check was made.
LEMMA NoneBeforeFirst ==
    ASSUME NEW s \in Seq(Step), NEW use, NEW checks, NEW mid, 1 \in 1..Len(s), s[1] = use
    PROVE  ~Led(s, use, checks, mid)
<1>1. 1..(1 - 1) = {}
  OBVIOUS
<1> QED
  BY <1>1 DEF Led, LedAt

LEMMA MovedMirrors ==
    ASSUME NEW ms \in MirrorFile, NEW r \in CardRequest,
           r.acct \in Account => ms[r.acct] # NoMirror /\ (ToMirror(r) \/ ms[r.acct] >= r.amount)
    PROVE  [ms EXCEPT ![r.acct] = IF ToMirror(r) THEN @ + r.amount ELSE @ - r.amount] \in MirrorFile
<1>1. PICK n : n = IF ToMirror(r) THEN ms[r.acct] + r.amount ELSE ms[r.acct] - r.amount
  OBVIOUS
<1>2. ASSUME r.acct \in Account
      PROVE  n \in Nat
  <2>1. ms[r.acct] \in Nat /\ r.amount \in Nat
    BY <1>2, RequestAmount DEF MirrorFile
  <2> QED
    BY <1>1, <1>2, <2>1
<1> QED
  BY <1>1, <1>2 DEF MirrorFile

LEMMA MoveMirrorKeeps ==
    ASSUME CardAssumption, HybxInv, NEW c \in Client, MoveMirror(c)
    PROVE  HybxInv'
<1>1. At(c, "moveMirror") /\ UNCHANGED <<bank, mirrors, cards, core>>
  BY DEF MoveMirror, Reads
<1>2. PICK old, r, s : old = copy[c] /\ r = ask[c] /\ s = todo[c]
  OBVIOUS
<1>3. /\ Going(s, r, old) /\ CopySound(old) /\ r \in CardRequest
      /\ s \in Seq(Step) /\ s[1] = "moveMirror" /\ 1 \in 1..Len(s)
  BY <1>1, <1>2, AtFirst
<1>4. MirrorReady(r, old)
  BY <1>3, NoneBeforeFirst DEF Going
<1>5. PICK ms : ms = [old.mirrors EXCEPT ![r.acct] = IF ToMirror(r) THEN @ + r.amount ELSE @ - r.amount]
  OBVIOUS
<1>6. ms \in MirrorFile
  <2>1. PICK ms0 : ms0 = old.mirrors
    OBVIOUS
  <2>2. ms0 \in MirrorFile
    BY <1>3, <2>1 DEF CopySound, CopyFiles
  <2> QED
    BY <1>3, <1>4, <1>5, <2>1, <2>2, MovedMirrors DEF MirrorReady
<1>7. PICK mine : mine = [old EXCEPT !.mirrors = ms]
  OBVIOUS
<1>8. Proceed(c, mine)
  BY <1>2, <1>5, <1>7 DEF MoveMirror, Reads
<1>9. CopySound(mine) /\ mine.cards = old.cards
  BY <1>3, <1>6, <1>7, WithMirrors
<1>10. "moveMirror" \notin CardChecks \cup MirrorChecks \cup MirrorMid
  BY DEF CardChecks, MirrorChecks, MirrorMid
<1>11. Leaves("moveMirror", r, old, mine)
  BY <1>9, <1>10, LeavesCopies
<1> QED
  BY <1>1, <1>2, <1>8, <1>9, <1>11, FilesStay, ReadsKeeps

LEMMA DebitMirrorKeeps ==
    ASSUME CardAssumption, HybxInv, NEW c \in Client, DebitMirror(c)
    PROVE  HybxInv'
<1>1. At(c, "debitMirror") /\ UNCHANGED <<bank, mirrors, cards, core>>
  BY DEF DebitMirror, Reads
<1>2. PICK old, r, ms0 : old = copy[c] /\ r = ask[c] /\ ms0 = mirrors
  OBVIOUS
<1>3. PICK ms : ms = [ms0 EXCEPT ![r.acct] = IF @ > r.amount THEN @ - r.amount ELSE 0]
  OBVIOUS
<1>4. \/ Fail(c)
      \/ CanLoadMirrors /\ ms0[r.acct] # NoMirror /\ Proceed(c, [old EXCEPT !.mirrors = ms])
  BY <1>2, <1>3 DEF DebitMirror, Reads
<1>5. CASE Fail(c)
  BY <1>1, <1>5, FilesStay, FailKeeps
<1>6. CASE CanLoadMirrors /\ ms0[r.acct] # NoMirror /\ Proceed(c, [old EXCEPT !.mirrors = ms])
  <2>1. CopySound(old) /\ r.amount \in Nat /\ ms0 \in MirrorFile
    BY <1>1, <1>2, <1>6, AtFirst, RequestAmount, InFiles
  <2>2. r.acct \in Account => ms0[r.acct] \in Nat
    BY <1>6, <2>1 DEF MirrorFile
  <2>3. ms \in MirrorFile
    <3>1. PICK n : n = IF ms0[r.acct] > r.amount THEN ms0[r.acct] - r.amount ELSE 0
      OBVIOUS
    <3>2. r.acct \in Account => n \in Nat
      BY <2>1, <2>2, <3>1
    <3> QED
      BY <1>3, <2>1, <3>1, <3>2 DEF MirrorFile
  <2>4. PICK mine : mine = [old EXCEPT !.mirrors = ms]
    OBVIOUS
  <2>5. CopySound(mine) /\ mine.cards = old.cards
    BY <2>1, <2>3, <2>4, WithMirrors
  <2>6. "debitMirror" \notin CardChecks \cup MirrorChecks \cup MirrorMid
    BY DEF CardChecks, MirrorChecks, MirrorMid
  <2>7. Leaves("debitMirror", r, old, mine)
    BY <2>5, <2>6, LeavesCopies
  <2> QED
    BY <1>1, <1>2, <1>6, <2>4, <2>5, <2>7, FilesStay, ReadsKeeps
<1> QED
  BY <1>4, <1>5, <1>6

-----------------------------------------------------------------------------
(* The steps that write the bank, and what is told to others *)

LEMMA SeedBankKeeps ==
    ASSUME CardAssumption, HybxInv, NEW c \in Client, SeedBank(c)
    PROVE  HybxInv'
<1>1. At(c, "seed") /\ UNCHANGED <<mirrors, cards, core>>
  BY DEF SeedBank
<1>2. /\ Proceed(c, copy[c]) \/ Fail(c)
      /\ bank' \in {bank, Seeded, Broken}
  BY DEF SeedBank, Save, SaveFails
<1>3. FilesSound'
  BY <1>1, <1>2, BankAssumption DEF HybxInv, FilesSound
<1>4. "seed" \notin CardChecks \cup MirrorChecks
  BY DEF CardChecks, MirrorChecks
<1> QED
  BY <1>1, <1>2, <1>3, <1>4, WritesKeep

LEMMA TellCoreKeeps ==
    ASSUME CardAssumption, HybxInv, NEW c \in Client, TellCore(c)
    PROVE  HybxInv'
<1>1. At(c, "tellCore") /\ UNCHANGED <<bank, mirrors, cards>>
  BY DEF TellCore
<1>2. PICK n, a : n = ask[c].amount /\ a = CoreAccount
  OBVIOUS
<1>3. n \in Nat
  BY <1>1, <1>2, AtFirst, RequestAmount
<1>4. /\ Proceed(c, copy[c]) \/ Fail(c)
      /\ core' = core \/ core' = [core EXCEPT ![a] = core[a] + n]
  BY <1>2 DEF TellCore, CoreGives
<1>5. core' \in [CoreAccounts -> Nat]
  <2>1. core \in [CoreAccounts -> Nat]
    BY DEF HybxInv, FilesSound
  <2>2. a \in CoreAccounts => core[a] + n \in Nat
    BY <1>3, <2>1
  <2> QED
    BY <1>4, <2>1, <2>2
<1>6. FilesSound'
  BY <1>1, <1>5 DEF HybxInv, FilesSound
<1>7. "tellCore" \notin CardChecks \cup MirrorChecks
  BY DEF CardChecks, MirrorChecks
<1> QED
  BY <1>1, <1>4, <1>6, <1>7, WritesKeep

LEMMA SaveBankKeeps ==
    ASSUME CardAssumption, HybxInv, NEW c \in Client, SaveBank(c)
    PROVE  HybxInv'
<1>1. At(c, "saveBank") /\ UNCHANGED <<mirrors, cards, core>>
  BY DEF SaveBank
<1>2. /\ Proceed(c, copy[c]) \/ Fail(c)
      /\ bank' \in {bank, copy[c].bank, Broken}
  BY DEF SaveBank, Save, SaveFails
<1>3. copy[c].bank \in BankFile
  BY DEF HybxInv, CopyFiles
<1>4. FilesSound'
  BY <1>1, <1>2, <1>3 DEF HybxInv, FilesSound
<1>5. "saveBank" \notin CardChecks \cup MirrorChecks
  BY DEF CardChecks, MirrorChecks
<1> QED
  BY <1>1, <1>2, <1>4, <1>5, WritesKeep

LEMMA FederateKeeps ==
    ASSUME CardAssumption, HybxInv, NEW c \in Client, Federate(c)
    PROVE  HybxInv'
<1>1. At(c, "federate") /\ Proceed(c, copy[c]) /\ UNCHANGED <<bank, mirrors, cards, core>>
  BY DEF Federate
<1>2. "federate" \notin CardChecks \cup MirrorChecks
  BY DEF CardChecks, MirrorChecks
<1> QED
  BY <1>1, <1>2, FilesStay, WritesKeep

-----------------------------------------------------------------------------
(* The steps of cards *)

\* A step that checks nothing, stands before no charge, and changes the copy of
\* the cards.
LEMMA WithOtherCards ==
    ASSUME CardAssumption, HybxInv, NEW c \in Client, NEW step, At(c, step), FilesSound',
           step \notin CardChecks \cup MirrorChecks \cup CardMid, NEW f, CardsSound(f),
           Proceed(c, [copy[c] EXCEPT !.cards = f])
    PROVE  HybxInv'
<1>1. PICK old, mine : old = copy[c] /\ mine = [copy[c] EXCEPT !.cards = f]
  OBVIOUS
<1>2. CopySound(old)
  BY <1>1, AtFirst
<1>3. CopySound(mine) /\ mine.mirrors = old.mirrors
  BY <1>1, <1>2, WithTheCards
<1>4. Leaves(step, ask[c], copy[c], mine)
  BY <1>1, <1>3, LeavesCopies
<1> QED
  BY <1>1, <1>3, <1>4, ReadsKeeps

\* What "ensureCards" makes of the cards and the mirrors.
LEMMA EnsuredFiles ==
    ASSUME CardAssumption, HybxInv, CanLoad, CanLoadCards,
           mirrors' \in IF mirrors # NoMirrors THEN {mirrors}
                        ELSE {Mirrored(mirrors, Loaded)} \cup IF DiskFaults THEN {mirrors, Broken} ELSE {}
    PROVE  mirrors' \in MirrorFile \cup {Broken}
<1>1. CASE mirrors' \in {mirrors, Broken}
  BY <1>1, InFiles
<1>2. CASE mirrors = NoMirrors /\ mirrors' = Mirrored(mirrors, Loaded)
  <2>1. PICK ms, st : ms = NoMirrors /\ st = Loaded
    OBVIOUS
  <2>2. ms \in MirrorFile /\ st \in BankFile
    BY <2>1, InFiles DEF NoMirrors, MirrorFile
  <2> QED
    BY <1>2, <2>1, <2>2, MirroredFile
<1> QED
  BY <1>1, <1>2

LEMMA EnsureAllCardsKeeps ==
    ASSUME CardAssumption, HybxInv, NEW c \in Client, EnsureAllCards(c)
    PROVE  HybxInv'
<1>1. At(c, "ensureCards") /\ UNCHANGED <<bank, cards, core>>
  BY DEF EnsureAllCards
<1>2. CASE CanLoad /\ CanLoadCards
  <2>1. mirrors' \in MirrorFile \cup {Broken}
    BY <1>2, EnsuredFiles DEF EnsureAllCards
  <2>2. FilesSound'
    BY <1>1, <2>1 DEF HybxInv, FilesSound
  <2>3. PICK st, ms, was : st = Loaded /\ was = cards /\ ms = IF mirrors' = Broken THEN NoMirrors ELSE mirrors'
    OBVIOUS
  <2>4. st \in BankFile /\ ms \in MirrorFile /\ CardsSound(was)
    BY <1>2, <2>1, <2>3, InFiles DEF NoMirrors, MirrorFile
  <2>5. PICK f \in Deduped(WithCards(was, st, ms)) :
           \/ Continue(c, Tail(Tail(todo[c])), [copy[c] EXCEPT !.cards = Refreshed(f, st, ms)])
           \/ Proceed(c, [copy[c] EXCEPT !.cards = Refreshed(f, st, ms)])
    BY <1>2, <2>3, Zenon DEF EnsureAllCards
  <2>6. PICK new : new = Refreshed(f, st, ms)
    OBVIOUS
  <2>7. CardsSound(new)
    <3>1. CardsSound(f)
      BY <2>4, WithCardsSound, DedupedSound
    <3> QED
      BY <2>4, <2>6, <3>1, RefreshedSound
  <2>8. "ensureCards" \notin CardChecks \cup MirrorChecks \cup CardMid \cup MirrorMid
    BY DEF CardChecks, MirrorChecks, CardMid, MirrorMid
  <2>9. CASE Proceed(c, [copy[c] EXCEPT !.cards = new])
    BY <1>1, <2>2, <2>7, <2>8, <2>9, WithOtherCards
  <2>10. CASE Continue(c, Tail(Tail(todo[c])), [copy[c] EXCEPT !.cards = new])
    <3>1. PICK s, r, old, mine : /\ s = todo[c] /\ r = ask[c] /\ old = copy[c]
                                 /\ mine = [copy[c] EXCEPT !.cards = new]
      OBVIOUS
    <3>2. /\ Going(s, r, old) /\ CopySound(old) /\ s \in Seq(Step)
          /\ s # <<>> /\ s[1] = "ensureCards" /\ 1 \in 1..Len(s)
      BY <1>1, <3>1, AtFirst
    <3>3. CopySound(mine)
      BY <2>7, <3>1, <3>2, WithTheCards
    <3>4. Going(Tail(s), r, mine)
      <4>1. Leaves("ensureCards", r, old, mine)
        BY <2>8 DEF Leaves
      <4> QED
        BY <3>2, <4>1, TailGoes
    <3>5. PICK t : t = Tail(s)
      OBVIOUS
    <3>6. t # <<>> /\ t[1] = "saveCards"
      <4>1. PICK L \in Nat : L = Len(s)
        BY <3>2
      <4>2. 1 < L /\ s[1 + 1] = "saveCards"
        BY <3>2, <4>1 DEF Going, SavesCards
      <4>3. 1 + 1 = 2
        OBVIOUS
      <4>4. 1 \in 1..Len(t) /\ t[1] = s[2]
        BY <3>2, <3>5, <4>1, <4>2
      <4>5. t # <<>>
        BY <4>4
      <4> QED
        BY <4>2, <4>3, <4>4, <4>5
    <3>7. "saveCards" \notin CardChecks \cup MirrorChecks \cup CardMid \cup MirrorMid
      BY DEF CardChecks, MirrorChecks, CardMid, MirrorMid
    <3>8. Going(Tail(t), r, mine)
      <4>1. Leaves("saveCards", r, mine, mine)
        BY <3>7 DEF Leaves
      <4> QED
        BY <3>4, <3>5, <3>6, <4>1, TailGoes
    <3>9. PICK steps : steps = Tail(t)
      OBVIOUS
    <3>10. Continue(c, steps, mine) /\ Going(steps, ask[c], mine)
      BY <2>10, <3>1, <3>5, <3>8, <3>9
    <3> QED
      BY <2>2, <3>3, <3>10, ContinueKeeps
  <2> QED
    BY <2>5, <2>6, <2>9, <2>10
<1>3. CASE ~(CanLoad /\ CanLoadCards)
  <2>1. Fail(c) /\ UNCHANGED mirrors
    BY <1>3 DEF EnsureAllCards
  <2> QED
    BY <1>1, <2>1, FilesStay, FailKeeps
<1> QED
  BY <1>2, <1>3

LEMMA RefreshKeeps ==
    ASSUME CardAssumption, HybxInv, NEW c \in Client, Refresh(c)
    PROVE  HybxInv'
<1>1. At(c, "refresh") /\ UNCHANGED <<bank, mirrors, cards, core>>
  BY DEF Refresh
<1>2. PICK st, ms, was : st = Loaded /\ ms = mirrors /\ was = cards
  OBVIOUS
<1>3. CASE Fail(c)
  BY <1>1, <1>3, FilesStay, FailKeeps
<1>4. CASE /\ CanLoad /\ CanLoadCards
           /\ \E f \in Deduped(was) : Proceed(c, [copy[c] EXCEPT !.cards = Refreshed(f, st, ms)])
  <2>1. PICK f \in Deduped(was) : Proceed(c, [copy[c] EXCEPT !.cards = Refreshed(f, st, ms)])
    BY <1>4
  <2>2. PICK new : new = Refreshed(f, st, ms)
    OBVIOUS
  <2>3. st \in BankFile /\ ms \in MirrorFile \cup {Broken} /\ CardsSound(was)
    BY <1>2, <1>4, InFiles
  <2>4. CardsSound(new)
    BY <2>2, <2>3, DedupedSound, RefreshedSound
  <2>5. "refresh" \notin CardChecks \cup MirrorChecks \cup CardMid
    BY DEF CardChecks, MirrorChecks, CardMid
  <2> QED
    BY <1>1, <2>1, <2>2, <2>4, <2>5, FilesStay, WithOtherCards
<1> QED
  BY <1>2, <1>3, <1>4, Zenon DEF Refresh

LEMMA RefreshOnlyKeeps ==
    ASSUME CardAssumption, HybxInv, NEW c \in Client, RefreshOnly(c)
    PROVE  HybxInv'
<1>1. At(c, "refreshOnly") /\ UNCHANGED <<bank, mirrors, cards, core>>
  BY DEF RefreshOnly, Reads
<1>2. PICK st, ms, was : st = (IF CanLoad THEN Loaded ELSE Broken) /\ ms = mirrors /\ was = cards
  OBVIOUS
<1>3. PICK new : new = Refreshed(was, st, ms)
  OBVIOUS
<1>4. Fail(c) \/ (CanLoadCards /\ Proceed(c, [copy[c] EXCEPT !.cards = new]))
  BY <1>2, <1>3 DEF RefreshOnly, Reads
<1>5. CASE Fail(c)
  BY <1>1, <1>5, FilesStay, FailKeeps
<1>6. CASE CanLoadCards /\ Proceed(c, [copy[c] EXCEPT !.cards = new])
  <2>1. st \in BankFile \cup {Broken} /\ ms \in MirrorFile \cup {Broken} /\ CardsSound(was)
    BY <1>2, <1>6, InFiles
  <2>2. CardsSound(new)
    BY <1>3, <2>1, RefreshedSound
  <2>3. "refreshOnly" \notin CardChecks \cup MirrorChecks \cup CardMid
    BY DEF CardChecks, MirrorChecks, CardMid
  <2> QED
    BY <1>1, <1>6, <2>2, <2>3, FilesStay, WithOtherCards
<1> QED
  BY <1>4, <1>5, <1>6

\* The card that is issued, if it is.
LEMMA IssuedCard ==
    ASSUME CardAssumption, HybxInv, NEW c \in Client, IssueCard(c), NEW r, r = ask[c],
           NEW was, was = cards,
           NEW k, k = [issuer |-> r.issuer, acct |-> r.acct,
                       brand |-> IF r.brand = NoBrand THEN BrandOf[r.acct] ELSE r.brand]
    PROVE  \/ Fail(c) /\ UNCHANGED mirrors
           \/ /\ mirrors' \in MirrorFile \cup {Broken} /\ CardsSound(was)
              /\ CanLoadCards /\ was[k] = NoCard
              /\ \E n \in Nat : Proceed(c, [copy[c] EXCEPT !.cards = [was EXCEPT ![k] = NewCard(n)]])
<1>1. PICK st : st = Loaded
  OBVIOUS
<1>2. PICK n : n = IF r.issuer = "hybx" THEN HybxBalance(mirrors'[r.acct], st[r.acct]) ELSE st[r.acct].bal
  OBVIOUS
<1>3. SUFFICES ASSUME ~(Fail(c) /\ UNCHANGED mirrors)
               PROVE  /\ mirrors' \in MirrorFile \cup {Broken} /\ CardsSound(was)
                      /\ CanLoadCards /\ was[k] = NoCard /\ n \in Nat
                      /\ Proceed(c, [copy[c] EXCEPT !.cards = [was EXCEPT ![k] = NewCard(n)]])
  OBVIOUS
<1>4. /\ CanLoad /\ CanLoadCards /\ Exists(st, r.acct) /\ (r.issuer = "hybx" => CanLoadMirrors)
      /\ mirrors' = IF r.issuer = "hybx" /\ mirrors[r.acct] = NoMirror
                    THEN Mirrored(mirrors, st) ELSE mirrors
      /\ Proceed(c, [copy[c] EXCEPT !.cards = [was EXCEPT ![k] = NewCard(n)]])
  BY <1>1, <1>2, <1>3 DEF IssueCard
<1>5. was[k] = NoCard
  <2>1. \A b \in (IF r.brand = NoBrand THEN Brand ELSE {r.brand}) :
           was[[issuer |-> r.issuer, acct |-> r.acct, brand |-> b]] = NoCard
    BY <1>3 DEF IssueCard
  <2>2. r.brand = NoBrand => BrandOf[r.acct] \in Brand
    BY <1>4 DEF Exists, CardAssumption
  <2> QED
    BY <2>1, <2>2
<1>6. st \in BankFile /\ CardsSound(was) /\ r.acct \in Account /\ st[r.acct].bal \in Nat
  <2>1. st \in BankFile /\ CardsSound(was)
    BY <1>1, <1>4, InFiles
  <2>2. r.acct \in Account /\ st[r.acct] # NoAccount
    BY <1>4 DEF Exists
  <2> QED
    BY <2>1, <2>2 DEF BankFile, BankAccount
<1>7. /\ mirrors' \in MirrorFile \cup {Broken}
      /\ r.issuer = "hybx" => mirrors'[r.acct] \in Nat
  <2>1. PICK ms : ms = mirrors
    OBVIOUS
  <2>2. CASE r.issuer # "hybx"
    BY <1>4, <2>2, InFiles
  <2>3. CASE r.issuer = "hybx"
    <3>1. ms \in MirrorFile
      BY <1>4, <2>1, <2>3, InFiles
    <3>2. Mirrored(ms, st) \in MirrorFile /\ Mirrored(ms, st)[r.acct] = st[r.acct].bal
      <4>1. st[r.acct] # NoAccount
        BY <1>4 DEF Exists
      <4> QED
        BY <1>6, <3>1, <4>1, MirroredFile DEF Mirrored
    <3> QED
      BY <1>4, <1>6, <2>1, <2>3, <3>1, <3>2 DEF MirrorFile
  <2> QED
    BY <2>2, <2>3
<1>8. n \in Nat
  BY <1>2, <1>6, <1>7 DEF HybxBalance
<1> QED
  BY <1>4, <1>5, <1>6, <1>7, <1>8

LEMMA IssueCardKeeps ==
    ASSUME CardAssumption, HybxInv, NEW c \in Client, IssueCard(c)
    PROVE  HybxInv'
<1>1. At(c, "issue") /\ UNCHANGED <<bank, cards, core>>
  BY DEF IssueCard
<1>2. PICK r, was : r = ask[c] /\ was = cards
  OBVIOUS
<1>3. PICK k : k = [issuer |-> r.issuer, acct |-> r.acct,
                    brand |-> IF r.brand = NoBrand THEN BrandOf[r.acct] ELSE r.brand]
  OBVIOUS
<1>4. CASE Fail(c) /\ UNCHANGED mirrors
  BY <1>1, <1>4, FilesStay, FailKeeps
<1>5. CASE /\ mirrors' \in MirrorFile \cup {Broken} /\ CardsSound(was)
           /\ \E n \in Nat : Proceed(c, [copy[c] EXCEPT !.cards = [was EXCEPT ![k] = NewCard(n)]])
  <2>1. PICK n \in Nat : Proceed(c, [copy[c] EXCEPT !.cards = [was EXCEPT ![k] = NewCard(n)]])
    BY <1>5
  <2>2. PICK new : new = [was EXCEPT ![k] = NewCard(n)]
    OBVIOUS
  <2>3. CardsSound(new)
    BY <1>5, <2>2, NewCardData, CardsExcept
  <2>4. FilesSound'
    BY <1>1, <1>5 DEF HybxInv, FilesSound
  <2>5. "issue" \notin CardChecks \cup MirrorChecks \cup CardMid
    BY DEF CardChecks, MirrorChecks, CardMid
  <2> QED
    BY <1>1, <2>1, <2>2, <2>3, <2>4, <2>5, WithOtherCards
<1> QED
  BY <1>2, <1>3, <1>4, <1>5, IssuedCard

\* A payment by a card that has the amount left to spend.
LEMMA ReadCardReady ==
    ASSUME CardAssumption, NEW r \in CardRequest, NEW f, CardsSound(f),
           NEW st \in BankFile \cup {Broken}, NEW ms \in MirrorFile \cup {Broken},
           NEW k, k = CardOf(r), f[k] # NoCard, NEW rec, rec = Synced(k, f[k], st, ms),
           r.amount > 0, Available(rec) >= r.amount
    PROVE  /\ CardsSound([f EXCEPT ![k] = rec])
           /\ k \in Card => /\ [f EXCEPT ![k] = rec][k] # NoCard
                            /\ [f EXCEPT ![k] = rec][k].spent + r.amount <= [f EXCEPT ![k] = rec][k].limit
<1>1. CASE k \notin Card
  <2>1. [f EXCEPT ![k] = rec] = f
    BY <1>1 DEF CardsSound, CardFile
  <2> QED
    BY <1>1, <2>1
<1>2. CASE k \in Card
  <2>1. f[k] \in CardData /\ f[k].spent <= f[k].limit
    BY <1>2 DEF CardsSound, CardFile, CardData
  <2>2. PICK was : was = f[k]
    OBVIOUS
  <2>3. rec \in CardData /\ rec.spent = was.spent /\ rec.limit >= was.limit
    BY <1>2, <2>1, <2>2, SyncedData
  <2>4. rec.spent + r.amount <= rec.limit /\ rec.spent <= rec.limit
    <3>1. rec.limit \in Nat /\ rec.spent \in Nat /\ r.amount \in Nat
      BY <2>3, RequestAmount DEF CardData
    <3> QED
      BY <3>1 DEF Available
  <2>5. [f EXCEPT ![k] = rec][k] = rec /\ rec # NoCard
    BY <1>2, <2>3 DEF CardsSound, CardFile, CardData, CardAssumption
  <2>6. CardsSound([f EXCEPT ![k] = rec])
    BY <2>3, <2>4, CardsExcept
  <2> QED
    BY <2>4, <2>5, <2>6
<1> QED
  BY <1>1, <1>2

LEMMA ReadCardKeeps ==
    ASSUME CardAssumption, HybxInv, NEW c \in Client, ReadCard(c)
    PROVE  HybxInv'
<1>1. At(c, "readCard") /\ UNCHANGED <<bank, mirrors, cards, core>>
  BY DEF ReadCard, Reads
<1>2. PICK old, r, st, ms, was : /\ old = copy[c] /\ r = ask[c] /\ ms = mirrors /\ was = cards
                                 /\ st = IF CanLoad THEN Loaded ELSE Broken
  OBVIOUS
<1>3. PICK k, rec : k = CardOf(r) /\ rec = Synced(k, was[k], st, ms)
  OBVIOUS
<1>4. PICK new : new = [was EXCEPT ![k] = rec]
  OBVIOUS
<1>5. \/ Fail(c)
      \/ /\ CanLoadCards /\ was[k] # NoCard /\ r.amount > 0 /\ Available(rec) >= r.amount
         /\ Proceed(c, [old EXCEPT !.cards = new])
  BY <1>2, <1>3, <1>4 DEF ReadCard, Reads
<1>6. CASE Fail(c)
  BY <1>1, <1>6, FilesStay, FailKeeps
<1>7. CASE /\ CanLoadCards /\ was[k] # NoCard /\ r.amount > 0 /\ Available(rec) >= r.amount
           /\ Proceed(c, [old EXCEPT !.cards = new])
  <2>1. /\ r \in CardRequest /\ CardsSound(was) /\ CopySound(old)
        /\ st \in BankFile \cup {Broken} /\ ms \in MirrorFile \cup {Broken}
    BY <1>1, <1>2, <1>7, AtFirst, InFiles
  <2>2. CardsSound(new) /\ (k \in Card => new[k] # NoCard /\ new[k].spent + r.amount <= new[k].limit)
    BY <1>3, <1>4, <1>7, <2>1, ReadCardReady
  <2>3. PICK mine : mine = [old EXCEPT !.cards = new]
    OBVIOUS
  <2>4. CopySound(mine) /\ mine.cards = new /\ mine.mirrors = old.mirrors
    BY <2>1, <2>2, <2>3, WithTheCards
  <2>5. CardReady(r, mine)
    BY <1>3, <2>2, <2>4 DEF CardReady
  <2>6. "readCard" \notin MirrorChecks \cup MirrorMid
    BY DEF MirrorChecks, MirrorMid
  <2>7. Leaves("readCard", r, old, mine)
    BY <2>5, <2>6 DEF Leaves
  <2> QED
    BY <1>1, <1>2, <1>7, <2>3, <2>4, <2>7, FilesStay, ReadsKeeps
<1> QED
  BY <1>5, <1>6, <1>7

LEMMA ChargedCards ==
    ASSUME NEW r \in CardRequest, NEW f, CardsSound(f),
           NEW st \in BankFile \cup {Broken}, NEW ms \in MirrorFile \cup {Broken}, NEW k,
           k \in Card => f[k] # NoCard /\ f[k].spent + r.amount <= f[k].limit,
           NEW rec, rec = [f[k] EXCEPT !.spent = @ + r.amount]
    PROVE  CardsSound([f EXCEPT ![k] = Synced(k, rec, st, ms)])
<1>1. CASE k \notin Card
  <2>1. [f EXCEPT ![k] = Synced(k, rec, st, ms)] = f
    BY <1>1 DEF CardsSound, CardFile
  <2> QED
    BY <2>1
<1>2. CASE k \in Card
  <2>1. PICK was : was = f[k]
    OBVIOUS
  <2>2. was \in CardData /\ was.spent + r.amount <= was.limit
    BY <1>2, <2>1 DEF CardsSound, CardFile, CardData
  <2>3. rec \in CardData /\ rec.spent <= rec.limit
    <3>1. was.spent + r.amount \in Nat
      BY <2>2, RequestAmount DEF CardData
    <3>2. rec = [was EXCEPT !.spent = was.spent + r.amount]
      BY <2>1
    <3> QED
      BY <2>2, <3>1, <3>2 DEF CardData
  <2>4. PICK new : new = Synced(k, rec, st, ms)
    OBVIOUS
  <2>5. new \in CardData /\ new.spent = rec.spent /\ new.limit >= rec.limit
    BY <1>2, <2>3, <2>4, SyncedData
  <2>6. new.spent <= new.limit
    BY <2>3, <2>5 DEF CardData
  <2> QED
    BY <2>4, <2>5, <2>6, CardsExcept
<1> QED
  BY <1>1, <1>2

LEMMA ChargeCardKeeps ==
    ASSUME CardAssumption, HybxInv, NEW c \in Client, ChargeCard(c)
    PROVE  HybxInv'
<1>1. At(c, "chargeCard") /\ UNCHANGED <<bank, mirrors, cards, core>>
  BY DEF ChargeCard, Reads
<1>2. PICK old, r, st, ms, s : /\ old = copy[c] /\ r = ask[c] /\ ms = mirrors /\ s = todo[c]
                               /\ st = IF CanLoad THEN Loaded ELSE Broken
  OBVIOUS
<1>3. /\ Going(s, r, old) /\ CopySound(old) /\ r \in CardRequest
      /\ s \in Seq(Step) /\ s[1] = "chargeCard" /\ 1 \in 1..Len(s)
      /\ st \in BankFile \cup {Broken} /\ ms \in MirrorFile \cup {Broken}
  BY <1>1, <1>2, AtFirst, InFiles
<1>4. CardReady(r, old)
  BY <1>3, NoneBeforeFirst DEF Going
<1>5. PICK f, k : f = old.cards /\ k = CardOf(r)
  OBVIOUS
<1>6. PICK rec : rec = [f[k] EXCEPT !.spent = @ + r.amount]
  OBVIOUS
<1>7. PICK new : new = [f EXCEPT ![k] = Synced(k, rec, st, ms)]
  OBVIOUS
<1>8. CardsSound(f) /\ (k \in Card => f[k] # NoCard /\ f[k].spent + r.amount <= f[k].limit)
  BY <1>3, <1>4, <1>5 DEF CardReady, CopySound
<1>9. CardsSound(new)
  BY <1>3, <1>6, <1>7, <1>8, ChargedCards
<1>10. Proceed(c, [copy[c] EXCEPT !.cards = new])
  BY <1>2, <1>5, <1>6, <1>7 DEF ChargeCard, Reads
<1>11. "chargeCard" \notin CardChecks \cup MirrorChecks \cup CardMid
  BY DEF CardChecks, MirrorChecks, CardMid
<1> QED
  BY <1>1, <1>9, <1>10, <1>11, FilesStay, WithOtherCards

LEMMA SaveCardsKeeps ==
    ASSUME CardAssumption, HybxInv, NEW c \in Client, SaveCards(c)
    PROVE  HybxInv'
<1>1. At(c, "saveCards") /\ UNCHANGED <<bank, mirrors, core>>
  BY DEF SaveCards
<1>2. /\ Proceed(c, copy[c]) \/ Fail(c)
      /\ cards' \in {cards, copy[c].cards, Broken}
  BY DEF SaveCards
<1>3. CardsSound(copy[c].cards)
  BY DEF HybxInv, CopySound
<1>4. FilesSound'
  <2>1. cards' # Broken => CardsSound(cards')
    BY <1>2, <1>3 DEF HybxInv, FilesSound
  <2> QED
    BY <1>1, <2>1, Zenon DEF HybxInv, FilesSound
<1>5. "saveCards" \notin CardChecks \cup MirrorChecks
  BY DEF CardChecks, MirrorChecks
<1> QED
  BY <1>1, <1>2, <1>4, <1>5, WritesKeep

-----------------------------------------------------------------------------
(* The invariant holds *)

LEMMA BeginKeeps ==
    ASSUME CardAssumption, HybxInv, NEW c \in Client, Begin(c)
    PROVE  HybxInv'
<1>1. PICK r \in CardRequests :
         /\ ask' = [ask EXCEPT ![c] = r] /\ todo' = [todo EXCEPT ![c] = Program(r.op)]
  BY DEF Begin
<1>2. UNCHANGED <<bank, mirrors, cards, copy, core>>
  BY DEF Begin
<1>3. r \in CardRequest
  BY DEF CardAssumption
<1>4. PICK s, mine : s = Program(r.op) /\ mine = copy[c]
  OBVIOUS
<1>5. Going(s, r, mine)
  BY <1>3, <1>4, WholePrograms, WholeGoes
<1>6. CopySound(mine) /\ copy' = [copy EXCEPT ![c] = mine]
  BY <1>2, <1>4 DEF HybxInv
<1>7. FilesSound'
  BY <1>2, FilesStay
<1> QED
  BY <1>1, <1>3, <1>4, <1>5, <1>6, <1>7, Became

LEMMA CardStopKeeps ==
    ASSUME CardAssumption, HybxInv, CardStop
    PROVE  HybxInv'
<1>1. FilesSound'
  BY FilesStay DEF CardStop, bankVars
<1>2. /\ todo' = [c \in Client |-> <<>>] /\ ask' = [c \in Client |-> NoRequest]
      /\ copy' = [c \in Client |-> Blank]
  BY DEF CardStop
<1>3. CopySound(Blank) /\ Blank \in CopyFiles /\ Going(<<>>, NoRequest, Blank)
  BY BlankSound, NothingGoes DEF CopySound
<1>4. <<>> \in Seq(Step)
  OBVIOUS
<1>5. /\ todo' \in [Client -> Seq(Step)] /\ ask' \in [Client -> CardRequest \cup {NoRequest}]
      /\ copy' \in [Client -> CopyFiles]
  BY <1>2, <1>3, <1>4
<1>6. \A c \in Client : CopySound(copy'[c]) /\ Going(todo'[c], ask'[c], copy'[c])
  BY <1>2, <1>3
<1> QED
  BY <1>1, <1>5, <1>6 DEF HybxInv

LEMMA InitKeeps ==
    ASSUME CardAssumption, HybxInit
    PROVE  HybxInv
<1>1. CopySound(Blank) /\ Blank \in CopyFiles /\ Going(<<>>, NoRequest, Blank)
  BY BlankSound, NothingGoes DEF CopySound
<1>2. FilesSound
  <2>1. bank = NoFile /\ core = CoreOpening /\ mirrors = NoMirrors /\ cards = NoCards
    BY DEF HybxInit, BankInit
  <2>2. CardsSound(NoCards) /\ NoMirrors \in MirrorFile
    BY <1>1 DEF CopySound, CopyFiles, Blank
  <2> QED
    BY <2>1, <2>2, BankAssumption DEF FilesSound
<1>3. <<>> \in Seq(Step)
  OBVIOUS
<1>4. /\ todo = [c \in Client |-> <<>>] /\ ask = [c \in Client |-> NoRequest]
      /\ copy = [c \in Client |-> Blank]
  BY DEF HybxInit
<1>5. /\ todo \in [Client -> Seq(Step)] /\ ask \in [Client -> CardRequest \cup {NoRequest}]
      /\ copy \in [Client -> CopyFiles]
  BY <1>1, <1>3, <1>4
<1>6. \A c \in Client : CopySound(copy[c]) /\ Going(todo[c], ask[c], copy[c])
  BY <1>1, <1>4
<1> QED
  BY <1>2, <1>5, <1>6 DEF HybxInv

LEMMA CardStepKeeps ==
    ASSUME CardAssumption, HybxInv, NEW c \in Client, CardStep(c)
    PROVE  HybxInv'
<1>1. CASE MirrorSync(c) \/ SaveMirrors(c) \/ ReadMirror(c) \/ MoveMirror(c) \/ DebitMirror(c)
  BY <1>1, MirrorSyncKeeps, SaveMirrorsKeeps, ReadMirrorKeeps, MoveMirrorKeeps, DebitMirrorKeeps
<1>2. CASE ConvertBank(c) \/ Debit(c) \/ MoveToCore(c) \/ CoreSync(c) \/ SendOut(c)
  BY <1>2, BankReadsKeep, SendOutKeeps
<1>3. CASE SeedBank(c) \/ TellCore(c) \/ SaveBank(c) \/ Federate(c)
  BY <1>3, SeedBankKeeps, TellCoreKeeps, SaveBankKeeps, FederateKeeps
<1>4. CASE EnsureAllCards(c) \/ Refresh(c) \/ RefreshOnly(c) \/ IssueCard(c)
  BY <1>4, EnsureAllCardsKeeps, RefreshKeeps, RefreshOnlyKeeps, IssueCardKeeps
<1>5. CASE ReadCard(c) \/ ChargeCard(c) \/ SaveCards(c)
  BY <1>5, ReadCardKeeps, ChargeCardKeeps, SaveCardsKeeps
<1> QED
  BY <1>1, <1>2, <1>3, <1>4, <1>5 DEF CardStep

LEMMA StutterKeeps ==
    ASSUME HybxInv, UNCHANGED hybxVars
    PROVE  HybxInv'
<1>1. UNCHANGED <<bank, mirrors, cards, core, todo, ask, copy>>
  BY DEF hybxVars, bankVars, cardVars
<1>2. FilesSound'
  BY <1>1, FilesStay
<1> QED
  BY <1>1, <1>2 DEF HybxInv

LEMMA HybxInvariant ==
    ASSUME CardAssumption
    PROVE  HybxSpec => []HybxInv
<1>1. HybxInit => HybxInv
  BY InitKeeps
<1>2. ASSUME HybxInv, [HybxNext]_hybxVars
      PROVE  HybxInv'
  <2>1. ASSUME NEW c \in Client, Begin(c) \/ CardStep(c)
        PROVE  HybxInv'
    BY <1>2, <2>1, BeginKeeps, CardStepKeeps
  <2> QED
    BY <1>2, <2>1, CardStopKeeps, StutterKeeps DEF HybxNext
<1> QED
  BY <1>1, <1>2, PTL DEF HybxSpec

\* However many requests about mirrors, cards and payments overlap, whichever of
\* their writes fail and wherever the process stops, each of the three files is
\* missing, cut short or whole, and so is every copy a request works on: an
\* amount that is taken from a balance, a mirror or a card never makes it
\* negative (ledger/hybrix.go, bridge/virtual_cards.go).
THEOREM HybxTypes ==
    ASSUME CardAssumption
    PROVE  HybxSpec => []HybxTypeOK
<1>1. HybxInv => HybxTypeOK
  BY DEF HybxInv, FilesSound, CardsSound, CopyFiles, HybxTypeOK
<1> QED
  BY <1>1, HybxInvariant, PTL

\* No card has spent more than its limit (bridge/virtual_cards.go): a purchase,
\* wire or release is checked against the limit of the card in its own copy and
\* charged to that copy, and no step in between replaces the copy's cards.
THEOREM CardsStayWithinLimit ==
    ASSUME CardAssumption
    PROVE  HybxSpec => []WithinLimit
<1>1. HybxInv => WithinLimit
  BY DEF HybxInv, FilesSound, CardsSound, CardFile, WithinLimit
<1> QED
  BY <1>1, HybxInvariant, PTL

-----------------------------------------------------------------------------
(* What a card shows, its account has paid *)

\* A use that has only such steps before it.
OpenUse(s, use, mid) == \E j \in 1..Len(s) : s[j] = use /\ OpenAt(s, j, mid)

LEMMA OpenFirst ==
    ASSUME NEW s \in Seq(Step), NEW use, NEW mid, s # <<>>, s[1] = use
    PROVE  OpenUse(s, use, mid)
<1>1. 1 \in 1..Len(s) /\ \A k \in 1..(1 - 1) : FALSE
  OBVIOUS
<1> QED
  BY <1>1 DEF OpenUse, OpenAt

LEMMA OpenStart ==
    ASSUME NEW s \in Seq(Step), NEW use, NEW mid, OpenUse(s, use, mid)
    PROVE  s[1] = use \/ s[1] \in mid
<1>1. PICK j \in 1..Len(s) : s[j] = use /\ OpenAt(s, j, mid)
  BY DEF OpenUse
<1>2. CASE j = 1
  BY <1>1, <1>2
<1>3. CASE j # 1
  <2>1. 1 \in 1..(j - 1)
    BY <1>3
  <2> QED
    BY <1>1, <2>1 DEF OpenAt
<1> QED
  BY <1>2, <1>3

\* Of a use that is open in the rest, all before it is such, if there is no check
\* in what is left out, or that is a call that has failed.
NothingChecked(s, m, use, checks) ==
    \/ \A i \in 1..(m - 1) : s[i] \notin checks
    \/ s[m] = "end" /\ use # "end" /\ \A i \in 1..(m - 1) : s[i] # "try"

LEMMA OpenInRest ==
    ASSUME NEW s \in Seq(Step), NEW m \in 1..Len(s), NEW t \in Seq(Step),
           t = SubSeq(s, m, Len(s)), NEW use, NEW checks, NEW mid,
           LedOrOpen(s, use, checks, mid), checks \cap mid = {},
           NothingChecked(s, m, use, checks), OpenUse(t, use, mid)
    PROVE  /\ OpenUse(s, use, mid)
           /\ \A k \in 1..(m - 1) : s[k] \in mid
<1>1. /\ Len(t) = Len(s) - m + 1 /\ Len(s) \in Nat /\ m \in Nat
      /\ \A k \in 1..Len(t) : k + m - 1 \in m..Len(s) /\ t[k] = s[k + m - 1]
  BY RestOf
<1>2. PICK j \in 1..Len(t) : t[j] = use /\ OpenAt(t, j, mid)
  BY DEF OpenUse
<1>3. PICK n \in 1..Len(s) : n = j + m - 1 /\ s[n] = use
  <2>1. j + m - 1 \in 1..Len(s) /\ s[j + m - 1] = use
    BY <1>1, <1>2
  <2> QED
    BY <2>1
<1>4. OpenAt(s, n, mid)
  <2>1. SUFFICES ASSUME LedAt(s, n, checks, mid)
                 PROVE  FALSE
    BY <1>3 DEF LedOrOpen
  <2>2. PICK i \in 1..(n - 1) : s[i] \in checks /\ Span(s, i, n, mid)
    BY <2>1 DEF LedAt
  <2>3. CASE i >= m
    <3>1. i - m + 1 \in 1..(j - 1) /\ i - m + 1 \in 1..Len(t) /\ (i - m + 1) + m - 1 = i
      BY <1>1, <1>3, <2>3
    <3>2. t[i - m + 1] = s[i]
      BY <1>1, <3>1
    <3>3. t[i - m + 1] \in mid
      BY <1>2, <3>1 DEF OpenAt
    <3> QED
      BY <2>2, <3>2, <3>3
  <2>4. CASE i < m
    <3>1. i \in 1..(m - 1)
      BY <1>1, <2>4
    <3>2. s[m] = "end" /\ use # "end" /\ \A l \in 1..(m - 1) : s[l] # "try"
      BY <2>2, <3>1 DEF NothingChecked
    <3>3. n # m
      BY <1>3, <3>2
    <3>4. m \in (i + 1)..(n - 1)
      BY <1>1, <1>3, <2>4, <3>3
    <3>5. PICK l \in (i + 1)..(m - 1) : s[l] = "try"
      BY <2>2, <3>2, <3>4 DEF Span
    <3> QED
      BY <3>2, <3>5
  <2> QED
    BY <1>1, <2>3, <2>4
<1>5. \A k \in 1..(m - 1) : k \in 1..(n - 1)
  BY <1>1, <1>3
<1> QED
  BY <1>3, <1>4, <1>5 DEF OpenUse, OpenAt

LEMMA OpenAfterSuch ==
    ASSUME NEW s \in Seq(Step), NEW m \in 1..Len(s), NEW t \in Seq(Step),
           t = SubSeq(s, m, Len(s)), NEW use, NEW mid, OpenUse(t, use, mid),
           \A i \in 1..(m - 1) : s[i] \in mid
    PROVE  OpenUse(s, use, mid)
<1>1. /\ Len(t) = Len(s) - m + 1 /\ Len(s) \in Nat /\ m \in Nat
      /\ \A k \in 1..Len(t) : k + m - 1 \in m..Len(s) /\ t[k] = s[k + m - 1]
  BY RestOf
<1>2. PICK j \in 1..Len(t) : t[j] = use /\ OpenAt(t, j, mid)
  BY DEF OpenUse
<1>3. j + m - 1 \in 1..Len(s) /\ s[j + m - 1] = use
  BY <1>1, <1>2
<1>4. ASSUME NEW k \in 1..(j + m - 1 - 1)
      PROVE  s[k] \in mid
  <2>1. CASE k < m
    <3>1. k \in 1..(m - 1)
      BY <1>1, <2>1
    <3> QED
      BY <3>1
  <2>2. CASE k >= m
    <3>1. /\ k - m + 1 \in 1..(j - 1) /\ k - m + 1 \in 1..Len(t)
          /\ (k - m + 1) + m - 1 = k
      BY <1>1, <2>2
    <3>2. t[k - m + 1] = s[k]
      BY <1>1, <3>1
    <3> QED
      BY <1>2, <3>1, <3>2 DEF OpenAt
  <2> QED
    BY <1>1, <2>1, <2>2
<1>5. PICK n \in 1..Len(s) : n = j + m - 1
  BY <1>3
<1>6. s[n] = use /\ \A k \in 1..(n - 1) : s[k] \in mid
  BY <1>3, <1>4, <1>5
<1> QED
  BY <1>6 DEF OpenUse, OpenAt

LEMMA OpenBefore ==
    ASSUME NEW s \in Seq(Step), s # <<>>, NEW use, NEW mid, NEW more, mid \subseteq more,
           s[1] \in more, OpenUse(Tail(s), use, mid)
    PROVE  OpenUse(s, use, more)
<1>1. PICK t : t = Tail(s)
  OBVIOUS
<1>2. Len(s) \in Nat /\ Len(s) >= 1 /\ t \in Seq(Step) /\ Len(t) = Len(s) - 1
  BY <1>1
<1>3. Len(t) # 0
  <2>1. \E j \in 1..Len(t) : TRUE
    BY <1>1 DEF OpenUse
  <2> QED
    BY <1>2, <2>1
<1>4. PICK m \in 1..Len(s) : m = 2
  BY <1>2, <1>3
<1>5. t = SubSeq(s, m, Len(s)) /\ \A i \in 1..(m - 1) : s[i] \in more
  BY <1>1, <1>2, <1>4
<1>6. OpenUse(t, use, more)
  BY <1>1 DEF OpenUse, OpenAt
<1> QED
  BY <1>2, <1>5, <1>6, OpenAfterSuch

\* A use that is open among fewer steps is so among more.
LEMMA OpenAmongMore ==
    ASSUME NEW s, NEW use, NEW mid, NEW more, mid \subseteq more, OpenUse(s, use, mid)
    PROVE  OpenUse(s, use, more)
BY DEF OpenUse, OpenAt

\* What was charged to the cards of an account, and what left the account.
SpentOf(f, k) == IF f[k] = NoCard THEN 0 ELSE f[k].spent
CardsOf(a) == {k \in Card : k.acct = a}
SpentBy(f, a) == SumFunctionOnSet([k \in Card |-> SpentOf(f, k)], CardsOf(a))
OutOf(st, a) == IF st = NoFile \/ st[a] = NoAccount THEN 0 ELSE st[a].out

SpentLess(f, g) == \A k \in Card : SpentOf(f, k) <= SpentOf(g, k)
OutGrows(old, new) == old # Broken /\ \A a \in Account : OutOf(old, a) <= OutOf(new, a)
Covered(f, st) == st # Broken => \A a \in Account : SpentBy(f, a) <= OutOf(st, a)
\* The amount of a payment has left its account, and is not yet charged.
Ahead(f, r, st) ==
    st # Broken /\ \A a \in Account :
        SpentBy(f, a) + (IF a = r.acct THEN r.amount ELSE 0) <= OutOf(st, a)

\* Saves follow what makes their copy, and a card is charged after it was read
\* and its account has paid.
Shape(s) ==
    /\ s \in Seq(Step)
    /\ LedOrOpen(s, "chargeCard", CardChecks, CardMid)
    /\ LedOrOpen(s, "chargeCard", PaidChecks, PaidMid)
    /\ LedOrOpen(s, "saveCards", CardMakers, {}) /\ LedOrOpen(s, "saveBank", BankMakers, {})

\* What holds of the copies and the files, by the steps the request has left.
Owes(s, r, mine, bk, cd) ==
    /\ OpenUse(s, "saveCards", {}) => Covered(mine.cards, bk)
    /\ OpenUse(s, "saveBank", {}) =>
          /\ OutGrows(bk, mine.bank)
          /\ OpenUse(s, "chargeCard", PaidMid \cup PaidChecks) => Ahead(mine.cards, r, mine.bank)
    /\ OpenUse(s, "chargeCard", PaidMid) => Ahead(mine.cards, r, bk)
    /\ OpenUse(s, "chargeCard", CardMid) => cd # Broken /\ SpentLess(mine.cards, cd)

FilesCovered == cards # Broken => Covered(cards, bank)

SpentInv ==
    /\ FilesCovered
    /\ \A c \in Client : Shape(todo[c]) /\ Owes(todo[c], ask[c], copy[c], bank, cards)

-----------------------------------------------------------------------------
(* Sums *)

LEMMA CardsOfFinite ==
    ASSUME IsFiniteSet(Card), NEW a
    PROVE  IsFiniteSet(CardsOf(a)) /\ CardsOf(a) \subseteq Card
BY FS_Subset DEF CardsOf

LEMMA SpentIsNat ==
    ASSUME NEW f \in CardFile, NEW k \in Card
    PROVE  SpentOf(f, k) \in Nat
BY DEF CardFile, SpentOf

LEMMA SpentByNat ==
    ASSUME IsFiniteSet(Card), NEW f \in CardFile, NEW a
    PROVE  SpentBy(f, a) \in Nat
<1>1. PICK g : g = [k \in Card |-> SpentOf(f, k)]
  OBVIOUS
<1>2. \A k \in CardsOf(a) : g[k] \in Nat
  BY <1>1, SpentIsNat DEF CardsOf
<1>3. IsFiniteSet(CardsOf(a))
  BY CardsOfFinite
<1> QED
  BY <1>1, <1>2, <1>3, SumNat DEF SpentBy

LEMMA OutIsNat ==
    ASSUME NEW st \in BankFile \cup {NoFile}, NEW a \in Account
    PROVE  OutOf(st, a) \in Nat
BY DEF OutOf, BankFile, BankAccount

LEMMA LessSpentBy ==
    ASSUME IsFiniteSet(Card), NEW f \in CardFile, NEW g \in CardFile, SpentLess(f, g), NEW a
    PROVE  SpentBy(f, a) <= SpentBy(g, a)
<1>1. PICK u, v : u = [k \in Card |-> SpentOf(f, k)] /\ v = [k \in Card |-> SpentOf(g, k)]
  OBVIOUS
<1>2. \A k \in CardsOf(a) : u[k] \in Int /\ v[k] \in Int /\ u[k] <= v[k]
  BY <1>1, SpentIsNat DEF CardsOf, SpentLess
<1>3. IsFiniteSet(CardsOf(a))
  BY CardsOfFinite
<1> QED
  BY <1>1, <1>2, <1>3, SumGrows DEF SpentBy

LEMMA LessIsCovered ==
    ASSUME IsFiniteSet(Card), NEW f \in CardFile, NEW g \in CardFile, SpentLess(f, g),
           NEW st \in BankFile \cup {NoFile, Broken}, Covered(g, st)
    PROVE  Covered(f, st)
<1>1. ASSUME st # Broken, NEW a \in Account
      PROVE  SpentBy(f, a) <= OutOf(st, a)
  <2>1. SpentBy(f, a) <= SpentBy(g, a) /\ SpentBy(g, a) <= OutOf(st, a)
    BY <1>1, LessSpentBy DEF Covered
  <2>2. SpentBy(f, a) \in Nat /\ SpentBy(g, a) \in Nat /\ OutOf(st, a) \in Nat
    BY <1>1, SpentByNat, OutIsNat
  <2> QED
    BY <2>1, <2>2
<1> QED
  BY <1>1 DEF Covered

LEMMA GrowsIsCovered ==
    ASSUME IsFiniteSet(Card), NEW f \in CardFile, NEW old \in BankFile \cup {NoFile, Broken},
           NEW new \in BankFile, Covered(f, old), OutGrows(old, new)
    PROVE  Covered(f, new)
<1>1. ASSUME NEW a \in Account
      PROVE  SpentBy(f, a) <= OutOf(new, a)
  <2>1. SpentBy(f, a) <= OutOf(old, a) /\ OutOf(old, a) <= OutOf(new, a)
    BY DEF Covered, OutGrows
  <2>2. SpentBy(f, a) \in Nat /\ OutOf(old, a) \in Nat /\ OutOf(new, a) \in Nat
    BY SpentByNat, OutIsNat DEF OutGrows
  <2> QED
    BY <2>1, <2>2
<1> QED
  BY <1>1 DEF Covered

\* A card is charged what has left its account.
LEMMA ChargeIsCovered ==
    ASSUME CardAssumption, IsFiniteSet(Card), NEW f \in CardFile, NEW r \in CardRequest,
           NEW st \in BankFile \cup {NoFile, Broken}, Ahead(f, r, st), NEW g \in CardFile,
           NEW k0, k0 = CardOf(r), \A k \in Card : k # k0 => SpentOf(g, k) = SpentOf(f, k),
           k0 \in Card => SpentOf(g, k0) = SpentOf(f, k0) + r.amount
    PROVE  Covered(g, st)
<1>1. SUFFICES ASSUME NEW a \in Account
               PROVE  SpentBy(g, a) <= OutOf(st, a)
  BY DEF Covered
<1>2. PICK u, v : u = [k \in Card |-> SpentOf(f, k)] /\ v = [k \in Card |-> SpentOf(g, k)]
  OBVIOUS
<1>3. IsFiniteSet(CardsOf(a)) /\ \A k \in CardsOf(a) : k \in Card /\ u[k] \in Int /\ v[k] \in Int
  <2>1. \A k \in Card : u[k] \in Int /\ v[k] \in Int
    BY <1>2, SpentIsNat
  <2> QED
    BY <2>1, CardsOfFinite
<1>4. SpentBy(f, a) = SumFunctionOnSet(u, CardsOf(a)) /\ SpentBy(g, a) = SumFunctionOnSet(v, CardsOf(a))
  BY <1>2 DEF SpentBy
<1>5. SpentBy(f, a) \in Nat /\ SpentBy(g, a) \in Nat /\ OutOf(st, a) \in Nat /\ r.amount \in Nat
  BY SpentByNat, OutIsNat, RequestAmount DEF Ahead
<1>6. SpentBy(f, a) + (IF a = r.acct THEN r.amount ELSE 0) <= OutOf(st, a)
  BY DEF Ahead
<1>7. CASE k0 \in CardsOf(a)
  <2>1. a = r.acct
    BY <1>7 DEF CardsOf, CardOf
  <2>2. \A k \in CardsOf(a) : k # k0 => v[k] = u[k]
    BY <1>2, <1>3
  <2>3. SumFunctionOnSet(v, CardsOf(a)) = SumFunctionOnSet(u, CardsOf(a)) - u[k0] + v[k0]
    BY <1>3, <1>7, <2>2, SumChange
  <2>4. v[k0] = u[k0] + r.amount /\ u[k0] \in Int
    BY <1>2, <1>3, <1>7
  <2> QED
    BY <1>4, <1>5, <1>6, <2>1, <2>3, <2>4
<1>8. CASE k0 \notin CardsOf(a)
  <2>1. \A k \in CardsOf(a) : u[k] \in Int /\ v[k] = u[k]
    BY <1>2, <1>3, <1>8
  <2>2. SumFunctionOnSet(v, CardsOf(a)) = SumFunctionOnSet(u, CardsOf(a))
    BY <1>3, <2>1, SumAgree
  <2> QED
    BY <1>4, <1>5, <1>6, <2>2
<1> QED
  BY <1>7, <1>8

-----------------------------------------------------------------------------
(* The steps of a request *)

LEMMA DisjointChecks ==
    /\ CardChecks \cap CardMid = {} /\ PaidChecks \cap PaidMid = {}
    /\ CardMakers \cap {} = {} /\ BankMakers \cap {} = {}
    /\ PaidMid \subseteq CardMid /\ PaidMid \cup PaidChecks \subseteq CardMid
    /\ PaidMid \subseteq PaidMid \cup PaidChecks
BY DEF CardChecks, CardMid, PaidChecks, PaidMid

LEMMA NothingOwed ==
    ASSUME NEW r, NEW mine, NEW bk, NEW cd
    PROVE  Shape(<<>>) /\ Owes(<<>>, r, mine, bk, cd)
<1>1. \A j \in 1..Len(<<>>) : FALSE
  OBVIOUS
<1>2. \A use, mid : ~OpenUse(<<>>, use, mid)
  BY <1>1 DEF OpenUse
<1>3. Owes(<<>>, r, mine, bk, cd)
  BY <1>2 DEF Owes
<1>4. <<>> \in Seq(Step)
  OBVIOUS
<1> QED
  BY <1>3, <1>4, NothingLeft, LedIsLedOrOpen DEF Shape

LEMMA WholeShape ==
    ASSUME NEW s, NEW r, Whole(s, r)
    PROVE  Shape(s)
BY LedIsLedOrOpen DEF Whole, Shape

\* Nothing is open in a request that has not begun.
LEMMA LedIsNotOpen ==
    ASSUME NEW s \in Seq(Step), NEW use, NEW checks, NEW mid, Led(s, use, checks, mid),
           checks \cap mid = {}
    PROVE  ~OpenUse(s, use, mid)
<1>1. SUFFICES ASSUME NEW j \in 1..Len(s), s[j] = use, OpenAt(s, j, mid)
               PROVE  FALSE
  BY DEF OpenUse
<1>2. PICK i \in 1..(j - 1) : s[i] \in checks
  BY <1>1 DEF Led, LedAt
<1>3. s[i] \in mid
  BY <1>1, <1>2 DEF OpenAt
<1> QED
  BY <1>2, <1>3

LEMMA WholeOwes ==
    ASSUME NEW s, NEW r, Whole(s, r), NEW mine, NEW bk, NEW cd
    PROVE  Owes(s, r, mine, bk, cd)
<1>1. s \in Seq(Step) /\ Led(s, "saveCards", CardMakers, {}) /\ Led(s, "saveBank", BankMakers, {})
  BY DEF Whole
<1>2. Led(s, "chargeCard", PaidChecks, PaidMid) /\ Led(s, "chargeCard", CardChecks, CardMid)
  BY DEF Whole
<1>3. ~OpenUse(s, "saveCards", {}) /\ ~OpenUse(s, "saveBank", {})
  BY <1>1, LedIsNotOpen
<1>4. ~OpenUse(s, "chargeCard", PaidMid) /\ ~OpenUse(s, "chargeCard", CardMid)
  BY <1>1, <1>2, LedIsNotOpen, DisjointChecks
<1> QED
  BY <1>3, <1>4 DEF Owes

\* The rest keeps its shape.
LEMMA TailShape ==
    ASSUME NEW s, Shape(s), s # <<>>
    PROVE  Shape(Tail(s))
<1>1. s \in Seq(Step) /\ Len(s) \in Nat /\ Len(s) >= 1
  BY DEF Shape
<1>2. CASE Len(s) = 1
  <2>1. Tail(s) = <<>>
    <3>1. PICK t : t = Tail(s)
      OBVIOUS
    <3>2. t \in Seq(Step) /\ Len(t) = 0
      BY <1>1, <1>2, <3>1
    <3>3. t = <<>>
      BY <3>2
    <3> QED
      BY <3>1, <3>3
  <2> QED
    BY <2>1, NothingOwed
<1>3. CASE Len(s) # 1
  <2>0. 2 \in 1..Len(s)
    <3>1. PICK L : L = Len(s)
      OBVIOUS
    <3>2. L \in Nat /\ L >= 1 /\ L # 1
      BY <1>1, <1>3, <3>1
    <3> QED
      BY <3>1, <3>2
  <2>1. PICK m \in 1..Len(s) : m = 2
    BY <2>0
  <2>2. PICK t : t = Tail(s)
    OBVIOUS
  <2>3. t \in Seq(Step) /\ t = SubSeq(s, m, Len(s))
    BY <1>1, <2>1, <2>2
  <2>4. ASSUME NEW use, NEW checks, NEW mid, LedOrOpen(s, use, checks, mid)
        PROVE  LedOrOpen(t, use, checks, mid)
    <3>1. \A i \in 1..(m - 1) : s[i] \in checks => i = 1
      BY <2>1
    <3> QED
      BY <1>1, <2>3, <2>4, <3>1, RestAfter
  <2> QED
    BY <2>2, <2>3, <2>4 DEF Shape
<1> QED
  BY <1>2, <1>3

\* An open use in the tail.
LEMMA OpenInTail ==
    ASSUME NEW s \in Seq(Step), s # <<>>, NEW use, NEW checks, NEW mid,
           LedOrOpen(s, use, checks, mid), checks \cap mid = {}, OpenUse(Tail(s), use, mid)
    PROVE  s[1] \in checks \/ (OpenUse(s, use, mid) /\ s[1] \in mid)
<1> SUFFICES ASSUME s[1] \notin checks
             PROVE  OpenUse(s, use, mid) /\ s[1] \in mid
  OBVIOUS
<1>1. PICK t : t = Tail(s)
  OBVIOUS
<1>2. Len(s) \in Nat /\ Len(s) >= 1 /\ t \in Seq(Step) /\ Len(t) = Len(s) - 1
  BY <1>1
<1>3. Len(t) # 0
  <2>1. \E j \in 1..Len(t) : TRUE
    BY <1>1 DEF OpenUse
  <2> QED
    BY <1>2, <2>1
<1>4. PICK m \in 1..Len(s) : m = 2
  BY <1>2, <1>3
<1>5. t = SubSeq(s, m, Len(s))
  BY <1>1, <1>2, <1>4
<1>6. \A i \in 1..(m - 1) : i = 1
  BY <1>4
<1>7. 1 \in 1..(m - 1) /\ \A i \in 1..(m - 1) : s[i] \notin checks
  BY <1>4, <1>6
<1>8. OpenUse(t, use, mid)
  BY <1>1
<1>9. OpenUse(s, use, mid) /\ \A k \in 1..(m - 1) : s[k] \in mid
  <2>1. NothingChecked(s, m, use, checks)
    BY <1>7 DEF NothingChecked
  <2> QED
    BY <1>2, <1>5, <1>8, <2>1, OpenInRest
<1> QED
  BY <1>7, <1>9

\* What a step must see to, for the steps behind it.
Sees(step, s, r, old, new, bk, nbk, cd, ncd) ==
    /\ step \in CardMakers => Covered(new.cards, nbk)
    /\ step \in BankMakers =>
          /\ OutGrows(nbk, new.bank)
          /\ OpenUse(s, "chargeCard", CardMid) => Ahead(new.cards, r, new.bank)
    /\ step \in PaidMid => new.cards = old.cards /\ nbk = bk
    /\ step = "saveBank" => new.cards = old.cards /\ nbk = new.bank /\ new.bank = old.bank
    /\ step \in CardMid => new.cards = old.cards /\ ncd = cd
    /\ step = "readCard" => ncd # Broken /\ SpentLess(new.cards, ncd)

LEMMA TailOwes ==
    ASSUME NEW s, Shape(s), s # <<>>, NEW r, NEW old, NEW new, NEW bk, NEW nbk, NEW cd, NEW ncd,
           Owes(s, r, old, bk, cd), Sees(s[1], s, r, old, new, bk, nbk, cd, ncd)
    PROVE  Owes(Tail(s), r, new, nbk, ncd)
<1> DEFINE t == Tail(s)
<1>1. s \in Seq(Step)
  BY DEF Shape
<1>2. OpenUse(t, "saveCards", {}) => s[1] \in CardMakers
  BY <1>1, OpenInTail, DisjointChecks DEF Shape
<1>3. OpenUse(t, "saveBank", {}) => s[1] \in BankMakers
  BY <1>1, OpenInTail, DisjointChecks DEF Shape
<1>4. OpenUse(t, "chargeCard", PaidMid) =>
         s[1] = "saveBank" \/ (OpenUse(s, "chargeCard", PaidMid) /\ s[1] \in PaidMid)
  BY <1>1, OpenInTail, DisjointChecks DEF Shape, PaidChecks
<1>5. OpenUse(t, "chargeCard", CardMid) =>
         s[1] = "readCard" \/ (OpenUse(s, "chargeCard", CardMid) /\ s[1] \in CardMid)
  BY <1>1, OpenInTail, DisjointChecks DEF Shape, CardChecks
<1>6. OpenUse(t, "chargeCard", PaidMid \cup PaidChecks) => OpenUse(t, "chargeCard", CardMid)
  BY DisjointChecks, OpenAmongMore
<1>7. "readCard" \notin BankMakers
  BY DEF BankMakers
<1>8. ASSUME OpenUse(t, "saveCards", {})
      PROVE  Covered(new.cards, nbk)
  BY <1>2, <1>8 DEF Sees
<1>9. ASSUME OpenUse(t, "saveBank", {})
      PROVE  /\ OutGrows(nbk, new.bank)
             /\ OpenUse(t, "chargeCard", PaidMid \cup PaidChecks) => Ahead(new.cards, r, new.bank)
  <2>1. s[1] \in BankMakers /\ s[1] # "readCard"
    BY <1>3, <1>7, <1>9
  <2> QED
    BY <1>5, <1>6, <2>1 DEF Sees
<1>10. ASSUME OpenUse(t, "chargeCard", PaidMid)
       PROVE  Ahead(new.cards, r, nbk)
  <2>1. CASE s[1] = "saveBank"
    <3>1. OpenUse(s, "saveBank", {})
      BY <1>1, <2>1, OpenFirst
    <3>2. OpenUse(s, "chargeCard", PaidMid \cup PaidChecks)
      BY <1>1, <1>10, <2>1, OpenBefore DEF PaidChecks
    <3> QED
      BY <2>1, <3>1, <3>2 DEF Owes, Sees
  <2>2. CASE OpenUse(s, "chargeCard", PaidMid) /\ s[1] \in PaidMid
    BY <2>2 DEF Owes, Sees
  <2> QED
    BY <1>4, <1>10, <2>1, <2>2
<1>11. ASSUME OpenUse(t, "chargeCard", CardMid)
       PROVE  ncd # Broken /\ SpentLess(new.cards, ncd)
  BY <1>5, <1>11 DEF Owes, Sees
<1> QED
  BY <1>8, <1>9, <1>10, <1>11 DEF Owes

\* Marks are passed over.
LEMMA PastMarksOwes ==
    ASSUME NEW s, Shape(s), NEW r, NEW mine, NEW bk, NEW cd, Owes(s, r, mine, bk, cd)
    PROVE  Shape(PastMarks(s)) /\ Owes(PastMarks(s), r, mine, bk, cd)
<1> DEFINE real == {i \in DOMAIN s : s[i] \notin Marks}
<1>1. s \in Seq(Step) /\ Len(s) \in Nat /\ DOMAIN s = 1..Len(s)
  BY DEF Shape
<1>2. CASE real = {}
  BY <1>2, NothingOwed DEF PastMarks
<1>3. CASE real # {}
  <2>1. PICK m : m = Min(real)
    OBVIOUS
  <2>2. m \in real /\ \A i \in real : m <= i
    <3>1. real \subseteq Nat
      BY <1>1
    <3> HIDE DEF real
    <3> QED
      BY <1>3, <2>1, <3>1, MinIs
  <2>3. m \in 1..Len(s) /\ \A i \in 1..(m - 1) : s[i] \in Marks
    BY <1>1, <2>2
  <2>4. PICK t : t = SubSeq(s, m, Len(s))
    OBVIOUS
  <2>5. PastMarks(s) = t
    <3>1. PastMarks(s) = SubSeq(s, Min(real), Len(s))
      BY <1>3 DEF PastMarks
    <3> QED
      BY <2>1, <2>4, <3>1
  <2>6. t \in Seq(Step)
    BY <1>1, <2>3, <2>4, RestOf
  <2>7. ASSUME NEW use, NEW checks, NEW mid, LedOrOpen(s, use, checks, mid), checks \cap Marks = {},
               checks \cap mid = {}
        PROVE  /\ LedOrOpen(t, use, checks, mid)
               /\ OpenUse(t, use, mid) => OpenUse(s, use, mid)
    <3>1. \A i \in 1..(m - 1) : s[i] \notin checks
      BY <2>3, <2>7
    <3>2. LedOrOpen(t, use, checks, mid)
      BY <1>1, <2>3, <2>4, <2>6, <2>7, <3>1, RestAfter
    <3>3. NothingChecked(s, m, use, checks)
      BY <3>1 DEF NothingChecked
    <3>4. OpenUse(t, use, mid) => OpenUse(s, use, mid)
      BY <1>1, <2>3, <2>4, <2>6, <2>7, <3>3, OpenInRest
    <3> QED
      BY <3>2, <3>4
  <2>8. /\ CardChecks \cap Marks = {} /\ PaidChecks \cap Marks = {}
        /\ CardMakers \cap Marks = {} /\ BankMakers \cap Marks = {}
    BY DEF CardChecks, PaidChecks, CardMakers, BankMakers, Marks
  <2>9. Shape(t)
    BY <2>6, <2>7, <2>8, DisjointChecks DEF Shape
  <2>10. /\ OpenUse(t, "saveCards", {}) => OpenUse(s, "saveCards", {})
         /\ OpenUse(t, "saveBank", {}) => OpenUse(s, "saveBank", {})
         /\ OpenUse(t, "chargeCard", PaidMid) => OpenUse(s, "chargeCard", PaidMid)
         /\ OpenUse(t, "chargeCard", CardMid) => OpenUse(s, "chargeCard", CardMid)
    BY <2>7, <2>8, DisjointChecks DEF Shape
  <2>11. ASSUME OpenUse(t, "saveBank", {}), OpenUse(t, "chargeCard", PaidMid \cup PaidChecks)
         PROVE  OpenUse(s, "chargeCard", PaidMid \cup PaidChecks)
    <3>1. \A i \in 1..(m - 1) : s[i] \in PaidMid \cup PaidChecks
      BY <2>3 DEF Marks, PaidMid
    <3> QED
      BY <1>1, <2>3, <2>4, <2>6, <2>11, <3>1, OpenAfterSuch
  <2>12. Owes(t, r, mine, bk, cd)
    BY <2>10, <2>11 DEF Owes
  <2> QED
    BY <2>5, <2>9, <2>12
<1> QED
  BY <1>2, <1>3

\* After the call that has failed: its copies are as they were, and a file that
\* what is left relies on was not written.
LEMMA CallFailsOwes ==
    ASSUME NEW s, Shape(s), NEW r, NEW mine, NEW bk, NEW nbk, NEW cd, NEW ncd,
           Owes(s, r, mine, bk, cd), NEW marks,
           marks = {i \in DOMAIN s : s[i] \in Marks}, marks # {}, s[Min(marks)] = "end",
           s[1] \in PaidMid => nbk = bk, s[1] \in CardMid => ncd = cd, s[1] \notin Marks
    PROVE  /\ Shape(SubSeq(s, Min(marks), Len(s)))
           /\ Owes(SubSeq(s, Min(marks), Len(s)), r, mine, nbk, ncd)
<1>1. s \in Seq(Step) /\ Len(s) \in Nat /\ DOMAIN s = 1..Len(s)
  BY DEF Shape
<1>2. PICK m : m = Min(marks)
  OBVIOUS
<1>3. m \in marks /\ \A i \in marks : m <= i
  <2>1. marks \subseteq Nat
    BY <1>1
  <2> QED
    BY <1>2, <2>1, MinIs
<1>4. m \in 1..Len(s) /\ s[m] = "end"
  BY <1>1, <1>2, <1>3
<1>5. \A i \in 1..(m - 1) : s[i] # "try"
  <2>1. ASSUME NEW i \in 1..(m - 1), s[i] = "try"
        PROVE  FALSE
    <3>1. i \in 1..Len(s) /\ i < m
      BY <1>1, <1>4
    <3>2. i \in marks
      BY <1>1, <2>1, <3>1 DEF Marks
    <3> QED
      BY <1>1, <1>3, <1>4, <3>1, <3>2
  <2> QED
    BY <2>1
<1>6. 1 \in 1..(m - 1)
  <2>1. m # 1
    BY <1>1, <1>3
  <2> QED
    BY <1>4, <2>1
<1>7. PICK t : t = SubSeq(s, m, Len(s))
  OBVIOUS
<1>8. t \in Seq(Step) /\ t # <<>> /\ t[1] = "end"
  <2>1. t \in Seq(Step) /\ Len(t) = Len(s) - m + 1
    BY <1>1, <1>4, <1>7, RestOf
  <2>2. 1 \in 1..(Len(s) - m + 1) /\ 1 + m - 1 = m
    BY <1>1, <1>4
  <2>3. t[1] = s[m]
    BY <1>1, <1>4, <1>7, <2>2, RestOf
  <2> QED
    BY <1>4, <2>1, <2>2, <2>3
<1>9. ASSUME NEW use, NEW checks, NEW mid, LedOrOpen(s, use, checks, mid), use # "end",
             "end" \notin checks, checks \cap mid = {}
      PROVE  /\ LedOrOpen(t, use, checks, mid)
             /\ OpenUse(t, use, mid) => OpenUse(s, use, mid) /\ s[1] \in mid /\ "end" \in mid
  <2>1. LedOrOpen(t, use, checks, mid)
    BY <1>1, <1>4, <1>5, <1>7, <1>8, <1>9, RestOfCall
  <2>2. NothingChecked(s, m, use, checks)
    BY <1>4, <1>5, <1>9 DEF NothingChecked
  <2>3. ASSUME OpenUse(t, use, mid)
        PROVE  OpenUse(s, use, mid) /\ (\A k \in 1..(m - 1) : s[k] \in mid) /\ (t[1] # use => t[1] \in mid)
    <3>1. s \in Seq(Step) /\ m \in 1..Len(s) /\ t \in Seq(Step) /\ t = SubSeq(s, m, Len(s))
      BY <1>1, <1>4, <1>7, <1>8
    <3>2. LedOrOpen(s, use, checks, mid) /\ checks \cap mid = {}
      BY <1>9
    <3>3. OpenUse(s, use, mid)
      BY <2>2, <2>3, <3>1, <3>2, OpenInRest
    <3>4. \A k \in 1..(m - 1) : s[k] \in mid
      BY <2>2, <2>3, <3>1, <3>2, OpenInRest
    <3>5. t[1] # use => t[1] \in mid
      BY <2>3, <3>1, OpenStart
    <3> QED
      BY <3>3, <3>4, <3>5
  <2> QED
    BY <1>6, <1>8, <1>9, <2>1, <2>3
<1>10. /\ "end" \notin CardChecks /\ "end" \notin PaidChecks
       /\ "end" \notin CardMakers /\ "end" \notin BankMakers
  BY DEF CardChecks, PaidChecks, CardMakers, BankMakers
<1>11. Shape(t)
  BY <1>8, <1>9, <1>10, DisjointChecks DEF Shape
<1>12. ~OpenUse(t, "saveCards", {}) /\ ~OpenUse(t, "saveBank", {})
  BY <1>9, <1>10, DisjointChecks DEF Shape
<1>13. OpenUse(t, "chargeCard", PaidMid) => OpenUse(s, "chargeCard", PaidMid) /\ s[1] \in PaidMid
  BY <1>9, <1>10, DisjointChecks DEF Shape
<1>14. OpenUse(t, "chargeCard", CardMid) => OpenUse(s, "chargeCard", CardMid) /\ s[1] \in CardMid
  BY <1>9, <1>10, DisjointChecks DEF Shape
<1>15. Owes(t, r, mine, nbk, ncd)
  BY <1>12, <1>13, <1>14 DEF Owes
<1> QED
  BY <1>2, <1>7, <1>11, <1>15

-----------------------------------------------------------------------------
(* One request at a time *)

LEMMA SpentBecame ==
    ASSUME OneAtATime, HybxInv, NEW c \in Client, NEW s, NEW r, NEW mine,
           Shape(s), Owes(s, r, mine, bank', cards'), FilesCovered',
           todo' = [todo EXCEPT ![c] = s], ask' = [ask EXCEPT ![c] = r],
           copy' = [copy EXCEPT ![c] = mine]
    PROVE  SpentInv'
<1>1. ASSUME NEW d \in Client
      PROVE  Shape(todo'[d]) /\ Owes(todo'[d], ask'[d], copy'[d], bank', cards')
  <2>1. d = c
    BY DEF OneAtATime
  <2>2. todo'[d] = s /\ ask'[d] = r /\ copy'[d] = mine
    BY <2>1 DEF HybxInv
  <2> QED
    BY <2>2
<1> QED
  BY <1>1 DEF SpentInv

LEMMA SpentContinues ==
    ASSUME OneAtATime, HybxInv, NEW c \in Client, NEW steps, NEW mine, Shape(steps),
           Owes(steps, ask[c], mine, bank', cards'), FilesCovered', Continue(c, steps, mine)
    PROVE  SpentInv'
<1>1. PICK rest, r : rest = PastMarks(steps) /\ r = ask[c]
  OBVIOUS
<1>2. /\ todo' = [todo EXCEPT ![c] = rest]
      /\ copy' = [copy EXCEPT ![c] = IF rest = <<>> THEN Blank ELSE mine]
      /\ ask' = [ask EXCEPT ![c] = IF rest = <<>> THEN NoRequest ELSE r]
  BY <1>1 DEF Continue
<1>3. Shape(rest) /\ Owes(rest, r, mine, bank', cards')
  <2>1. PICK bk, cd : bk = bank' /\ cd = cards'
    OBVIOUS
  <2> QED
    BY <1>1, <2>1, PastMarksOwes
<1>4. CASE rest = <<>>
  <2>1. ask' = [ask EXCEPT ![c] = NoRequest] /\ copy' = [copy EXCEPT ![c] = Blank]
    BY <1>2, <1>4
  <2>2. Owes(rest, NoRequest, Blank, bank', cards')
    BY <1>4, NothingOwed
  <2> QED
    BY <1>2, <1>3, <2>1, <2>2, SpentBecame
<1>5. CASE rest # <<>>
  <2>1. ask' = [ask EXCEPT ![c] = r] /\ copy' = [copy EXCEPT ![c] = mine]
    BY <1>2, <1>5
  <2> QED
    BY <1>2, <1>3, <2>1, SpentBecame
<1> QED
  BY <1>4, <1>5

LEMMA SpentProceeds ==
    ASSUME OneAtATime, HybxInv, SpentInv, NEW c \in Client, NEW step, At(c, step), NEW mine,
           Sees(step, todo[c], ask[c], copy[c], mine, bank, bank', cards, cards'),
           FilesCovered', Proceed(c, mine)
    PROVE  SpentInv'
<1>1. PICK s, r, old, bk, nbk, cd, ncd :
         /\ s = todo[c] /\ r = ask[c] /\ old = copy[c]
         /\ bk = bank /\ nbk = bank' /\ cd = cards /\ ncd = cards'
  OBVIOUS
<1>2. s # <<>> /\ s[1] = step
  BY <1>1, AtFirst
<1>3. Shape(s) /\ Owes(s, r, old, bk, cd)
  BY <1>1 DEF SpentInv
<1>4. PICK t : t = Tail(s)
  OBVIOUS
<1>5. Shape(t) /\ Owes(t, r, mine, nbk, ncd)
  <2>1. Sees(s[1], s, r, old, mine, bk, nbk, cd, ncd)
    BY <1>1, <1>2
  <2> QED
    BY <1>2, <1>3, <1>4, <2>1, TailShape, TailOwes
<1>6. Continue(c, t, mine)
  BY <1>1, <1>4 DEF Proceed
<1> QED
  BY <1>1, <1>5, <1>6, SpentContinues

LEMMA SpentFails ==
    ASSUME OneAtATime, HybxInv, SpentInv, NEW c \in Client, NEW step, At(c, step), Fail(c),
           step \notin Marks, step \in PaidMid => bank' = bank, step \in CardMid => cards' = cards,
           FilesCovered'
    PROVE  SpentInv'
<1>1. PICK s, r, old, bk, nbk, cd, ncd :
         /\ s = todo[c] /\ r = ask[c] /\ old = copy[c]
         /\ bk = bank /\ nbk = bank' /\ cd = cards /\ ncd = cards'
  OBVIOUS
<1>2. s[1] = step /\ Shape(s) /\ Owes(s, r, old, bk, cd)
  <2>1. s[1] = step
    BY <1>1, AtFirst
  <2>2. Shape(s) /\ Owes(s, r, old, bk, cd)
    BY <1>1 DEF SpentInv
  <2> QED
    BY <2>1, <2>2
<1>3. PICK marks : marks = {i \in DOMAIN s : s[i] \in Marks}
  OBVIOUS
<1>4. PICK steps : steps = IF marks # {} /\ s[Min(marks)] = "end"
                           THEN SubSeq(s, Min(marks), Len(s)) ELSE <<>>
  OBVIOUS
<1>5. Continue(c, steps, old)
  BY <1>1, <1>3, <1>4 DEF Fail
<1>6. Shape(steps) /\ Owes(steps, r, old, nbk, ncd)
  <2>1. CASE marks # {} /\ s[Min(marks)] = "end"
    <3>1. steps = SubSeq(s, Min(marks), Len(s))
      BY <1>4, <2>1
    <3>2. /\ s[1] \in PaidMid => nbk = bk
          /\ s[1] \in CardMid => ncd = cd
          /\ s[1] \notin Marks
      BY <1>1, <1>2
    <3> QED
      BY <1>2, <1>3, <2>1, <3>1, <3>2, CallFailsOwes
  <2>2. CASE ~(marks # {} /\ s[Min(marks)] = "end")
    <3>1. steps = <<>>
      BY <1>4, <2>2
    <3> QED
      BY <3>1, NothingOwed
  <2> QED
    BY <2>1, <2>2
<1> QED
  BY <1>1, <1>5, <1>6, SpentContinues

-----------------------------------------------------------------------------
(* Groups of steps *)

\* A step that no step behind it relies on.
LEMMA OtherSteps ==
    ASSUME OneAtATime, HybxInv, SpentInv, NEW c \in Client, NEW step, At(c, step),
           step \notin CardMakers \cup BankMakers \cup CardMid \cup {"readCard"}, step \notin Marks,
           FilesCovered', NEW mine, Proceed(c, mine) \/ Fail(c)
    PROVE  SpentInv'
<1>1. step \notin PaidMid /\ step # "saveBank"
  BY DEF PaidMid, CardMid
<1>2. Sees(step, todo[c], ask[c], copy[c], mine, bank, bank', cards, cards')
  BY <1>1 DEF Sees
<1> QED
  BY <1>1, <1>2, SpentProceeds, SpentFails

LEMMA BothStay ==
    ASSUME SpentInv, UNCHANGED <<bank, cards>>
    PROVE  FilesCovered'
BY DEF SpentInv, FilesCovered

\* Between the save of the bank and the charge.
LEMMA PaidSteps ==
    ASSUME OneAtATime, HybxInv, SpentInv, NEW c \in Client, NEW step, At(c, step),
           step \in {"debitMirror", "saveMirrors", "federate"}, UNCHANGED <<bank, cards>>,
           NEW mine, mine.cards = copy[c].cards, Proceed(c, mine) \/ Fail(c)
    PROVE  SpentInv'
<1>1. FilesCovered'
  BY BothStay
<1>2. step \notin CardMakers /\ step \notin BankMakers /\ step # "saveBank" /\ step # "readCard"
      /\ step \notin Marks
  BY DEF CardMakers, BankMakers, Marks
<1>3. Sees(step, todo[c], ask[c], copy[c], mine, bank, bank', cards, cards')
  BY <1>2 DEF Sees
<1> QED
  BY <1>1, <1>2, <1>3, SpentProceeds, SpentFails

\* The amount of a payment leaves its account.
PaidOut(old, new, r) ==
    \A a \in Account : OutOf(old, a) + (IF a = r.acct THEN r.amount ELSE 0) <= OutOf(new, a)

LEMMA BankMakerSteps ==
    ASSUME IsFiniteSet(Card), OneAtATime, HybxInv, SpentInv, NEW c \in Client,
           NEW step \in BankMakers, At(c, step), UNCHANGED <<bank, cards>>, NEW st,
           \/ /\ st \in BankFile /\ OutGrows(bank, st)
              /\ step \in {"debit", "send"} => PaidOut(bank, st, ask[c])
              /\ Proceed(c, [copy[c] EXCEPT !.bank = st])
           \/ Fail(c)
    PROVE  SpentInv'
<1>1. FilesCovered'
  BY BothStay
<1>2. step \notin CardMakers /\ step \notin PaidMid /\ step # "saveBank" /\ step # "readCard"
      /\ step \notin Marks
  BY DEF CardMakers, BankMakers, PaidMid, Marks
<1>3. CASE Fail(c)
  BY <1>1, <1>2, <1>3, SpentFails
<1>4. CASE /\ st \in BankFile /\ OutGrows(bank, st)
           /\ step \in {"debit", "send"} => PaidOut(bank, st, ask[c])
           /\ Proceed(c, [copy[c] EXCEPT !.bank = st])
  <2>1. PICK s, r, old, mine : /\ s = todo[c] /\ r = ask[c] /\ old = copy[c]
                               /\ mine = [copy[c] EXCEPT !.bank = st]
    OBVIOUS
  <2>2. CopySound(old) /\ r \in CardRequest /\ s \in Seq(Step) /\ s[1] = step
    BY <2>1, AtFirst
  <2>3. mine.cards = old.cards /\ mine.bank = st /\ old.cards \in CardFile
    BY <2>1, <2>2 DEF CopySound, CopyFiles
  <2>4. ASSUME OpenUse(s, "chargeCard", CardMid)
        PROVE  Ahead(mine.cards, r, st)
    <3>1. step \in {"debit", "send"}
      <4>1. step = "chargeCard" \/ step \in CardMid
        BY <2>2, <2>4, OpenStart
      <4> QED
        BY <4>1 DEF BankMakers, CardMid
    <3>2. PICK f, g, b : f = mine.cards /\ g = cards /\ b = bank
      OBVIOUS
    <3>3. g # Broken /\ SpentLess(f, g)
      BY <2>1, <2>3, <2>4, <3>2 DEF SpentInv, Owes
    <3>4. Covered(g, b) /\ g \in CardFile /\ b \in BankFile \cup {NoFile, Broken}
      BY <3>2, <3>3 DEF SpentInv, FilesCovered, HybxInv, FilesSound, CardsSound
    <3>5. Covered(f, b)
      BY <2>3, <3>2, <3>3, <3>4, LessIsCovered
    <3>6. b # Broken /\ PaidOut(b, st, r)
      BY <1>4, <2>1, <3>1, <3>2 DEF OutGrows
    <3>7. ASSUME NEW a \in Account
          PROVE  SpentBy(f, a) + (IF a = r.acct THEN r.amount ELSE 0) <= OutOf(st, a)
      <4>1. /\ SpentBy(f, a) <= OutOf(b, a)
            /\ OutOf(b, a) + (IF a = r.acct THEN r.amount ELSE 0) <= OutOf(st, a)
        BY <3>5, <3>6 DEF Covered, PaidOut
      <4>2. SpentBy(f, a) \in Nat /\ OutOf(b, a) \in Nat /\ OutOf(st, a) \in Nat /\ r.amount \in Nat
        BY <1>4, <2>2, <2>3, <3>2, <3>4, <3>6, SpentByNat, OutIsNat, RequestAmount
      <4>3. PICK n : n = IF a = r.acct THEN r.amount ELSE 0
        OBVIOUS
      <4>4. n \in Nat
        BY <4>2, <4>3
      <4> QED
        BY <4>1, <4>2, <4>3, <4>4
    <3>8. st # Broken
      BY <1>4, BankAssumption
    <3> QED
      BY <3>2, <3>7, <3>8 DEF Ahead
  <2>5. OutGrows(bank', mine.bank)
    BY <1>4, <2>3
  <2>6. Sees(step, todo[c], ask[c], copy[c], mine, bank, bank', cards, cards')
    BY <1>2, <2>1, <2>3, <2>4, <2>5 DEF Sees
  <2> QED
    BY <1>1, <1>4, <2>1, <2>6, SpentProceeds
<1> QED
  BY <1>3, <1>4

LEMMA CardMakerSteps ==
    ASSUME OneAtATime, HybxInv, SpentInv, NEW c \in Client, NEW step \in CardMakers, At(c, step),
           UNCHANGED <<bank, cards>>, NEW f, Covered(f, bank),
           Proceed(c, [copy[c] EXCEPT !.cards = f])
    PROVE  SpentInv'
<1>1. FilesCovered'
  BY BothStay
<1>2. /\ step \notin BankMakers /\ step \notin CardMid /\ step \notin PaidMid
      /\ step # "saveBank" /\ step # "readCard"
  BY DEF CardMakers, BankMakers, CardMid, PaidMid
<1>3. PICK old, mine : old = copy[c] /\ mine = [copy[c] EXCEPT !.cards = f]
  OBVIOUS
<1>4. mine.cards = f
  <2>1. old \in CopyFiles
    BY <1>3 DEF HybxInv
  <2> QED
    BY <1>3, <2>1 DEF CopyFiles
<1>5. Sees(step, todo[c], ask[c], copy[c], mine, bank, bank', cards, cards')
  BY <1>2, <1>4 DEF Sees
<1> QED
  BY <1>1, <1>3, <1>5, SpentProceeds

-----------------------------------------------------------------------------
(* What leaves an account *)

LEMMA LoadedOut ==
    ASSUME CanLoad, NEW a \in Account
    PROVE  OutOf(Loaded, a) = OutOf(bank, a)
BY DEF Loaded, OutOf, EmptyBank

LEMMA DebitedOut ==
    ASSUME NEW st \in BankFile, NEW a, NEW n \in Nat, CanDebit(st, a, n), NEW b \in Account
    PROVE  OutOf(Debited(st, a, n), b) = OutOf(st, b) + (IF b = a THEN n ELSE 0)
<1>1. PICK new : new = Debited(st, a, n)
  OBVIOUS
<1>2. new \in BankFile /\ new # NoFile /\ st # NoFile /\ a \in Account /\ st[a] \in BankAccount
  BY <1>1, DebitedFile, BankAssumption DEF CanDebit, Exists, BankFile
<1>3. CASE b = a
  <2>1. new[a] \in BankAccount
    BY <1>1, DebitedFile
  <2>2. new[a].out = st[a].out + n
    BY <1>1, <1>2 DEF Debited, BankFile, BankAccount
  <2>3. new[a] # NoAccount /\ st[a] # NoAccount
    BY <1>2, <2>1, BankAssumption
  <2> QED
    BY <1>1, <1>2, <1>3, <2>2, <2>3 DEF OutOf
<1>4. CASE b # a
  <2>1. new[b] = st[b]
    BY <1>1, <1>4 DEF Debited, BankFile
  <2>2. OutOf(st, b) \in Nat
    BY OutIsNat
  <2> QED
    BY <1>1, <1>2, <1>4, <2>1, <2>2 DEF OutOf
<1> QED
  BY <1>3, <1>4

LEMMA CreditedOut ==
    ASSUME NEW st \in BankFile, NEW a, NEW n \in Nat, Exists(st, a), NEW b \in Account
    PROVE  OutOf(Credited(st, a, n), b) = OutOf(st, b)
<1>1. PICK new : new = Credited(st, a, n)
  OBVIOUS
<1>2. new \in BankFile /\ new # NoFile /\ st # NoFile /\ a \in Account /\ st[a] \in BankAccount
  BY <1>1, CreditedFile, BankAssumption DEF Exists, BankFile
<1>3. CASE b = a
  <2>1. DOMAIN new = Account /\ new[a] = [st[a] EXCEPT !.bal = @ + n, !.in = @ + n]
    BY <1>1, <1>2 DEF Credited, BankFile
  <2>2. st[a].bal + n \in Nat /\ st[a].in + n \in Nat
    BY <1>2 DEF BankAccount
  <2>3. new[a] \in BankAccount /\ new[a].out = st[a].out
    BY <1>2, <2>1, <2>2 DEF BankAccount
  <2>4. new[a] # NoAccount /\ st[a] # NoAccount
    BY <1>2, <2>3, BankAssumption
  <2> QED
    BY <1>1, <1>2, <1>3, <2>3, <2>4 DEF OutOf
<1>4. CASE b # a
  <2>1. new[b] = st[b]
    BY <1>1, <1>4 DEF Credited, BankFile
  <2> QED
    BY <1>1, <1>2, <2>1 DEF OutOf
<1> QED
  BY <1>3, <1>4

LEMMA MovedOut ==
    ASSUME NEW st \in BankFile, NEW a, NEW d, NEW n \in Nat, CanMove(st, a, d, n), NEW b \in Account
    PROVE  OutOf(Moved(st, a, d, n), b) = OutOf(st, b) + (IF b = a THEN n ELSE 0)
<1>1. CanDebit(st, a, n) /\ Exists(st, d)
  BY DEF CanMove
<1>2. PICK new : new = Debited(st, a, n)
  OBVIOUS
<1>3. new \in BankFile /\ new[a] \in BankAccount
  BY <1>1, <1>2, DebitedFile
<1>4. Exists(new, d)
  <2>1. CASE d = a
    BY <1>1, <1>3, <2>1, BankAssumption DEF Exists
  <2>2. CASE d # a
    BY <1>1, <1>2, <2>2 DEF Debited, Exists, BankFile
  <2> QED
    BY <2>1, <2>2
<1>5. OutOf(Credited(new, d, n), b) = OutOf(new, b)
  BY <1>3, <1>4, CreditedOut
<1>6. OutOf(new, b) = OutOf(st, b) + (IF b = a THEN n ELSE 0)
  BY <1>1, <1>2, DebitedOut
<1> QED
  BY <1>2, <1>5, <1>6 DEF Moved

LEMMA SentOut ==
    ASSUME NEW st \in BankFile, NEW a, NEW n \in Nat, CanDebit(st, a, n), NEW done \in Nat,
           NEW b \in Account
    PROVE  OutOf([Debited(st, a, n) EXCEPT ![a].settled = @ + done], b) =
              OutOf(st, b) + (IF b = a THEN n ELSE 0)
<1>1. PICK was : was = Debited(st, a, n)
  OBVIOUS
<1>2. PICK new : new = [was EXCEPT ![a].settled = @ + done]
  OBVIOUS
<1>3. /\ was \in BankFile /\ was[a] \in BankAccount /\ new \in BankFile /\ a \in Account
      /\ was # NoFile /\ new # NoFile
  BY <1>1, <1>2, DebitedFile, SentFile, BankAssumption DEF CanDebit, Exists
<1>4. OutOf(new, b) = OutOf(was, b)
  <2>1. CASE b = a
    <3>1. new[a] = [was[a] EXCEPT !.settled = @ + done] /\ was[a].settled + done \in Nat
      BY <1>2, <1>3 DEF BankFile, BankAccount
    <3>2. new[a] \in BankAccount /\ new[a].out = was[a].out
      BY <1>3, <3>1 DEF BankAccount
    <3>3. new[a] # NoAccount /\ was[a] # NoAccount
      BY <1>3, <3>2, BankAssumption
    <3> QED
      BY <1>3, <2>1, <3>2, <3>3 DEF OutOf
  <2>2. CASE b # a
    <3>1. new[b] = was[b]
      BY <1>2, <1>3, <2>2 DEF BankFile
    <3> QED
      BY <1>3, <3>1 DEF OutOf
  <2> QED
    BY <2>1, <2>2
<1>5. OutOf(was, b) = OutOf(st, b) + (IF b = a THEN n ELSE 0)
  BY <1>1, DebitedOut
<1> QED
  BY <1>1, <1>2, <1>4, <1>5

LEMMA CoreSyncedOut ==
    ASSUME NEW st \in BankFile, NEW balances \in [CoreAccounts -> Nat], NEW b \in Account
    PROVE  OutOf(CoreSynced(st, balances), b) = OutOf(st, b)
<1>1. PICK new : new = CoreSynced(st, balances)
  OBVIOUS
<1>2. new \in BankFile /\ new # NoFile /\ st # NoFile
  BY <1>1, CoreSyncedFile, BankAssumption
<1>3. CASE b \notin CoreAccounts
  <2>1. new[b] = st[b]
    BY <1>1, <1>3 DEF CoreSynced
  <2> QED
    BY <1>1, <1>2, <2>1 DEF OutOf
<1>4. CASE b \in CoreAccounts
  <2>1. PICK was : was = (IF st[b] = NoAccount THEN WithSystemAccount(st, b, CoreCurrency) ELSE st)[b]
    OBVIOUS
  <2>2. was \in BankAccount /\ (IF st[b] = NoAccount THEN was.out = 0 ELSE was = st[b])
    <3>1. CASE st[b] = NoAccount
      <4>1. was = [currency |-> CoreCurrency, opening |-> 0, bal |-> 0,
                   in |-> 0, out |-> 0, settled |-> 0]
        BY <2>1, <3>1 DEF WithSystemAccount, BankFile
      <4> QED
        BY <3>1, <4>1, BankAssumption DEF BankAccount
    <3>2. CASE st[b] # NoAccount
      BY <2>1, <3>2 DEF BankFile
    <3> QED
      BY <3>1, <3>2
  <2>3. new[b] = [was EXCEPT !.bal = balances[b]] /\ balances[b] \in Nat
    BY <1>1, <1>4, <2>1 DEF CoreSynced
  <2>4. new[b] \in BankAccount /\ new[b].out = was.out
    BY <2>2, <2>3 DEF BankAccount
  <2>5. new[b] # NoAccount
    BY <2>4, BankAssumption
  <2> QED
    BY <1>1, <1>2, <2>2, <2>4, <2>5 DEF OutOf
<1> QED
  BY <1>3, <1>4

\* A new bank to save, by what has left its accounts since it was loaded.
LEMMA GrowsFromLoaded ==
    ASSUME HybxInv, CanLoad, NEW st \in BankFile, NEW was, was = Loaded,
           \A a \in Account : OutOf(was, a) <= OutOf(st, a)
    PROVE  OutGrows(bank, st)
<1>1. bank # Broken
  BY DEF CanLoad
<1> QED
  BY <1>1, LoadedOut DEF OutGrows

LEMMA PaidFromLoaded ==
    ASSUME HybxInv, CanLoad, NEW st \in BankFile, NEW was, was = Loaded, NEW r \in CardRequest,
           \A a \in Account : OutOf(st, a) = OutOf(was, a) + (IF a = r.acct THEN r.amount ELSE 0)
    PROVE  OutGrows(bank, st) /\ PaidOut(bank, st, r)
<1>1. ASSUME NEW a \in Account
      PROVE  /\ OutOf(was, a) <= OutOf(st, a)
             /\ OutOf(was, a) + (IF a = r.acct THEN r.amount ELSE 0) <= OutOf(st, a)
  <2>1. PICK n : n = IF a = r.acct THEN r.amount ELSE 0
    OBVIOUS
  <2>2. n \in Nat
    BY <2>1, RequestAmount
  <2>3. was \in BankFile
    BY LoadedFile DEF HybxInv, FilesSound
  <2>4. OutOf(was, a) \in Nat /\ OutOf(st, a) \in Nat
    BY <2>3, OutIsNat
  <2>5. OutOf(st, a) = OutOf(was, a) + n
    BY <2>1
  <2> QED
    BY <2>1, <2>2, <2>4, <2>5
<1>2. OutGrows(bank, st)
  BY <1>1, GrowsFromLoaded
<1>3. PaidOut(bank, st, r)
  BY <1>1, LoadedOut DEF PaidOut
<1> QED
  BY <1>2, <1>3

-----------------------------------------------------------------------------
(* The steps of the bank and the mirrors *)

LEMMA BankReadsPay ==
    ASSUME IsFiniteSet(Card), OneAtATime, HybxInv, SpentInv, NEW c \in Client,
           ConvertBank(c) \/ Debit(c) \/ MoveToCore(c) \/ CoreSync(c)
    PROVE  SpentInv'
<1>1. PICK r, st0 : r = ask[c] /\ st0 = Loaded
  OBVIOUS
<1>2. CanLoad => st0 \in BankFile /\ \A a \in Account : OutOf(st0, a) \in Nat
  BY <1>1, InFiles, OutIsNat
<1>3. CASE ConvertBank(c)
  <2>1. At(c, "convertBank") /\ UNCHANGED <<bank, cards>>
    BY <1>3 DEF ConvertBank, Reads
  <2>2. r.amount \in Nat
    BY <1>1, <2>1, AtFirst, RequestAmount
  <2>3. PICK st : st = IF ToMirror(r) THEN Debited(st0, r.acct, r.amount) ELSE Credited(st0, r.acct, r.amount)
    OBVIOUS
  <2>4. \/ Fail(c)
        \/ /\ CanLoad /\ Proceed(c, [copy[c] EXCEPT !.bank = st])
           /\ IF ToMirror(r) THEN CanDebit(st0, r.acct, r.amount) ELSE CanDeposit(st0, r.acct, r.amount)
    BY <1>1, <1>3, <2>3 DEF ConvertBank, Reads
  <2>5. ASSUME CanLoad,
               IF ToMirror(r) THEN CanDebit(st0, r.acct, r.amount) ELSE CanDeposit(st0, r.acct, r.amount)
        PROVE  st \in BankFile /\ OutGrows(bank, st)
    <3>1. CASE ToMirror(r)
      <4>1. CanDebit(st0, r.acct, r.amount) /\ st = Debited(st0, r.acct, r.amount)
        BY <2>3, <2>5, <3>1
      <4>2. st \in BankFile
        BY <1>2, <2>2, <2>5, <4>1, DebitedFile
      <4>3. \A a \in Account : OutOf(st, a) = OutOf(st0, a) + (IF a = r.acct THEN r.amount ELSE 0)
        BY <1>2, <2>2, <2>5, <4>1, DebitedOut
      <4> QED
        BY <1>1, <2>1, <2>5, <4>2, <4>3, AtFirst, PaidFromLoaded
    <3>2. CASE ~ToMirror(r)
      <4>1. Exists(st0, r.acct) /\ st = Credited(st0, r.acct, r.amount)
        BY <2>3, <2>5, <3>2 DEF CanDeposit
      <4>2. st \in BankFile
        BY <1>2, <2>2, <2>5, <4>1, CreditedFile
      <4>3. \A a \in Account : OutOf(st, a) = OutOf(st0, a)
        BY <1>2, <2>2, <2>5, <4>1, CreditedOut
      <4>4. \A a \in Account : OutOf(st0, a) <= OutOf(st, a)
        BY <1>2, <2>5, <4>3
      <4> QED
        BY <1>1, <2>5, <4>2, <4>4, GrowsFromLoaded
    <3> QED
      BY <3>1, <3>2
  <2>6. "convertBank" \in BankMakers
    BY DEF BankMakers
  <2> QED
    BY <2>1, <2>4, <2>5, <2>6, BankMakerSteps
<1>4. CASE Debit(c)
  <2>1. At(c, "debit") /\ UNCHANGED <<bank, cards>>
    BY <1>4 DEF Debit, Reads
  <2>2. r \in CardRequest /\ r.amount \in Nat
    BY <1>1, <2>1, AtFirst, RequestAmount
  <2>3. PICK st : st = Debited(st0, r.acct, r.amount)
    OBVIOUS
  <2>4. \/ Fail(c)
        \/ CanLoad /\ CanDebit(st0, r.acct, r.amount) /\ Proceed(c, [copy[c] EXCEPT !.bank = st])
    BY <1>1, <1>4, <2>3 DEF Debit, Reads
  <2>5. ASSUME CanLoad, CanDebit(st0, r.acct, r.amount)
        PROVE  st \in BankFile /\ OutGrows(bank, st) /\ PaidOut(bank, st, r)
    <3>1. st \in BankFile
      BY <1>2, <2>2, <2>3, <2>5, DebitedFile
    <3>2. \A a \in Account : OutOf(st, a) = OutOf(st0, a) + (IF a = r.acct THEN r.amount ELSE 0)
      BY <1>2, <2>2, <2>3, <2>5, DebitedOut
    <3> QED
      BY <1>1, <2>2, <2>5, <3>1, <3>2, PaidFromLoaded
  <2>6. "debit" \in BankMakers
    BY DEF BankMakers
  <2> QED
    BY <1>1, <2>1, <2>4, <2>5, <2>6, BankMakerSteps
<1>5. CASE MoveToCore(c)
  <2>1. At(c, "moveToCore") /\ UNCHANGED <<bank, cards>>
    BY <1>5 DEF MoveToCore, Reads
  <2>2. r \in CardRequest /\ r.amount \in Nat
    BY <1>1, <2>1, AtFirst, RequestAmount
  <2>3. PICK st : st = Moved(st0, r.acct, CoreAccount, r.amount)
    OBVIOUS
  <2>4. \/ Fail(c)
        \/ /\ CanLoad /\ CanMove(st0, r.acct, CoreAccount, r.amount)
           /\ Proceed(c, [copy[c] EXCEPT !.bank = st])
    BY <1>1, <1>5, <2>3 DEF MoveToCore, Reads
  <2>5. ASSUME CanLoad, CanMove(st0, r.acct, CoreAccount, r.amount)
        PROVE  st \in BankFile /\ OutGrows(bank, st)
    <3>1. st \in BankFile
      BY <1>2, <2>2, <2>3, <2>5, MovedFile
    <3>2. \A a \in Account : OutOf(st, a) = OutOf(st0, a) + (IF a = r.acct THEN r.amount ELSE 0)
      BY <1>2, <2>2, <2>3, <2>5, MovedOut
    <3> QED
      BY <1>1, <2>2, <2>5, <3>1, <3>2, PaidFromLoaded
  <2>6. "moveToCore" \in BankMakers
    BY DEF BankMakers
  <2> QED
    BY <2>1, <2>4, <2>5, <2>6, BankMakerSteps
<1>6. CASE CoreSync(c)
  <2>1. At(c, "coreSync") /\ UNCHANGED <<bank, cards>>
    BY <1>6 DEF CoreSync, Reads
  <2>2. PICK b : b = core
    OBVIOUS
  <2>3. PICK st : st = CoreSynced(st0, b)
    OBVIOUS
  <2>4. \/ Fail(c)
        \/ CanLoad /\ Proceed(c, [copy[c] EXCEPT !.bank = st])
    BY <1>1, <1>6, <2>2, <2>3 DEF CoreSync, Reads
  <2>5. ASSUME CanLoad
        PROVE  st \in BankFile /\ OutGrows(bank, st)
    <3>1. b \in [CoreAccounts -> Nat]
      BY <2>2 DEF HybxInv, FilesSound
    <3>2. st \in BankFile
      BY <1>2, <2>3, <2>5, <3>1, CoreSyncedFile
    <3>3. \A a \in Account : OutOf(st, a) = OutOf(st0, a)
      BY <1>2, <2>3, <2>5, <3>1, CoreSyncedOut
    <3>4. \A a \in Account : OutOf(st0, a) <= OutOf(st, a)
      BY <1>2, <2>5, <3>3
    <3> QED
      BY <1>1, <2>5, <3>2, <3>4, GrowsFromLoaded
  <2>6. "coreSync" \in BankMakers
    BY DEF BankMakers
  <2> QED
    BY <2>1, <2>4, <2>5, <2>6, BankMakerSteps
<1> QED
  BY <1>3, <1>4, <1>5, <1>6

LEMMA SendOutPays ==
    ASSUME IsFiniteSet(Card), OneAtATime, HybxInv, SpentInv, NEW c \in Client, SendOut(c)
    PROVE  SpentInv'
<1>1. At(c, "send") /\ UNCHANGED <<bank, cards>>
  BY DEF SendOut
<1>2. PICK r, st0 : r = ask[c] /\ st0 = Loaded
  OBVIOUS
<1>3. r \in CardRequest /\ r.amount \in Nat /\ (CanLoad => st0 \in BankFile)
  BY <1>1, <1>2, AtFirst, RequestAmount, InFiles
<1>4. "send" \in BankMakers
  BY DEF BankMakers
<1>5. CASE Fail(c)
  BY <1>1, <1>4, <1>5, BankMakerSteps
<1>6. CASE CanLoad /\ CanDebit(st0, r.acct, r.amount) /\ \E sent :
             Proceed(c, [copy[c] EXCEPT !.bank = [Debited(st0, r.acct, r.amount) EXCEPT
                ![r.acct].settled = @ + (IF sent.completed THEN r.amount ELSE 0)]])
  <2>1. PICK sent : Proceed(c, [copy[c] EXCEPT !.bank = [Debited(st0, r.acct, r.amount) EXCEPT
                ![r.acct].settled = @ + (IF sent.completed THEN r.amount ELSE 0)]])
    BY <1>6
  <2>2. PICK done \in Nat : done = IF sent.completed THEN r.amount ELSE 0
    <3>1. CASE sent.completed
      BY <1>3, <3>1
    <3>2. CASE ~sent.completed
      BY <3>2
    <3> QED
      BY <3>1, <3>2
  <2>3. PICK st : st = [Debited(st0, r.acct, r.amount) EXCEPT ![r.acct].settled = @ + done]
    OBVIOUS
  <2>4. st \in BankFile
    BY <1>3, <1>6, <2>3, SentFile
  <2>5. \A a \in Account : OutOf(st, a) = OutOf(st0, a) + (IF a = r.acct THEN r.amount ELSE 0)
    BY <1>3, <1>6, <2>3, SentOut
  <2>6. OutGrows(bank, st) /\ PaidOut(bank, st, r)
    BY <1>2, <1>3, <1>6, <2>4, <2>5, PaidFromLoaded
  <2>7. Proceed(c, [copy[c] EXCEPT !.bank = st])
    BY <2>1, <2>2, <2>3
  <2> QED
    BY <1>1, <1>2, <1>4, <2>4, <2>6, <2>7, BankMakerSteps
<1> QED
  BY <1>2, <1>5, <1>6 DEF SendOut

\* Steps that leave the bank and the cards, and that none behind relies on.
LEMMA QuietPays ==
    ASSUME OneAtATime, HybxInv, SpentInv, NEW c \in Client,
           MirrorSync(c) \/ ReadMirror(c) \/ MoveMirror(c) \/ TellCore(c)
    PROVE  SpentInv'
<1>1. PICK step \in {"mirrorSync", "toHybx", "fromHybx", "moveMirror", "tellCore"} : At(c, step)
  BY DEF MirrorSync, ReadMirror, MoveMirror, TellCore, Reads
<1>2. UNCHANGED <<bank, cards>>
  BY DEF MirrorSync, ReadMirror, MoveMirror, TellCore, Reads
<1>3. FilesCovered'
  BY <1>2, BothStay
<1>4. /\ step \notin CardMakers \cup BankMakers \cup CardMid \cup {"readCard"}
      /\ step \notin Marks
  BY <1>1 DEF CardMakers, BankMakers, CardMid, Marks
<1>5. CASE MirrorSync(c)
  <2>1. PICK mine : mine = [copy[c] EXCEPT !.mirrors = Mirrored(mirrors, Loaded)]
    OBVIOUS
  <2>2. Proceed(c, mine) \/ Fail(c)
    BY <1>5, <2>1 DEF MirrorSync, Reads
  <2> QED
    BY <1>1, <1>3, <1>4, <2>2, OtherSteps
<1>6. CASE ReadMirror(c)
  <2>1. PICK mine : mine = [copy[c] EXCEPT !.mirrors = mirrors]
    OBVIOUS
  <2>2. Proceed(c, mine) \/ Fail(c)
    BY <1>6, <2>1 DEF ReadMirror, Reads
  <2> QED
    BY <1>1, <1>3, <1>4, <2>2, OtherSteps
<1>7. CASE MoveMirror(c)
  <2>1. PICK mine : mine = [copy[c] EXCEPT !.mirrors[ask[c].acct] =
                               IF ToMirror(ask[c]) THEN @ + ask[c].amount ELSE @ - ask[c].amount]
    OBVIOUS
  <2>2. Proceed(c, mine) \/ Fail(c)
    BY <1>7, <2>1 DEF MoveMirror, Reads
  <2> QED
    BY <1>1, <1>3, <1>4, <2>2, OtherSteps
<1>8. CASE TellCore(c)
  <2>1. PICK mine : mine = copy[c]
    OBVIOUS
  <2>2. Proceed(c, mine) \/ Fail(c)
    BY <1>8, <2>1 DEF TellCore
  <2> QED
    BY <1>1, <1>3, <1>4, <2>2, OtherSteps
<1> QED
  BY <1>5, <1>6, <1>7, <1>8

LEMMA MirrorPays ==
    ASSUME OneAtATime, HybxInv, SpentInv, NEW c \in Client,
           DebitMirror(c) \/ SaveMirrors(c) \/ Federate(c)
    PROVE  SpentInv'
<1>1. PICK step \in {"debitMirror", "saveMirrors", "federate"} : At(c, step)
  BY DEF DebitMirror, SaveMirrors, Federate, Reads
<1>2. UNCHANGED <<bank, cards>>
  BY DEF DebitMirror, SaveMirrors, Federate, Reads
<1>3. CASE DebitMirror(c)
  <2>1. PICK old : old = copy[c]
    OBVIOUS
  <2>2. PICK ms : ms = [mirrors EXCEPT ![ask[c].acct] =
                           IF @ > ask[c].amount THEN @ - ask[c].amount ELSE 0]
    OBVIOUS
  <2>3. PICK mine : mine = [old EXCEPT !.mirrors = ms]
    OBVIOUS
  <2>4. mine.cards = old.cards
    BY <2>1, <2>3 DEF HybxInv, CopyFiles
  <2>5. Proceed(c, mine) \/ Fail(c)
    BY <1>3, <2>1, <2>2, <2>3 DEF DebitMirror, Reads
  <2> QED
    BY <1>1, <1>2, <2>1, <2>4, <2>5, PaidSteps
<1>4. CASE SaveMirrors(c) \/ Federate(c)
  <2>1. PICK mine : mine = copy[c]
    OBVIOUS
  <2>2. Proceed(c, mine) \/ Fail(c)
    BY <1>4, <2>1 DEF SaveMirrors, Federate
  <2> QED
    BY <1>1, <1>2, <2>1, <2>2, PaidSteps
<1> QED
  BY <1>3, <1>4

LEMMA CardsFile ==
    ASSUME HybxInv, cards # Broken
    PROVE  cards \in CardFile
BY DEF HybxInv, FilesSound, CardsSound

LEMMA BankIsFile ==
    ASSUME HybxInv
    PROVE  bank \in BankFile \cup {NoFile, Broken}
BY DEF HybxInv, FilesSound

LEMMA SeedBankPays ==
    ASSUME IsFiniteSet(Card), OneAtATime, HybxInv, SpentInv, NEW c \in Client, SeedBank(c)
    PROVE  SpentInv'
<1>1. At(c, "seed") /\ UNCHANGED cards
  BY DEF SeedBank
<1>2. /\ Proceed(c, copy[c]) \/ Fail(c)
      /\ bank' = bank \/ bank' = Broken \/ (CanLoad /\ NoAccounts(Loaded) /\ bank' = Seeded)
  BY DEF SeedBank, Save, SaveFails
<1>3. FilesCovered'
  <2>1. PICK f, b : f = cards /\ b = bank
    OBVIOUS
  <2>2. SUFFICES ASSUME f # Broken
                 PROVE  Covered(f, bank')
    BY <1>1, <2>1 DEF FilesCovered
  <2>3. Covered(f, b) /\ f \in CardFile /\ b \in BankFile \cup {NoFile, Broken}
    BY <2>1, <2>2, CardsFile, BankIsFile DEF SpentInv, FilesCovered
  <2>4. CASE bank' = bank
    BY <2>1, <2>3, <2>4
  <2>5. CASE bank' = Broken
    BY <2>5 DEF Covered
  <2>6. CASE CanLoad /\ NoAccounts(Loaded) /\ bank' = Seeded
    <3>1. \A a \in Account : OutOf(b, a) = 0 /\ OutOf(Seeded, a) \in Nat
      BY <2>1, <2>6, OutIsNat, BankAssumption DEF NoAccounts, Loaded, OutOf
    <3>2. OutGrows(b, Seeded)
      BY <2>1, <2>6, <3>1 DEF OutGrows, CanLoad
    <3>3. Covered(f, Seeded)
      BY <2>3, <3>2, GrowsIsCovered, BankAssumption
    <3> QED
      BY <2>6, <3>3
  <2> QED
    BY <1>2, <2>4, <2>5, <2>6
<1>4. "seed" \notin CardMakers \cup BankMakers \cup CardMid \cup {"readCard"} /\ "seed" \notin Marks
  BY DEF CardMakers, BankMakers, CardMid, Marks
<1>5. PICK mine : mine = copy[c]
  OBVIOUS
<1> QED
  BY <1>1, <1>2, <1>3, <1>4, <1>5, OtherSteps

LEMMA SaveBankPays ==
    ASSUME IsFiniteSet(Card), OneAtATime, HybxInv, SpentInv, NEW c \in Client, SaveBank(c)
    PROVE  SpentInv'
<1>1. At(c, "saveBank") /\ UNCHANGED cards
  BY DEF SaveBank
<1>2. PICK s, r, mine, f, b : s = todo[c] /\ r = ask[c] /\ mine = copy[c] /\ f = cards /\ b = bank
  OBVIOUS
<1>3. s # <<>> /\ s[1] = "saveBank" /\ s \in Seq(Step) /\ mine.bank \in BankFile
  BY <1>1, <1>2, AtFirst DEF CopySound, CopyFiles
<1>4. f # Broken => Covered(f, b) /\ f \in CardFile /\ b \in BankFile \cup {NoFile, Broken}
  BY <1>2, CardsFile, BankIsFile DEF SpentInv, FilesCovered
<1>5. CASE bank' = mine.bank /\ Proceed(c, mine)
  <2>1. OutGrows(b, mine.bank)
    <3>1. OpenUse(s, "saveBank", {})
      BY <1>3, OpenFirst
    <3> QED
      BY <1>2, <3>1 DEF SpentInv, Owes
  <2>2. f # Broken => Covered(f, mine.bank)
    BY <1>3, <1>4, <2>1, GrowsIsCovered
  <2>3. FilesCovered'
    BY <1>1, <1>2, <1>5, <2>2 DEF FilesCovered
  <2>4. "saveBank" \notin CardMakers \cup BankMakers \cup PaidMid \cup {"readCard"}
    BY DEF CardMakers, BankMakers, PaidMid
  <2>5. Sees("saveBank", todo[c], ask[c], copy[c], mine, bank, bank', cards, cards')
    BY <1>1, <1>2, <1>5, <2>4 DEF Sees
  <2> QED
    BY <1>1, <1>5, <2>3, <2>5, SpentProceeds
<1>6. CASE bank' \in {bank, Broken} /\ Fail(c)
  <2>1. f # Broken => Covered(f, bank')
    BY <1>2, <1>4, <1>6 DEF Covered
  <2>2. FilesCovered'
    BY <1>1, <1>2, <2>1 DEF FilesCovered
  <2>3. "saveBank" \notin PaidMid /\ "saveBank" \notin Marks
    BY DEF PaidMid, Marks
  <2> QED
    BY <1>1, <1>6, <2>2, <2>3, SpentFails
<1> QED
  BY <1>2, <1>5, <1>6 DEF SaveBank, Save, SaveFails

-----------------------------------------------------------------------------
(* The steps of cards *)

LEMMA SaveCardsPays ==
    ASSUME OneAtATime, HybxInv, SpentInv, NEW c \in Client, SaveCards(c)
    PROVE  SpentInv'
<1>1. At(c, "saveCards") /\ UNCHANGED bank
  BY DEF SaveCards
<1>2. PICK s, r, mine, b : s = todo[c] /\ r = ask[c] /\ mine = copy[c] /\ b = bank
  OBVIOUS
<1>3. Covered(mine.cards, b)
  <2>1. s # <<>> /\ s[1] = "saveCards" /\ s \in Seq(Step)
    BY <1>1, <1>2, AtFirst
  <2>2. OpenUse(s, "saveCards", {})
    BY <2>1, OpenFirst
  <2> QED
    BY <1>2, <2>2 DEF SpentInv, Owes
<1>4. /\ Proceed(c, mine) \/ Fail(c)
      /\ cards' = mine.cards \/ cards' \in {cards, Broken}
  BY <1>2 DEF SaveCards
<1>5. FilesCovered'
  <2>1. CASE cards' = mine.cards
    BY <1>1, <1>2, <1>3, <2>1 DEF FilesCovered
  <2>2. CASE cards' \in {cards, Broken}
    BY <1>1, <2>2 DEF SpentInv, FilesCovered
  <2> QED
    BY <1>4, <2>1, <2>2
<1>6. /\ "saveCards" \notin CardMakers \cup BankMakers \cup CardMid \cup {"readCard"}
      /\ "saveCards" \notin Marks
  BY DEF CardMakers, BankMakers, CardMid, Marks
<1> QED
  BY <1>1, <1>4, <1>5, <1>6, OtherSteps

LEMMA RefreshedSpent ==
    ASSUME CardAssumption, NEW f \in CardFile,
           NEW st \in BankFile \cup {Broken}, NEW ms \in MirrorFile \cup {Broken}, NEW k \in Card
    PROVE  SpentOf(Refreshed(f, st, ms), k) = SpentOf(f, k)
<1>1. PICK g : g = Refreshed(f, st, ms)
  OBVIOUS
<1>2. CASE f[k] = NoCard
  <2>1. g[k] = NoCard
    BY <1>1, <1>2 DEF Refreshed
  <2> QED
    BY <1>1, <1>2, <2>1 DEF SpentOf
<1>3. CASE f[k] # NoCard
  <2>1. PICK rec \in CardData : rec = f[k]
    BY <1>3 DEF CardFile, CardData
  <2>2. PICK new : new = Synced(k, rec, st, ms)
    OBVIOUS
  <2>3. new \in CardData /\ new.spent = rec.spent
    BY <2>2, SyncedData
  <2>4. g[k] = new
    BY <1>1, <1>3, <2>1, <2>2 DEF Refreshed
  <2>5. new # NoCard
    BY <2>3 DEF CardData, CardAssumption
  <2> QED
    BY <1>1, <1>3, <2>1, <2>3, <2>4, <2>5 DEF SpentOf
<1> QED
  BY <1>2, <1>3

LEMMA DedupedSpent ==
    ASSUME NEW f \in CardFile, NEW g \in Deduped(f), NEW k \in Card
    PROVE  SpentOf(g, k) <= SpentOf(f, k)
<1>1. PICK keep : g = [j \in Card |-> IF j \in keep THEN f[j] ELSE NoCard]
  BY DEF Deduped
<1>2. g[k] = f[k] \/ g[k] = NoCard
  BY <1>1
<1>3. SpentOf(f, k) \in Nat
  BY SpentIsNat
<1> QED
  BY <1>2, <1>3 DEF SpentOf

LEMMA NewCardSpent ==
    ASSUME CardAssumption, NEW f \in CardFile, NEW g, NEW k, NEW n, f[k] = NoCard, g[k] = NewCard(n)
    PROVE  SpentOf(g, k) = SpentOf(f, k)
BY DEF SpentOf, NewCard

LEMMA WithCardsSpent ==
    ASSUME CardAssumption, NEW f \in CardFile, NEW st, NEW ms, NEW k \in Card
    PROVE  SpentOf(WithCards(f, st, ms), k) = SpentOf(f, k)
<1>1. PICK new : new = WithCards(f, st, ms)
  OBVIOUS
<1>2. CASE new[k] = f[k]
  BY <1>1, <1>2 DEF SpentOf
<1>3. CASE f[k] = NoCard /\ new[k] = NoCard
  BY <1>1, <1>3 DEF SpentOf
<1>4. CASE f[k] = NoCard /\ \E n : new[k] = NewCard(n)
  BY <1>1, <1>4, NewCardSpent
<1> QED
  BY <1>1, <1>2, <1>3, <1>4 DEF WithCards

\* Cards of the file made ready for a request: some dropped, all refreshed.
LEMMA DroppedAndRefreshed ==
    ASSUME CardAssumption, NEW was \in CardFile, NEW f, CardsSound(f), NEW g \in Deduped(f),
           \A k \in Card : SpentOf(f, k) <= SpentOf(was, k),
           NEW st \in BankFile \cup {Broken}, NEW ms \in MirrorFile \cup {Broken}
    PROVE  SpentLess(Refreshed(g, st, ms), was)
<1>1. f \in CardFile /\ CardsSound(g) /\ g \in CardFile
  BY DedupedSound DEF CardsSound
<1>2. PICK new : new = Refreshed(g, st, ms)
  OBVIOUS
<1>3. ASSUME NEW k \in Card
      PROVE  SpentOf(new, k) <= SpentOf(was, k)
  <2>1. SpentOf(new, k) = SpentOf(g, k) /\ SpentOf(g, k) <= SpentOf(f, k)
    BY <1>1, <1>2, RefreshedSpent, DedupedSpent
  <2>2. SpentOf(g, k) \in Nat /\ SpentOf(f, k) \in Nat /\ SpentOf(was, k) \in Nat
    BY <1>1, SpentIsNat
  <2> QED
    BY <2>1, <2>2
<1> QED
  BY <1>2, <1>3 DEF SpentLess

\* A step that makes cards to save, none of which has spent more than in the file.
LEMMA LessToSave ==
    ASSUME IsFiniteSet(Card), HybxInv, SpentInv, CanLoadCards, NEW f \in CardFile,
           NEW was, was = cards, SpentLess(f, was)
    PROVE  Covered(f, bank)
<1>1. PICK b : b = bank
  OBVIOUS
<1>2. was \in CardFile /\ b \in BankFile \cup {NoFile, Broken} /\ Covered(was, b)
  BY <1>1, CardsFile, BankIsFile DEF CanLoadCards, SpentInv, FilesCovered
<1> QED
  BY <1>1, <1>2, LessIsCovered

LEMMA RefreshPays ==
    ASSUME IsFiniteSet(Card), CardAssumption, OneAtATime, HybxInv, SpentInv, NEW c \in Client, Refresh(c)
    PROVE  SpentInv'
<1>1. At(c, "refresh") /\ UNCHANGED <<bank, cards>>
  BY DEF Refresh
<1>2. PICK st, ms, was : st = Loaded /\ ms = mirrors /\ was = cards
  OBVIOUS
<1>3. "refresh" \in CardMakers
  BY DEF CardMakers
<1>4. CASE Fail(c)
  <2>1. "refresh" \notin PaidMid /\ "refresh" \notin CardMid /\ "refresh" \notin Marks
    BY DEF PaidMid, CardMid, Marks
  <2> QED
    BY <1>1, <1>4, <2>1, BothStay, SpentFails
<1>5. CASE /\ CanLoad /\ CanLoadCards
           /\ \E f \in Deduped(was) : Proceed(c, [copy[c] EXCEPT !.cards = Refreshed(f, st, ms)])
  <2>1. PICK f \in Deduped(was) : Proceed(c, [copy[c] EXCEPT !.cards = Refreshed(f, st, ms)])
    BY <1>5
  <2>2. PICK new : new = Refreshed(f, st, ms)
    OBVIOUS
  <2>3. st \in BankFile /\ ms \in MirrorFile \cup {Broken} /\ CardsSound(was) /\ was \in CardFile
    BY <1>2, <1>5, InFiles DEF CardsSound
  <2>4. CardsSound(new) /\ new \in CardFile
    BY <2>2, <2>3, DedupedSound, RefreshedSound DEF CardsSound
  <2>5. SpentLess(new, was)
    <3>1. \A k \in Card : SpentOf(was, k) \in Nat
      BY <2>3, SpentIsNat
    <3>2. \A k \in Card : SpentOf(was, k) <= SpentOf(was, k)
      BY <3>1
    <3> QED
      BY <2>2, <2>3, <3>2, DroppedAndRefreshed
  <2>6. Covered(new, bank)
    BY <1>2, <1>5, <2>4, <2>5, LessToSave
  <2> QED
    BY <1>1, <1>3, <2>1, <2>2, <2>6, CardMakerSteps
<1> QED
  BY <1>2, <1>4, <1>5, Zenon DEF Refresh

LEMMA RefreshOnlyPays ==
    ASSUME IsFiniteSet(Card), CardAssumption, OneAtATime, HybxInv, SpentInv, NEW c \in Client,
           RefreshOnly(c)
    PROVE  SpentInv'
<1>1. At(c, "refreshOnly") /\ UNCHANGED <<bank, cards>>
  BY DEF RefreshOnly, Reads
<1>2. PICK st, ms, was : st = (IF CanLoad THEN Loaded ELSE Broken) /\ ms = mirrors /\ was = cards
  OBVIOUS
<1>3. PICK new : new = Refreshed(was, st, ms)
  OBVIOUS
<1>4. Fail(c) \/ (CanLoadCards /\ Proceed(c, [copy[c] EXCEPT !.cards = new]))
  BY <1>2, <1>3 DEF RefreshOnly, Reads
<1>5. CASE Fail(c)
  <2>1. "refreshOnly" \notin PaidMid /\ "refreshOnly" \notin CardMid /\ "refreshOnly" \notin Marks
    BY DEF PaidMid, CardMid, Marks
  <2> QED
    BY <1>1, <1>5, <2>1, BothStay, SpentFails
<1>6. CASE CanLoadCards /\ Proceed(c, [copy[c] EXCEPT !.cards = new])
  <2>1. /\ st \in BankFile \cup {Broken} /\ ms \in MirrorFile \cup {Broken}
        /\ CardsSound(was) /\ was \in CardFile
    BY <1>2, <1>6, InFiles DEF CardsSound
  <2>2. new \in CardFile
    BY <1>3, <2>1, RefreshedSound DEF CardsSound
  <2>3. SpentLess(new, was)
    <3>1. ASSUME NEW k \in Card
          PROVE  SpentOf(new, k) <= SpentOf(was, k)
      <4>1. SpentOf(new, k) = SpentOf(was, k) /\ SpentOf(was, k) \in Nat
        BY <1>3, <2>1, RefreshedSpent, SpentIsNat
      <4> QED
        BY <4>1
    <3> QED
      BY <3>1 DEF SpentLess
  <2>4. Covered(new, bank)
    BY <1>2, <1>6, <2>2, <2>3, LessToSave
  <2>5. "refreshOnly" \in CardMakers
    BY DEF CardMakers
  <2> QED
    BY <1>1, <1>6, <2>4, <2>5, CardMakerSteps
<1> QED
  BY <1>4, <1>5, <1>6

LEMMA IssueCardPays ==
    ASSUME IsFiniteSet(Card), CardAssumption, OneAtATime, HybxInv, SpentInv, NEW c \in Client,
           IssueCard(c)
    PROVE  SpentInv'
<1>1. At(c, "issue") /\ UNCHANGED <<bank, cards>>
  BY DEF IssueCard
<1>2. PICK r, st, was : r = ask[c] /\ st = Loaded /\ was = cards
  OBVIOUS
<1>3. r \in CardRequest
  BY <1>1, <1>2, AtFirst
<1>4. PICK k0 : k0 = [issuer |-> r.issuer, acct |-> r.acct,
                      brand |-> IF r.brand = NoBrand THEN BrandOf[r.acct] ELSE r.brand]
  OBVIOUS
<1>5. CASE Fail(c)
  <2>1. "issue" \notin PaidMid /\ "issue" \notin CardMid /\ "issue" \notin Marks
    BY DEF PaidMid, CardMid, Marks
  <2> QED
    BY <1>1, <1>5, <2>1, BothStay, SpentFails
<1>6. CASE /\ CardsSound(was) /\ CanLoadCards /\ was[k0] = NoCard
           /\ \E n \in Nat : Proceed(c, [copy[c] EXCEPT !.cards = [was EXCEPT ![k0] = NewCard(n)]])
  <2>1. PICK n \in Nat : Proceed(c, [copy[c] EXCEPT !.cards = [was EXCEPT ![k0] = NewCard(n)]])
    BY <1>6
  <2>2. PICK new : new = [was EXCEPT ![k0] = NewCard(n)]
    OBVIOUS
  <2>3. CardsSound(was) /\ was \in CardFile
    BY <1>6 DEF CardsSound
  <2>4. new \in CardFile
    BY <2>2, <2>3, NewCardData, CardsExcept DEF CardsSound
  <2>5. SpentLess(new, was)
    <3>1. ASSUME NEW k \in Card
          PROVE  SpentOf(new, k) <= SpentOf(was, k)
      <4>1. SpentOf(was, k) \in Nat
        BY <2>3, SpentIsNat
      <4>2. SpentOf(new, k) = SpentOf(was, k)
        <5>1. CASE k = k0
          <6>1. new[k] = NewCard(n) /\ was[k] = NoCard
            BY <1>6, <2>2, <2>3, <5>1 DEF CardFile
          <6> QED
            BY <2>3, <6>1, NewCardSpent
        <5>2. CASE k # k0
          <6>1. new[k] = was[k]
            BY <2>2, <2>3, <5>2 DEF CardFile
          <6> QED
            BY <6>1 DEF SpentOf
        <5> QED
          BY <5>1, <5>2
      <4> QED
        BY <4>1, <4>2
    <3> QED
      BY <3>1 DEF SpentLess
  <2>6. Covered(new, bank)
    BY <1>2, <1>6, <2>4, <2>5, LessToSave
  <2>7. "issue" \in CardMakers
    BY DEF CardMakers
  <2> QED
    BY <1>1, <2>1, <2>2, <2>6, <2>7, CardMakerSteps
<1> QED
  BY <1>2, <1>4, <1>5, <1>6, IssuedCard

LEMMA EnsureAllCardsPays ==
    ASSUME IsFiniteSet(Card), CardAssumption, OneAtATime, HybxInv, SpentInv, NEW c \in Client,
           EnsureAllCards(c)
    PROVE  SpentInv'
<1>1. At(c, "ensureCards") /\ UNCHANGED <<bank, cards>>
  BY DEF EnsureAllCards
<1>2. "ensureCards" \in CardMakers
  BY DEF CardMakers
<1>3. CASE ~(CanLoad /\ CanLoadCards)
  <2>1. Fail(c)
    BY <1>3 DEF EnsureAllCards
  <2>2. "ensureCards" \notin PaidMid /\ "ensureCards" \notin CardMid /\ "ensureCards" \notin Marks
    BY DEF PaidMid, CardMid, Marks
  <2> QED
    BY <1>1, <2>1, <2>2, BothStay, SpentFails
<1>4. CASE CanLoad /\ CanLoadCards
  <2>1. mirrors' \in MirrorFile \cup {Broken}
    BY <1>4, EnsuredFiles DEF EnsureAllCards
  <2>2. PICK st, ms, was : st = Loaded /\ was = cards /\ ms = IF mirrors' = Broken THEN NoMirrors ELSE mirrors'
    OBVIOUS
  <2>3. st \in BankFile /\ ms \in MirrorFile /\ CardsSound(was) /\ was \in CardFile
    BY <1>4, <2>1, <2>2, InFiles DEF NoMirrors, MirrorFile, CardsSound
  <2>4. PICK f \in Deduped(WithCards(was, st, ms)) :
           \/ Continue(c, Tail(Tail(todo[c])), [copy[c] EXCEPT !.cards = Refreshed(f, st, ms)])
           \/ Proceed(c, [copy[c] EXCEPT !.cards = Refreshed(f, st, ms)])
    BY <1>4, <2>2, Zenon DEF EnsureAllCards
  <2>5. PICK new : new = Refreshed(f, st, ms)
    OBVIOUS
  <2>6. CardsSound(WithCards(was, st, ms))
    BY <2>3, WithCardsSound
  <2>7. new \in CardFile
    <3>1. CardsSound(f)
      BY <2>6, DedupedSound
    <3> QED
      BY <2>3, <2>5, <3>1, RefreshedSound DEF CardsSound
  <2>8. SpentLess(new, was)
    <3>1. PICK more : more = WithCards(was, st, ms)
      OBVIOUS
    <3>2. \A k \in Card : SpentOf(more, k) = SpentOf(was, k) /\ SpentOf(was, k) \in Nat
      BY <2>3, <3>1, WithCardsSpent, SpentIsNat
    <3>3. \A k \in Card : SpentOf(more, k) <= SpentOf(was, k)
      BY <3>2
    <3>4. CardsSound(more) /\ f \in Deduped(more)
      BY <2>6, <3>1
    <3> QED
      BY <2>3, <2>5, <3>3, <3>4, DroppedAndRefreshed
  <2>9. Covered(new, bank)
    BY <1>4, <2>2, <2>7, <2>8, LessToSave
  <2>10. CASE Proceed(c, [copy[c] EXCEPT !.cards = new])
    BY <1>1, <1>2, <2>9, <2>10, CardMakerSteps
  <2>11. CASE Continue(c, Tail(Tail(todo[c])), [copy[c] EXCEPT !.cards = new])
    <3>1. PICK s, r, old, mine, bk, cd : /\ s = todo[c] /\ r = ask[c] /\ old = copy[c]
                                         /\ mine = [copy[c] EXCEPT !.cards = new]
                                         /\ bk = bank /\ cd = cards
      OBVIOUS
    <3>2. /\ Going(s, r, old) /\ s \in Seq(Step)
          /\ s # <<>> /\ s[1] = "ensureCards" /\ 1 \in 1..Len(s)
      BY <1>1, <3>1, AtFirst
    <3>3. mine.cards = new
      BY <3>1 DEF HybxInv, CopyFiles
    <3>4. Shape(s) /\ Owes(s, r, old, bk, cd)
      BY <3>1 DEF SpentInv
    <3>5. PICK t : t = Tail(s)
      OBVIOUS
    <3>6. Shape(t) /\ Owes(t, r, mine, bk, cd)
      <4>1. /\ "ensureCards" \notin BankMakers /\ "ensureCards" \notin CardMid
            /\ "ensureCards" \notin PaidMid
        BY DEF BankMakers, CardMid, PaidMid
      <4>2. Sees(s[1], s, r, old, mine, bk, bk, cd, cd)
        BY <2>9, <3>1, <3>2, <3>3, <4>1 DEF Sees
      <4> QED
        BY <3>2, <3>4, <3>5, <4>2, TailShape, TailOwes
    <3>7. t # <<>> /\ t[1] = "saveCards"
      <4>1. PICK L \in Nat : L = Len(s)
        BY <3>2
      <4>2. 1 < L /\ s[1 + 1] = "saveCards"
        BY <3>2, <4>1 DEF Going, SavesCards
      <4>3. 1 + 1 = 2
        OBVIOUS
      <4>4. 1 \in 1..Len(t) /\ t[1] = s[2]
        BY <3>2, <3>5, <4>1, <4>2
      <4>5. t # <<>>
        BY <4>4
      <4> QED
        BY <4>2, <4>3, <4>4, <4>5
    <3>8. PICK steps : steps = Tail(t)
      OBVIOUS
    <3>9. Shape(steps) /\ Owes(steps, r, mine, bk, cd)
      <4>1. /\ "saveCards" \notin CardMakers /\ "saveCards" \notin BankMakers
            /\ "saveCards" \notin CardMid /\ "saveCards" \notin PaidMid
        BY DEF CardMakers, BankMakers, CardMid, PaidMid
      <4>2. Sees(t[1], t, r, mine, mine, bk, bk, cd, cd)
        BY <3>7, <4>1 DEF Sees
      <4> QED
        BY <3>6, <3>7, <3>8, <4>2, TailShape, TailOwes
    <3>10. Continue(c, steps, mine) /\ Owes(steps, ask[c], mine, bank', cards')
      BY <1>1, <2>11, <3>1, <3>5, <3>8, <3>9
    <3> QED
      BY <1>1, <3>9, <3>10, BothStay, SpentContinues
  <2> QED
    BY <2>4, <2>5, <2>10, <2>11
<1> QED
  BY <1>3, <1>4

LEMMA ReadCardPays ==
    ASSUME CardAssumption, OneAtATime, HybxInv, SpentInv, NEW c \in Client, ReadCard(c)
    PROVE  SpentInv'
<1>1. At(c, "readCard") /\ UNCHANGED <<bank, cards>>
  BY DEF ReadCard, Reads
<1>2. PICK old, r, st, ms, was : /\ old = copy[c] /\ r = ask[c] /\ ms = mirrors /\ was = cards
                                 /\ st = IF CanLoad THEN Loaded ELSE Broken
  OBVIOUS
<1>3. PICK k, rec : k = CardOf(r) /\ rec = Synced(k, was[k], st, ms)
  OBVIOUS
<1>4. PICK new : new = [was EXCEPT ![k] = rec]
  OBVIOUS
<1>5. \/ Fail(c)
      \/ CanLoadCards /\ was[k] # NoCard /\ Proceed(c, [old EXCEPT !.cards = new])
  BY <1>2, <1>3, <1>4 DEF ReadCard, Reads
<1>6. CASE Fail(c)
  <2>1. "readCard" \notin PaidMid /\ "readCard" \notin CardMid /\ "readCard" \notin Marks
    BY DEF PaidMid, CardMid, Marks
  <2> QED
    BY <1>1, <1>6, <2>1, BothStay, SpentFails
<1>7. CASE CanLoadCards /\ was[k] # NoCard /\ Proceed(c, [old EXCEPT !.cards = new])
  <2>1. /\ CardsSound(was) /\ was \in CardFile /\ CopySound(old)
        /\ st \in BankFile \cup {Broken} /\ ms \in MirrorFile \cup {Broken}
    BY <1>1, <1>2, <1>7, AtFirst, InFiles DEF CardsSound
  <2>2. SpentLess(new, was)
    <3>1. ASSUME NEW j \in Card
          PROVE  SpentOf(new, j) <= SpentOf(was, j)
      <4>1. CASE j # k
        <5>1. new[j] = was[j] /\ SpentOf(was, j) \in Nat
          BY <1>4, <2>1, <4>1, SpentIsNat DEF CardFile
        <5> QED
          BY <5>1 DEF SpentOf
      <4>2. CASE j = k
        <5>1. PICK rec0 \in CardData : rec0 = was[k]
          BY <1>7, <2>1, <4>2 DEF CardFile, CardData
        <5>2. rec \in CardData /\ rec.spent = rec0.spent
          BY <1>3, <2>1, <4>2, <5>1, SyncedData
        <5>3. new[k] = rec /\ rec # NoCard
          BY <1>4, <2>1, <4>2, <5>2 DEF CardFile, CardData, CardAssumption
        <5>4. SpentOf(new, j) = rec.spent /\ SpentOf(was, j) = rec.spent
          BY <1>7, <4>2, <5>1, <5>2, <5>3 DEF SpentOf
        <5> QED
          BY <5>2, <5>4 DEF CardData
      <4> QED
        BY <4>1, <4>2
    <3> QED
      BY <3>1 DEF SpentLess
  <2>3. PICK mine : mine = [old EXCEPT !.cards = new]
    OBVIOUS
  <2>4. mine.cards = new
    BY <2>1, <2>3 DEF CopySound, CopyFiles
  <2>5. /\ "readCard" \notin CardMakers /\ "readCard" \notin BankMakers
        /\ "readCard" \notin CardMid /\ "readCard" \notin PaidMid
    BY DEF CardMakers, BankMakers, CardMid, PaidMid
  <2>6. Sees("readCard", todo[c], ask[c], copy[c], mine, bank, bank', cards, cards')
    BY <1>1, <1>2, <1>7, <2>2, <2>4, <2>5 DEF Sees, CanLoadCards
  <2> QED
    BY <1>1, <1>7, <2>3, <2>6, BothStay, SpentProceeds
<1> QED
  BY <1>5, <1>6, <1>7

LEMMA ChargeCardPays ==
    ASSUME IsFiniteSet(Card), CardAssumption, OneAtATime, HybxInv, SpentInv, NEW c \in Client,
           ChargeCard(c)
    PROVE  SpentInv'
<1>1. At(c, "chargeCard") /\ UNCHANGED <<bank, cards>>
  BY DEF ChargeCard, Reads
<1>2. PICK old, r, st, ms, s, b : /\ old = copy[c] /\ r = ask[c] /\ ms = mirrors /\ s = todo[c]
                                  /\ b = bank /\ st = IF CanLoad THEN Loaded ELSE Broken
  OBVIOUS
<1>3. /\ Going(s, r, old) /\ CopySound(old) /\ r \in CardRequest
      /\ s \in Seq(Step) /\ s # <<>> /\ s[1] = "chargeCard" /\ 1 \in 1..Len(s)
      /\ st \in BankFile \cup {Broken} /\ ms \in MirrorFile \cup {Broken}
      /\ b \in BankFile \cup {NoFile, Broken}
  BY <1>1, <1>2, AtFirst, InFiles, BankIsFile
<1>4. CardReady(r, old)
  BY <1>3, NoneBeforeFirst DEF Going
<1>5. PICK f, k : f = old.cards /\ k = CardOf(r)
  OBVIOUS
<1>6. PICK rec : rec = [f[k] EXCEPT !.spent = @ + r.amount]
  OBVIOUS
<1>7. PICK new : new = [f EXCEPT ![k] = Synced(k, rec, st, ms)]
  OBVIOUS
<1>8. /\ CardsSound(f) /\ f \in CardFile
      /\ k \in Card => f[k] # NoCard /\ f[k].spent + r.amount <= f[k].limit
  BY <1>3, <1>4, <1>5 DEF CardReady, CopySound, CardsSound
<1>9. new \in CardFile
  BY <1>3, <1>6, <1>7, <1>8, ChargedCards DEF CardsSound
<1>10. Proceed(c, [copy[c] EXCEPT !.cards = new])
  BY <1>2, <1>5, <1>6, <1>7 DEF ChargeCard, Reads
<1>11. Ahead(f, r, b)
  <2>1. OpenUse(s, "chargeCard", PaidMid)
    BY <1>3, OpenFirst
  <2> QED
    BY <1>2, <1>5, <2>1 DEF SpentInv, Owes
<1>12. \A j \in Card : j # k => SpentOf(new, j) = SpentOf(f, j)
  BY <1>7, <1>8 DEF CardFile, SpentOf
<1>13. ASSUME k \in Card
       PROVE  SpentOf(new, k) = SpentOf(f, k) + r.amount
  <2>1. PICK rec0 \in CardData : rec0 = f[k]
    BY <1>8, <1>13 DEF CardFile, CardData
  <2>2. rec \in CardData /\ rec.spent = rec0.spent + r.amount
    <3>1. rec0.spent + r.amount \in Nat
      BY <1>3, RequestAmount DEF CardData
    <3>2. rec = [rec0 EXCEPT !.spent = rec0.spent + r.amount]
      BY <1>6, <2>1
    <3> QED
      BY <3>1, <3>2 DEF CardData
  <2>3. PICK rec1 : rec1 = Synced(k, rec, st, ms)
    OBVIOUS
  <2>4. rec1 \in CardData /\ rec1.spent = rec.spent
    BY <1>3, <1>13, <2>2, <2>3, SyncedData
  <2>5. new[k] = rec1 /\ rec1 # NoCard
    BY <1>7, <1>8, <1>13, <2>3, <2>4 DEF CardFile, CardData, CardAssumption
  <2> QED
    BY <1>8, <1>13, <2>1, <2>2, <2>4, <2>5 DEF SpentOf
<1>14. Covered(new, b)
  BY <1>3, <1>5, <1>8, <1>9, <1>11, <1>12, <1>13, ChargeIsCovered
<1>15. "chargeCard" \in CardMakers
  BY DEF CardMakers
<1> QED
  BY <1>1, <1>2, <1>10, <1>14, <1>15, CardMakerSteps

-----------------------------------------------------------------------------
(* The invariant holds *)

LEMMA BeginPays ==
    ASSUME CardAssumption, OneAtATime, HybxInv, SpentInv, NEW c \in Client, Begin(c)
    PROVE  SpentInv'
<1>1. PICK r \in CardRequests :
         /\ ask' = [ask EXCEPT ![c] = r] /\ todo' = [todo EXCEPT ![c] = Program(r.op)]
  BY DEF Begin
<1>2. UNCHANGED <<bank, cards, copy>>
  BY DEF Begin
<1>3. r \in CardRequest
  BY DEF CardAssumption
<1>4. PICK s, mine : s = Program(r.op) /\ mine = copy[c]
  OBVIOUS
<1>5. Shape(s) /\ Owes(s, r, mine, bank', cards')
  BY <1>3, <1>4, WholePrograms, WholeShape, WholeOwes
<1>6. copy' = [copy EXCEPT ![c] = mine]
  BY <1>2, <1>4 DEF HybxInv
<1>7. FilesCovered'
  BY <1>2, BothStay
<1> QED
  BY <1>1, <1>4, <1>5, <1>6, <1>7, SpentBecame

LEMMA CardStopPays ==
    ASSUME SpentInv, CardStop
    PROVE  SpentInv'
<1>1. FilesCovered'
  BY BothStay DEF CardStop, bankVars
<1>2. \A c \in Client : todo'[c] = <<>>
  BY DEF CardStop
<1>3. \A c \in Client : Shape(todo'[c]) /\ Owes(todo'[c], ask'[c], copy'[c], bank', cards')
  BY <1>2, NothingOwed
<1> QED
  BY <1>1, <1>3 DEF SpentInv

LEMMA InitPays ==
    ASSUME IsFiniteSet(Card), HybxInit
    PROVE  SpentInv
<1>1. bank = NoFile /\ cards = NoCards /\ todo = [c \in Client |-> <<>>]
  BY DEF HybxInit, BankInit
<1>2. ASSUME NEW a \in Account
      PROVE  SpentBy(NoCards, a) = 0
  <2>1. PICK f : f = [k \in Card |-> SpentOf(NoCards, k)]
    OBVIOUS
  <2>2. IsFiniteSet(CardsOf(a)) /\ \A k \in CardsOf(a) : f[k] = 0
    BY <2>1, CardsOfFinite DEF CardsOf, SpentOf, NoCards
  <2> QED
    BY <2>1, <2>2, SumZero DEF SpentBy
<1>3. FilesCovered
  BY <1>1, <1>2 DEF FilesCovered, Covered, OutOf
<1>4. \A c \in Client : todo[c] = <<>>
  BY <1>1
<1>5. \A c \in Client : Shape(todo[c]) /\ Owes(todo[c], ask[c], copy[c], bank, cards)
  BY <1>4, NothingOwed
<1> QED
  BY <1>3, <1>5 DEF SpentInv

LEMMA CardStepPays ==
    ASSUME IsFiniteSet(Card), CardAssumption, OneAtATime, HybxInv, SpentInv, NEW c \in Client,
           CardStep(c)
    PROVE  SpentInv'
<1>1. CASE \/ MirrorSync(c) \/ SaveMirrors(c) \/ ReadMirror(c) \/ MoveMirror(c) \/ DebitMirror(c)
           \/ TellCore(c) \/ Federate(c)
  BY <1>1, QuietPays, MirrorPays
<1>2. CASE ConvertBank(c) \/ Debit(c) \/ MoveToCore(c) \/ CoreSync(c) \/ SendOut(c)
  BY <1>2, BankReadsPay, SendOutPays
<1>3. CASE SeedBank(c) \/ SaveBank(c)
  BY <1>3, SeedBankPays, SaveBankPays
<1>4. CASE EnsureAllCards(c) \/ Refresh(c) \/ RefreshOnly(c) \/ IssueCard(c)
  BY <1>4, EnsureAllCardsPays, RefreshPays, RefreshOnlyPays, IssueCardPays
<1>5. CASE ReadCard(c) \/ ChargeCard(c) \/ SaveCards(c)
  BY <1>5, ReadCardPays, ChargeCardPays, SaveCardsPays
<1> QED
  BY <1>1, <1>2, <1>3, <1>4, <1>5 DEF CardStep

LEMMA SpentInvariant ==
    ASSUME IsFiniteSet(Card), CardAssumption, OneAtATime
    PROVE  HybxSpec => []SpentInv
<1>1. HybxInit => SpentInv
  BY InitPays
<1>2. ASSUME HybxInv, SpentInv, [HybxNext]_hybxVars
      PROVE  SpentInv'
  <2>1. ASSUME NEW c \in Client, Begin(c) \/ CardStep(c)
        PROVE  SpentInv'
    BY <1>2, <2>1, BeginPays, CardStepPays
  <2>2. ASSUME UNCHANGED hybxVars
        PROVE  SpentInv'
    <3>1. UNCHANGED <<bank, cards, todo, ask, copy>>
      BY <2>2 DEF hybxVars, bankVars, cardVars
    <3> QED
      BY <1>2, <3>1 DEF SpentInv, FilesCovered
  <2> QED
    BY <1>2, <2>1, <2>2, CardStopPays DEF HybxNext
<1>3. HybxSpec => []HybxInv
  BY HybxInvariant
<1> QED
  BY <1>1, <1>2, <1>3, PTL DEF HybxSpec

\* What the cards of an account show, as SpentIsDebited says it.
LEMMA SpentOfCards ==
    ASSUME IsFiniteSet(Card), NEW f \in CardFile, NEW a, NEW of,
           of = {k \in Card : k.acct = a /\ f[k] # NoCard}
    PROVE  SumFunction([k \in of |-> f[k].spent]) = SpentBy(f, a)
<1>1. PICK g, h : g = [k \in of |-> f[k].spent] /\ h = [k \in Card |-> SpentOf(f, k)]
  OBVIOUS
<1>2. IsFiniteSet(CardsOf(a)) /\ of \subseteq CardsOf(a) /\ IsFiniteSet(of)
  <2>1. IsFiniteSet(CardsOf(a)) /\ of \subseteq CardsOf(a)
    BY CardsOfFinite DEF CardsOf
  <2> QED
    BY <2>1, FS_Subset
<1>3. \A k \in CardsOf(a) : h[k] \in Int /\ (k \notin of => h[k] = 0)
  <2>1. \A k \in Card : h[k] \in Int
    BY <1>1, SpentIsNat
  <2>2. \A k \in CardsOf(a) : k \notin of => h[k] = 0
    BY <1>1 DEF CardsOf, SpentOf
  <2> QED
    BY <2>1, <2>2 DEF CardsOf
<1>4. \A k \in of : h[k] \in Int /\ g[k] = h[k]
  BY <1>1, <1>2, <1>3 DEF SpentOf
<1>5. SumFunction(g) = SumFunctionOnSet(g, of)
  BY <1>1, SumOfFunction
<1>6. SumFunctionOnSet(g, of) = SumFunctionOnSet(h, of)
  BY <1>2, <1>4, SumAgree
<1>7. SumFunctionOnSet(h, of) = SumFunctionOnSet(h, CardsOf(a))
  BY <1>2, <1>3, SumWithin
<1> QED
  BY <1>1, <1>5, <1>6, <1>7 DEF SpentBy

\* When requests do not overlap, no account has paid less than its cards show
\* (bridge/virtual_cards.go, card_wire.go, swift_release.go), whatever fails and
\* wherever the process stops: a card is charged in a copy of which the bank has
\* saved the payment, and a file of cards is written only by a request that made
\* it from the file, with no more spent but for that.
THEOREM PurchasesArePaid ==
    ASSUME CardAssumption, OneAtATime, IsFiniteSet(Card)
    PROVE  HybxSpec => []SpentIsDebited
<1>1. ASSUME HybxInv, SpentInv
      PROVE  SpentIsDebited
  <2>1. PICK f, b : f = cards /\ b = bank
    OBVIOUS
  <2>2. SUFFICES ASSUME b \notin {NoFile, Broken}, f # Broken, NEW a \in Account, b[a] # NoAccount,
                        NEW of, of = {k \in Card : k.acct = a /\ f[k] # NoCard}
                 PROVE  SumFunction([k \in of |-> f[k].spent]) <= b[a].out
    BY <2>1 DEF SpentIsDebited
  <2>3. f \in CardFile
    BY <1>1, <2>1, <2>2, CardsFile
  <2>4. SpentBy(f, a) <= OutOf(b, a)
    BY <1>1, <2>1, <2>2 DEF SpentInv, FilesCovered, Covered
  <2>5. SumFunction([k \in of |-> f[k].spent]) = SpentBy(f, a)
    BY <2>2, <2>3, SpentOfCards
  <2> QED
    BY <2>2, <2>4, <2>5 DEF OutOf
<1> QED
  BY <1>1, HybxInvariant, SpentInvariant, PTL

-----------------------------------------------------------------------------
(* The bank's file has accounts, once there is one                          *)

\* A save of the bank that is not the first step left follows what made its copy.
SavesMade(s) == \A j \in 1..Len(s) : s[j] = "saveBank" /\ j > 1 => s[j - 1] \in BankMakers

\* The request's next step saves the bank.
SavesNext(s) == s # <<>> /\ s[1] = "saveBank"

Peopled(st) == ~NoAccounts(st)

AccountsInv ==
    /\ bank \notin {NoFile, Broken} => Peopled(bank) \/ NoAccounts(Seeded)
    /\ \A c \in Client : SavesMade(todo[c]) /\ (SavesNext(todo[c]) => Peopled(copy[c].bank))

LEMMA NothingMade == SavesMade(<<>>) /\ ~SavesNext(<<>>) /\ PastMarks(<<>>) = <<>>
<1>1. \A j \in 1..Len(<<>>) : FALSE
  OBVIOUS
<1>2. DOMAIN <<>> = {}
  OBVIOUS
<1>3. {i \in DOMAIN <<>> : <<>>[i] \notin Marks} = {}
  BY <1>2
<1> QED
  BY <1>1, <1>3 DEF SavesMade, SavesNext, PastMarks

LEMMA WholeMade ==
    ASSUME NEW s, NEW r, Whole(s, r)
    PROVE  SavesMade(s) /\ ~SavesNext(s)
<1>1. s \in Seq(Step) /\ Len(s) \in Nat
  BY DEF Whole
<1>2. ASSUME NEW j \in 1..Len(s), s[j] = "saveBank"
      PROVE  j > 1 /\ s[j - 1] \in BankMakers
  <2>1. PICK i \in 1..(j - 1) : s[i] \in BankMakers /\ Span(s, i, j, {})
    BY <1>2 DEF Whole, Led, LedAt
  <2>2. \A k \in (i + 1)..(j - 1) : FALSE
    BY <2>1 DEF Span
  <2>3. i = j - 1
    <3>1. i \in Nat /\ j \in Nat /\ i <= j - 1
      BY <1>1, <2>1
    <3>2. ~(i + 1 <= j - 1)
      <4>1. ASSUME i + 1 <= j - 1 PROVE FALSE
        <5>1. j - 1 \in (i + 1)..(j - 1)
          BY <3>1, <4>1
        <5> QED
          BY <2>2, <5>1
      <4> QED
        BY <4>1
    <3> QED
      BY <3>1, <3>2
  <2> QED
    BY <2>1, <2>3
<1>3. SavesMade(s)
  BY <1>2 DEF SavesMade
<1>4. ASSUME SavesNext(s) PROVE FALSE
  <2>1. 1 \in 1..Len(s) /\ s[1] = "saveBank"
    BY <1>1, <1>4 DEF SavesNext
  <2>2. 1 > 1
    BY <1>2, <2>1
  <2> QED
    BY <2>2
<1> QED
  BY <1>3, <1>4

\* What is left from a step on, past the marks: a save comes next only if the
\* rest began with it.
LEMMA RestMade ==
    ASSUME NEW s \in Seq(Step), SavesMade(s), NEW p \in 1..Len(s), NEW t, t = SubSeq(s, p, Len(s))
    PROVE  SavesMade(PastMarks(t)) /\ (SavesNext(PastMarks(t)) => s[p] = "saveBank")
<1>1. /\ t \in Seq(Step) /\ Len(t) = Len(s) - p + 1 /\ Len(s) \in Nat /\ p \in Nat /\ DOMAIN t = 1..Len(t)
      /\ \A k \in 1..Len(t) : k + p - 1 \in p..Len(s) /\ t[k] = s[k + p - 1]
  BY RestOf
<1> DEFINE real == {i \in DOMAIN t : t[i] \notin Marks}
<1>2. CASE real = {}
  BY <1>2, NothingMade DEF PastMarks
<1>3. CASE real # {}
  <2>1. PICK m : m = Min(real)
    OBVIOUS
  <2>2. m \in real /\ \A i \in real : m <= i
    <3>1. real \subseteq Nat
      BY <1>1
    <3> HIDE DEF real
    <3> QED
      BY <1>3, <2>1, <3>1, MinIs
  <2>3. m \in 1..Len(t) /\ \A i \in 1..(m - 1) : t[i] \in Marks
    <3>1. DOMAIN t = 1..Len(t) /\ Len(t) \in Nat
      BY <1>1
    <3>2. m \in 1..Len(t)
      BY <2>2, <3>1
    <3>3. \A i \in 1..(m - 1) : i \in 1..Len(t) /\ ~(m <= i)
      BY <3>1, <3>2
    <3> QED
      BY <2>2, <3>1, <3>2, <3>3
  <2>4. PICK u : u = SubSeq(t, m, Len(t))
    OBVIOUS
  <2>5. PastMarks(t) = u
    <3>1. PastMarks(t) = SubSeq(t, Min(real), Len(t))
      BY <1>3 DEF PastMarks
    <3> QED
      BY <2>1, <2>4, <3>1
  <2>6. /\ u \in Seq(Step) /\ Len(u) = Len(t) - m + 1 /\ Len(t) \in Nat /\ m \in Nat
        /\ \A k \in 1..Len(u) : k + m - 1 \in m..Len(t) /\ u[k] = t[k + m - 1]
    BY <1>1, <2>3, <2>4, RestOf
  <2>7. ASSUME NEW k \in 1..Len(u)
        PROVE  k + m + p - 2 \in 1..Len(s) /\ u[k] = s[k + m + p - 2]
    <3>1. k + m - 1 \in 1..Len(t) /\ u[k] = t[k + m - 1]
      BY <2>3, <2>6
    <3>2. PICK l \in 1..Len(t) : l = k + m - 1
      BY <3>1
    <3>3. l + p - 1 \in p..Len(s) /\ t[l] = s[l + p - 1]
      BY <1>1
    <3>4. l + p - 1 = k + m + p - 2
      BY <1>1, <2>6, <3>2
    <3> QED
      BY <1>1, <3>1, <3>2, <3>3, <3>4
  <2>8. SavesMade(u)
    <3>1. SUFFICES ASSUME NEW j \in 1..Len(u), u[j] = "saveBank", j > 1
                   PROVE  u[j - 1] \in BankMakers
      BY DEF SavesMade
    <3>2. PICK i \in 1..Len(u) : i = j - 1
      BY <2>6, <3>1
    <3>3. PICK q \in 1..Len(s) : q = j + m + p - 2 /\ s[q] = "saveBank"
      BY <2>7, <3>1
    <3>4. q > 1 /\ q - 1 = i + m + p - 2
      BY <1>1, <2>3, <2>6, <3>1, <3>2, <3>3
    <3>5. s[q - 1] \in BankMakers
      BY <3>3, <3>4 DEF SavesMade
    <3>6. u[i] = s[q - 1]
      BY <2>7, <3>4
    <3> QED
      BY <3>2, <3>5, <3>6
  <2>9. ASSUME SavesNext(u) PROVE s[p] = "saveBank"
    <3>1. 1 \in 1..Len(u) /\ u[1] = "saveBank"
      BY <2>6, <2>9 DEF SavesNext
    <3>2. PICK q \in 1..Len(s) : q = m + p - 1 /\ s[q] = "saveBank"
      <4>1. 1 + m + p - 2 \in 1..Len(s) /\ u[1] = s[1 + m + p - 2]
        BY <2>7, <3>1
      <4>2. 1 + m + p - 2 = m + p - 1
        BY <1>1, <2>6
      <4> QED
        BY <3>1, <4>1, <4>2
    <3>3. CASE m = 1
      BY <1>1, <3>2, <3>3
    <3>4. CASE m > 1
      <4>1. m - 1 \in 1..(m - 1) /\ m - 1 \in 1..Len(t)
        BY <1>1, <2>3, <3>4
      <4>2. PICK l \in 1..Len(t) : l = m - 1 /\ t[l] \in Marks
        BY <2>3, <4>1
      <4>3. t[l] = s[l + p - 1] /\ l + p - 1 = q - 1 /\ q > 1
        BY <1>1, <2>3, <3>2, <3>4, <4>2
      <4>4. s[q - 1] \in BankMakers
        BY <3>2, <4>3 DEF SavesMade
      <4> QED
        BY <4>2, <4>3, <4>4 DEF BankMakers, Marks
    <3> QED
      BY <2>3, <2>6, <3>3, <3>4
  <2> QED
    BY <2>5, <2>8, <2>9
<1> QED
  BY <1>2, <1>3

\* The rest after the first step.
LEMMA TailMade ==
    ASSUME NEW s \in Seq(Step), s # <<>>, SavesMade(s)
    PROVE  /\ SavesMade(PastMarks(Tail(s)))
           /\ SavesNext(PastMarks(Tail(s))) => s[1] \in BankMakers
<1>1. PICK t : t = Tail(s)
  OBVIOUS
<1>2. Len(s) \in Nat /\ Len(s) >= 1 /\ t \in Seq(Step) /\ Len(t) = Len(s) - 1
  BY <1>1
<1>3. CASE Len(s) = 1
  <2>1. t = <<>>
    <3>1. Len(t) = 0
      BY <1>2, <1>3
    <3> QED
      BY <1>2, <3>1
  <2> QED
    BY <1>1, <2>1, NothingMade
<1>4. CASE Len(s) # 1
  <2>1. PICK p \in 1..Len(s) : p = 2
    <3>1. 2 \in 1..Len(s)
      BY <1>2, <1>4
    <3> QED
      BY <3>1
  <2>2. t = SubSeq(s, p, Len(s))
    BY <1>1, <1>2, <2>1
  <2>3. SavesMade(PastMarks(t)) /\ (SavesNext(PastMarks(t)) => s[p] = "saveBank")
    BY <2>2, RestMade
  <2>4. s[p] = "saveBank" => s[p - 1] \in BankMakers /\ p - 1 = 1
    BY <2>1 DEF SavesMade
  <2> QED
    BY <1>1, <2>3, <2>4
<1> QED
  BY <1>3, <1>4

\* The steps that a request goes on with after an error.
LEMMA FailMade ==
    ASSUME NEW s \in Seq(Step), SavesMade(s), NEW marks, marks = {i \in DOMAIN s : s[i] \in Marks},
           NEW steps, steps = IF marks # {} /\ s[Min(marks)] = "end"
                              THEN SubSeq(s, Min(marks), Len(s)) ELSE <<>>
    PROVE  SavesMade(PastMarks(steps)) /\ ~SavesNext(PastMarks(steps))
<1>1. CASE marks # {} /\ s[Min(marks)] = "end"
  <2>1. PICK p : p = Min(marks)
    OBVIOUS
  <2>2. p \in marks
    <3>1. marks \subseteq Nat
      OBVIOUS
    <3> QED
      BY <1>1, <2>1, <3>1, MinIs
  <2>3. steps = SubSeq(s, p, Len(s)) /\ s[p] = "end"
    BY <1>1, <2>1
  <2>4. p \in 1..Len(s)
    BY <2>2
  <2> QED
    BY <2>3, <2>4, RestMade
<1>2. CASE ~(marks # {} /\ s[Min(marks)] = "end")
  BY <1>2, NothingMade
<1> QED
  BY <1>1, <1>2

BankPeopled == bank \notin {NoFile, Broken} => Peopled(bank) \/ NoAccounts(Seeded)

LEMMA MadeOn ==
    ASSUME HybxInv, AccountsInv, NEW c \in Client, NEW steps, NEW mine, Continue(c, steps, mine),
           SavesMade(PastMarks(steps)), SavesNext(PastMarks(steps)) => Peopled(mine.bank), BankPeopled'
    PROVE  AccountsInv'
<1>1. PICK rest : rest = PastMarks(steps)
  OBVIOUS
<1>2. /\ todo' = [todo EXCEPT ![c] = rest]
      /\ copy' = [copy EXCEPT ![c] = IF rest = <<>> THEN Blank ELSE mine]
  BY <1>1 DEF Continue
<1>3. ASSUME NEW d \in Client
      PROVE  SavesMade(todo'[d]) /\ (SavesNext(todo'[d]) => Peopled(copy'[d].bank))
  <2>1. CASE d = c
    <3>1. todo'[d] = rest /\ (rest # <<>> => copy'[d] = mine)
      BY <1>2, <2>1 DEF HybxInv
    <3> QED
      BY <1>1, <3>1 DEF SavesNext
  <2>2. CASE d # c
    <3>1. todo'[d] = todo[d] /\ copy'[d] = copy[d]
      BY <1>2, <2>2 DEF HybxInv
    <3> QED
      BY <3>1 DEF AccountsInv
  <2> QED
    BY <2>1, <2>2
<1> QED
  BY <1>3 DEF AccountsInv, BankPeopled, Peopled, NoAccounts

\* A step that makes no copy to save, or one with accounts, or fails.
LEMMA PeopleStep ==
    ASSUME HybxInv, AccountsInv, NEW c \in Client, NEW step, At(c, step), NEW mine,
           (Proceed(c, mine) /\ (step \in BankMakers => Peopled(mine.bank))) \/ Fail(c), BankPeopled'
    PROVE  AccountsInv'
<1>1. PICK s : s = todo[c]
  OBVIOUS
<1>2. s \in Seq(Step) /\ s # <<>> /\ s[1] = step /\ SavesMade(s)
  <2>1. s \in Seq(Step) /\ s # <<>> /\ s[1] = step
    BY <1>1, AtFirst
  <2> QED
    BY <1>1, <2>1 DEF AccountsInv
<1>3. CASE Proceed(c, mine) /\ (step \in BankMakers => Peopled(mine.bank))
  <2>1. PICK t : t = Tail(s)
    OBVIOUS
  <2>2. Continue(c, t, mine)
    BY <1>1, <1>3, <2>1 DEF Proceed
  <2>3. SavesMade(PastMarks(t)) /\ (SavesNext(PastMarks(t)) => step \in BankMakers)
    BY <1>2, <2>1, TailMade
  <2> QED
    BY <1>3, <2>2, <2>3, MadeOn
<1>4. CASE Fail(c)
  <2>1. PICK marks : marks = {i \in DOMAIN s : s[i] \in Marks}
    OBVIOUS
  <2>2. PICK steps : steps = IF marks # {} /\ s[Min(marks)] = "end"
                             THEN SubSeq(s, Min(marks), Len(s)) ELSE <<>>
    OBVIOUS
  <2>3. PICK old : old = copy[c]
    OBVIOUS
  <2>4. Continue(c, steps, old)
    BY <1>1, <1>4, <2>1, <2>2, <2>3 DEF Fail
  <2>5. SavesMade(PastMarks(steps)) /\ ~SavesNext(PastMarks(steps))
    BY <1>2, <2>1, <2>2, FailMade
  <2> QED
    BY <2>4, <2>5, MadeOn
<1> QED
  BY <1>3, <1>4

LEMMA BankStaysPeopled == ASSUME AccountsInv, UNCHANGED bank PROVE BankPeopled'
BY DEF AccountsInv, BankPeopled, Peopled, NoAccounts

LEMMA DebitedPeopled ==
    ASSUME NEW st \in BankFile, NEW a, NEW n \in Nat, CanDebit(st, a, n)
    PROVE  Peopled(Debited(st, a, n))
<1>1. Debited(st, a, n)[a] \in BankAccount /\ a \in Account
  BY DebitedFile DEF CanDebit, Exists
<1> QED
  BY <1>1, BankAssumption DEF Peopled, NoAccounts

LEMMA CreditedPeopled ==
    ASSUME NEW st \in BankFile, NEW a, NEW n \in Nat, Exists(st, a)
    PROVE  /\ Credited(st, a, n) \in BankFile /\ Credited(st, a, n)[a] \in BankAccount
           /\ Credited(st, a, n)[a].bal = st[a].bal + n /\ Peopled(Credited(st, a, n))
<1>1. a \in Account /\ st[a] \in BankAccount
  BY DEF Exists, BankFile
<1>2. PICK new : new = Credited(st, a, n)
  OBVIOUS
<1>3. new \in BankFile
  BY <1>2, CreditedFile
<1>4. DOMAIN new = Account /\ new[a] = [st[a] EXCEPT !.bal = @ + n, !.in = @ + n]
  BY <1>1, <1>2 DEF Credited, BankFile
<1>5. st[a].bal + n \in Nat /\ st[a].in + n \in Nat
  BY <1>1 DEF BankAccount
<1>6. new[a] \in BankAccount /\ new[a].bal = st[a].bal + n
  BY <1>1, <1>4, <1>5 DEF BankAccount
<1>7. Peopled(new)
  BY <1>1, <1>6, BankAssumption DEF Peopled, NoAccounts
<1> QED
  BY <1>2, <1>3, <1>6, <1>7

LEMMA CoreSyncedAccount ==
    ASSUME NEW st \in BankFile, NEW balances \in [CoreAccounts -> Nat], NEW a \in CoreAccounts, a \in Account
    PROVE  CoreSynced(st, balances)[a] \in BankAccount
<1>1. PICK was : was = (IF st[a] = NoAccount THEN WithSystemAccount(st, a, CoreCurrency) ELSE st)[a]
  OBVIOUS
<1>2. was \in BankAccount
  <2>1. CASE st[a] = NoAccount
    <3>1. was = [currency |-> CoreCurrency, opening |-> 0, bal |-> 0,
                 in |-> 0, out |-> 0, settled |-> 0]
      BY <1>1, <2>1 DEF WithSystemAccount, BankFile
    <3> QED
      BY <3>1, BankAssumption DEF BankAccount
  <2>2. CASE st[a] # NoAccount
    BY <1>1, <2>2 DEF BankFile
  <2> QED
    BY <2>1, <2>2
<1>3. CoreSynced(st, balances)[a] = [was EXCEPT !.bal = balances[a]]
  BY <1>1 DEF CoreSynced
<1>4. balances[a] \in Nat
  OBVIOUS
<1> QED
  BY <1>2, <1>3, <1>4 DEF BankAccount

LEMMA SentPeopled ==
    ASSUME NEW st \in BankFile, NEW a \in Account, st[a] \in BankAccount, NEW n \in Nat
    PROVE  Peopled([st EXCEPT ![a].settled = @ + n])
<1>1. PICK acct : acct = [st[a] EXCEPT !.settled = @ + n]
  OBVIOUS
<1>2. acct \in BankAccount
  <2>1. st[a].settled + n \in Nat
    BY DEF BankAccount
  <2> QED
    BY <1>1, <2>1 DEF BankAccount
<1>3. [st EXCEPT ![a].settled = @ + n][a] = acct
  BY <1>1 DEF BankFile
<1>4. acct # NoAccount
  BY <1>2, BankAssumption
<1> QED
  BY <1>3, <1>4 DEF Peopled, NoAccounts

LEMMA BankMakersPeople ==
    ASSUME CardAssumption, HybxInv, AccountsInv, NEW c \in Client,
           ConvertBank(c) \/ Debit(c) \/ MoveToCore(c) \/ CoreSync(c) \/ SendOut(c)
    PROVE  AccountsInv'
<1>1. PICK r, st0, old : r = ask[c] /\ st0 = Loaded /\ old = copy[c]
  OBVIOUS
<1>2. CanLoad => st0 \in BankFile
  BY <1>1, InFiles
<1>3. \E step : At(c, step) /\ UNCHANGED bank
  BY DEF ConvertBank, Debit, MoveToCore, CoreSync, SendOut, Reads
<1>4. old \in CopyFiles /\ r.amount \in Nat /\ BankPeopled'
  <2>1. CopySound(old) /\ r \in CardRequest
    BY <1>1, <1>3, AtFirst
  <2> QED
    BY <1>3, <2>1, RequestAmount, BankStaysPeopled DEF CopySound
<1>5. ASSUME NEW step, At(c, step), NEW st, Peopled(st), Proceed(c, [old EXCEPT !.bank = st])
      PROVE  AccountsInv'
  <2>1. PICK mine : mine = [old EXCEPT !.bank = st]
    OBVIOUS
  <2>2. mine.bank = st
    BY <1>4, <2>1 DEF CopyFiles
  <2> QED
    BY <1>4, <1>5, <2>1, <2>2, PeopleStep
<1>6. ASSUME Fail(c) PROVE AccountsInv'
  BY <1>3, <1>4, <1>6, PeopleStep
<1>7. CASE ConvertBank(c)
  <2>1. PICK st : st = IF ToMirror(r) THEN Debited(st0, r.acct, r.amount) ELSE Credited(st0, r.acct, r.amount)
    OBVIOUS
  <2>2. \/ Fail(c)
        \/ /\ CanLoad /\ At(c, "convertBank") /\ Proceed(c, [old EXCEPT !.bank = st])
           /\ IF ToMirror(r) THEN CanDebit(st0, r.acct, r.amount) ELSE CanDeposit(st0, r.acct, r.amount)
    BY <1>1, <1>7, <2>1 DEF ConvertBank, Reads
  <2>3. ASSUME CanLoad, ToMirror(r), CanDebit(st0, r.acct, r.amount) PROVE Peopled(st)
    BY <1>2, <1>4, <2>1, <2>3, DebitedPeopled
  <2>4. ASSUME CanLoad, ~ToMirror(r), CanDeposit(st0, r.acct, r.amount) PROVE Peopled(st)
    BY <1>2, <1>4, <2>1, <2>4, CreditedPeopled DEF CanDeposit
  <2> QED
    BY <1>5, <1>6, <2>2, <2>3, <2>4
<1>8. CASE Debit(c)
  <2>1. PICK st : st = Debited(st0, r.acct, r.amount)
    OBVIOUS
  <2>2. \/ Fail(c)
        \/ /\ CanLoad /\ CanDebit(st0, r.acct, r.amount) /\ At(c, "debit")
           /\ Proceed(c, [old EXCEPT !.bank = st])
    BY <1>1, <1>8, <2>1 DEF Debit, Reads
  <2> QED
    BY <1>2, <1>4, <1>5, <1>6, <2>1, <2>2, DebitedPeopled
<1>9. CASE MoveToCore(c)
  <2>1. PICK st : st = Moved(st0, r.acct, CoreAccount, r.amount)
    OBVIOUS
  <2>2. \/ Fail(c)
        \/ /\ CanLoad /\ CanMove(st0, r.acct, CoreAccount, r.amount) /\ At(c, "moveToCore")
           /\ Proceed(c, [old EXCEPT !.bank = st])
    BY <1>1, <1>9, <2>1 DEF MoveToCore, Reads
  <2>3. ASSUME CanLoad, CanMove(st0, r.acct, CoreAccount, r.amount) PROVE Peopled(st)
    <3>1. PICK mid : mid = Debited(st0, r.acct, r.amount)
      OBVIOUS
    <3>2. mid \in BankFile
      BY <1>2, <1>4, <2>3, <3>1, DebitedFile DEF CanMove
    <3>3. Exists(mid, CoreAccount)
      <4>1. CASE CoreAccount = r.acct
        BY <1>2, <1>4, <2>3, <3>1, <4>1, DebitedFile, BankAssumption DEF CanMove, CanDebit, Exists
      <4>2. CASE CoreAccount # r.acct
        BY <1>2, <2>3, <3>1, <4>2 DEF CanMove, Exists, Debited, BankFile
      <4> QED
        BY <4>1, <4>2
    <3> QED
      BY <1>4, <2>1, <3>1, <3>2, <3>3, CreditedPeopled DEF Moved
  <2> QED
    BY <1>5, <1>6, <2>2, <2>3
<1>10. CASE CoreSync(c)
  <2>1. PICK st : st = CoreSynced(st0, core)
    OBVIOUS
  <2>2. \/ Fail(c)
        \/ /\ CanLoad /\ CoreAccounts # {} /\ At(c, "coreSync")
           /\ Proceed(c, [old EXCEPT !.bank = st])
    BY <1>1, <1>10, <2>1 DEF CoreSync, Reads
  <2>3. ASSUME CanLoad, CoreAccounts # {} PROVE Peopled(st)
    <3>1. PICK b : b = core
      OBVIOUS
    <3>2. b \in [CoreAccounts -> Nat]
      BY <3>1 DEF HybxInv, FilesSound
    <3>3. PICK a \in CoreAccounts : a \in Account
      BY <2>3, BankAssumption
    <3>4. st[a] \in BankAccount
      BY <1>2, <2>1, <2>3, <3>1, <3>2, <3>3, CoreSyncedAccount
    <3> QED
      BY <3>3, <3>4, BankAssumption DEF Peopled, NoAccounts
  <2> QED
    BY <1>5, <1>6, <2>2, <2>3
<1>11. CASE SendOut(c)
  <2>1. \/ Fail(c)
        \/ /\ CanLoad /\ CanDebit(st0, r.acct, r.amount) /\ At(c, "send")
           /\ \E sent : Proceed(c, [old EXCEPT !.bank = [Debited(st0, r.acct, r.amount) EXCEPT
                           ![r.acct].settled = @ + (IF sent.completed THEN r.amount ELSE 0)]])
    BY <1>1, <1>11 DEF SendOut
  <2>2. ASSUME CanLoad, CanDebit(st0, r.acct, r.amount), NEW n \in Nat
        PROVE  Peopled([Debited(st0, r.acct, r.amount) EXCEPT ![r.acct].settled = @ + n])
    <3>1. PICK mid : mid = Debited(st0, r.acct, r.amount)
      OBVIOUS
    <3>2. mid \in BankFile /\ mid[r.acct] \in BankAccount /\ r.acct \in Account
      BY <1>2, <1>4, <2>2, <3>1, DebitedFile DEF CanDebit, Exists
    <3> QED
      BY <3>1, <3>2, SentPeopled
  <2>3. CASE Fail(c)
    BY <1>6, <2>3
  <2>4. ASSUME NEW sent, CanLoad, CanDebit(st0, r.acct, r.amount), At(c, "send"),
               Proceed(c, [old EXCEPT !.bank = [Debited(st0, r.acct, r.amount) EXCEPT
                              ![r.acct].settled = @ + (IF sent.completed THEN r.amount ELSE 0)]])
        PROVE  AccountsInv'
    <3>1. PICK n \in Nat : n = IF sent.completed THEN r.amount ELSE 0
      BY <1>4
    <3>2. PICK st : st = [Debited(st0, r.acct, r.amount) EXCEPT ![r.acct].settled = @ + n]
      OBVIOUS
    <3>3. Peopled(st)
      BY <2>2, <2>4, <3>2
    <3>4. Proceed(c, [old EXCEPT !.bank = st])
      BY <2>4, <3>1, <3>2
    <3> QED
      BY <1>5, <2>4, <3>3, <3>4
  <2> QED
    BY <2>1, <2>3, <2>4
<1> QED
  BY <1>7, <1>8, <1>9, <1>10, <1>11

\* A step other than those, with the file as it was.
LEMMA OtherPeople ==
    ASSUME HybxInv, AccountsInv, NEW c \in Client, NEW step, At(c, step), step \notin BankMakers,
           (\E mine : Proceed(c, mine)) \/ Fail(c), UNCHANGED bank
    PROVE  AccountsInv'
BY BankStaysPeopled, PeopleStep

LEMMA ReadsPeople ==
    ASSUME HybxInv, AccountsInv, NEW c \in Client,
           \/ MirrorSync(c) \/ ReadMirror(c) \/ MoveMirror(c) \/ DebitMirror(c)
           \/ RefreshOnly(c) \/ ReadCard(c) \/ ChargeCard(c)
    PROVE  AccountsInv'
<1>1. \E step \in {"mirrorSync", "toHybx", "fromHybx", "moveMirror", "debitMirror",
                   "refreshOnly", "readCard", "chargeCard"} :
         /\ At(c, step) /\ UNCHANGED bank
         /\ (\E mine : Proceed(c, mine)) \/ Fail(c)
  <2>1. CASE MirrorSync(c)
    BY <2>1 DEF MirrorSync, Reads
  <2>2. CASE ReadMirror(c)
    BY <2>2 DEF ReadMirror, Reads
  <2>3. CASE MoveMirror(c)
    BY <2>3 DEF MoveMirror, Reads
  <2>4. CASE DebitMirror(c)
    BY <2>4 DEF DebitMirror, Reads
  <2>5. CASE RefreshOnly(c)
    BY <2>5 DEF RefreshOnly, Reads
  <2>6. CASE ReadCard(c)
    BY <2>6 DEF ReadCard, Reads
  <2>7. CASE ChargeCard(c)
    BY <2>7 DEF ChargeCard, Reads
  <2> QED
    BY <2>1, <2>2, <2>3, <2>4, <2>5, <2>6, <2>7
<1> QED
  BY <1>1, OtherPeople DEF BankMakers

LEMMA WritesPeople ==
    ASSUME HybxInv, AccountsInv, NEW c \in Client,
           \/ SaveMirrors(c) \/ TellCore(c) \/ Federate(c) \/ Refresh(c) \/ IssueCard(c) \/ SaveCards(c)
    PROVE  AccountsInv'
<1>1. \E step \in {"saveMirrors", "tellCore", "federate", "refresh", "issue", "saveCards"} :
         /\ At(c, step) /\ UNCHANGED bank
         /\ (\E mine : Proceed(c, mine)) \/ Fail(c)
  <2>1. CASE SaveMirrors(c)
    BY <2>1 DEF SaveMirrors
  <2>2. CASE TellCore(c)
    BY <2>2 DEF TellCore
  <2>3. CASE Federate(c)
    BY <2>3 DEF Federate
  <2>4. CASE Refresh(c)
    BY <2>4 DEF Refresh
  <2>5. CASE IssueCard(c)
    BY <2>5 DEF IssueCard
  <2>6. CASE SaveCards(c)
    BY <2>6 DEF SaveCards
  <2> QED
    BY <2>1, <2>2, <2>3, <2>4, <2>5, <2>6
<1> QED
  BY <1>1, OtherPeople DEF BankMakers

\* The bank's file is seeded when it has no accounts, and else is a copy's.
LEMMA BankWritesPeople ==
    ASSUME HybxInv, AccountsInv, NEW c \in Client, SeedBank(c) \/ SaveBank(c)
    PROVE  AccountsInv'
<1>1. CASE SeedBank(c)
  <2>1. At(c, "seed") /\ (Proceed(c, copy[c]) \/ Fail(c))
    BY <1>1 DEF SeedBank
  <2>2. bank' = bank \/ bank' = Broken \/ bank' = Seeded
    BY <1>1 DEF SeedBank, Save, SaveFails
  <2>3. BankPeopled'
    BY <2>2 DEF AccountsInv, BankPeopled, Peopled, NoAccounts
  <2>4. "seed" \notin BankMakers
    BY DEF BankMakers
  <2> QED
    BY <2>1, <2>3, <2>4, PeopleStep
<1>2. CASE SaveBank(c)
  <2>1. At(c, "saveBank") /\ (Proceed(c, copy[c]) \/ Fail(c))
    BY <1>2 DEF SaveBank
  <2>2. bank' = bank \/ bank' = Broken \/ bank' = copy[c].bank
    BY <1>2 DEF SaveBank, Save, SaveFails
  <2>3. Peopled(copy[c].bank)
    <3>1. SavesNext(todo[c])
      BY <2>1, AtFirst DEF SavesNext
    <3> QED
      BY <3>1 DEF AccountsInv
  <2>4. BankPeopled'
    BY <2>2, <2>3 DEF AccountsInv, BankPeopled, Peopled, NoAccounts
  <2>5. "saveBank" \notin BankMakers
    BY DEF BankMakers
  <2> QED
    BY <2>1, <2>4, <2>5, PeopleStep
<1> QED
  BY <1>1, <1>2

\* In production ensureCards may go on after the save that follows it.
LEMMA EnsurePeople ==
    ASSUME HybxInv, AccountsInv, NEW c \in Client, EnsureAllCards(c)
    PROVE  AccountsInv'
<1>1. At(c, "ensureCards") /\ UNCHANGED bank
  BY DEF EnsureAllCards
<1>2. "ensureCards" \notin BankMakers
  BY DEF BankMakers
<1>3. \/ Fail(c)
      \/ \E mine : Proceed(c, mine) \/ Continue(c, Tail(Tail(todo[c])), mine)
  BY DEF EnsureAllCards
<1>4. CASE Fail(c) \/ \E mine : Proceed(c, mine)
  BY <1>1, <1>2, <1>4, OtherPeople
<1>5. ASSUME NEW mine, Continue(c, Tail(Tail(todo[c])), mine)
      PROVE  AccountsInv'
  <2>1. PICK s, t : s = todo[c] /\ t = Tail(Tail(todo[c]))
    OBVIOUS
  <2>2. /\ s \in Seq(Step) /\ s # <<>> /\ s[1] = "ensureCards" /\ SavesMade(s) /\ SavesCards(s)
        /\ 1 \in 1..Len(s)
    <3>1. Going(s, ask[c], copy[c]) /\ s # <<>> /\ s[1] = "ensureCards" /\ 1 \in 1..Len(s)
      BY <1>1, <2>1, AtFirst
    <3> QED
      BY <2>1, <3>1 DEF Going, AccountsInv
  <2>3. Len(s) \in Nat /\ Len(s) >= 2 /\ s[2] = "saveCards"
    <3>1. 1 < Len(s) /\ s[1 + 1] = "saveCards" /\ Len(s) \in Nat
      BY <2>2 DEF SavesCards
    <3> QED
      BY <3>1
  <2>4. SavesMade(PastMarks(t)) /\ ~SavesNext(PastMarks(t))
    <3>1. CASE Len(s) = 2
      <4>1. PICK u : u = Tail(s)
        OBVIOUS
      <4>2. u \in Seq(Step) /\ Len(u) = 1 /\ t = Tail(u)
        BY <2>1, <2>2, <3>1, <4>1
      <4>3. t \in Seq(Step) /\ Len(t) = 0
        BY <4>2
      <4>4. t = <<>>
        BY <4>3
      <4> QED
        BY <4>4, NothingMade
    <3>2. CASE Len(s) # 2
      <4>1. PICK p \in 1..Len(s) : p = 3
        <5>1. 3 \in 1..Len(s)
          BY <2>3, <3>2
        <5> QED
          BY <5>1
      <4>2. t = SubSeq(s, p, Len(s))
        BY <2>1, <2>2, <2>3, <4>1
      <4>3. SavesMade(PastMarks(t)) /\ (SavesNext(PastMarks(t)) => s[p] = "saveBank")
        BY <2>2, <4>2, RestMade
      <4>4. s[p] = "saveBank" => s[p - 1] \in BankMakers /\ p - 1 = 2
        BY <2>2, <4>1 DEF SavesMade
      <4> QED
        BY <2>3, <4>3, <4>4 DEF BankMakers
    <3> QED
      BY <3>1, <3>2
  <2>5. Continue(c, t, mine)
    BY <1>5, <2>1
  <2> QED
    BY <1>1, <2>4, <2>5, BankStaysPeopled, MadeOn
<1> QED
  BY <1>3, <1>4, <1>5

LEMMA BeginPeople ==
    ASSUME CardAssumption, HybxInv, AccountsInv, NEW c \in Client, Begin(c)
    PROVE  AccountsInv'
<1>1. PICK r \in CardRequests : todo' = [todo EXCEPT ![c] = Program(r.op)]
  BY DEF Begin
<1>2. UNCHANGED <<bank, copy>>
  BY DEF Begin
<1>3. r \in CardRequest
  BY DEF CardAssumption
<1>4. PICK s : s = Program(r.op)
  OBVIOUS
<1>5. SavesMade(s) /\ ~SavesNext(s)
  BY <1>3, <1>4, WholePrograms, WholeMade
<1>6. ASSUME NEW d \in Client
      PROVE  SavesMade(todo'[d]) /\ (SavesNext(todo'[d]) => Peopled(copy'[d].bank))
  <2>1. CASE d = c
    <3>1. todo'[d] = s
      BY <1>1, <1>4, <2>1 DEF HybxInv
    <3> QED
      BY <1>5, <3>1
  <2>2. CASE d # c
    <3>1. todo'[d] = todo[d] /\ copy'[d] = copy[d]
      BY <1>1, <1>2, <2>2 DEF HybxInv
    <3> QED
      BY <3>1 DEF AccountsInv
  <2> QED
    BY <2>1, <2>2
<1> QED
  BY <1>2, <1>6 DEF AccountsInv, Peopled, NoAccounts

LEMMA AccountsInvariant ==
    ASSUME CardAssumption
    PROVE  HybxSpec => []AccountsInv
<1>1. ASSUME HybxInit PROVE AccountsInv
  <2>1. bank = NoFile /\ \A c \in Client : todo[c] = <<>>
    BY <1>1 DEF HybxInit, BankInit
  <2> QED
    BY <2>1, NothingMade DEF AccountsInv
<1>2. ASSUME HybxInv, AccountsInv, [HybxNext]_hybxVars
      PROVE  AccountsInv'
  <2>1. ASSUME NEW c \in Client, CardStep(c)
        PROVE  AccountsInv'
    BY <1>2, <2>1, BankMakersPeople, ReadsPeople, WritesPeople, BankWritesPeople, EnsurePeople
    DEF CardStep
  <2>2. ASSUME NEW c \in Client, Begin(c)
        PROVE  AccountsInv'
    BY <1>2, <2>2, BeginPeople
  <2>3. CASE CardStop
    <3>1. UNCHANGED bank /\ \A c \in Client : todo'[c] = <<>>
      BY <2>3 DEF CardStop, bankVars
    <3> QED
      BY <1>2, <3>1, NothingMade DEF AccountsInv, Peopled, NoAccounts
  <2>4. CASE UNCHANGED hybxVars
    <3>1. UNCHANGED <<bank, todo, copy>>
      BY <2>4 DEF hybxVars, bankVars, cardVars
    <3> QED
      BY <1>2, <3>1 DEF AccountsInv, Peopled, NoAccounts
  <2> QED
    BY <1>2, <2>1, <2>2, <2>3, <2>4 DEF HybxNext
<1> QED
  BY <1>1, <1>2, HybxInvariant, PTL DEF HybxSpec

-----------------------------------------------------------------------------
(* A conversion moves value                                                 *)

\* The request of a conversion, and what it has left to do.
Converts(r) == r # NoRequest /\ r.op \in {"toHybx", "fromHybx"} /\ r.acct \in Account

ToSeed(d) == <<"seed", d, "convertBank", "saveBank", "moveMirror", "saveMirrors">>
ToRead(d) == <<d, "convertBank", "saveBank", "moveMirror", "saveMirrors">>
ToConvert == <<"convertBank", "saveBank", "moveMirror", "saveMirrors">>
ToSave == <<"saveBank", "moveMirror", "saveMirrors">>
ToMove == <<"moveMirror", "saveMirrors">>
ToFinish == <<"saveMirrors">>

\* The money of an account, as MoneyIn has it of the files.
Holds(bk, ms, a) ==
    LET st == IF bk = NoFile THEN Seeded ELSE bk IN
    IF Broken \in {bk, ms} THEN 0
    ELSE (IF st[a] = NoAccount THEN 0 ELSE st[a].bal) + IF ms[a] = NoMirror THEN 0 ELSE ms[a]

\* The mirror can do its part of the conversion; it and the account after theirs.
CanMirror(r, ms) ==
    /\ ms \in MirrorFile /\ r.amount > 0 /\ ms[r.acct] # NoMirror
    /\ r.op = "fromHybx" => ms[r.acct] >= r.amount
MirrorAfter(r, n) == IF r.op = "toHybx" THEN n + r.amount ELSE n - r.amount
BalanceAfter(r, n) == IF r.op = "toHybx" THEN n - r.amount ELSE n + r.amount

HasAccount(bk, a) == bk \in BankFile /\ bk[a] \in BankAccount

\* How far a conversion is: until the bank is saved the account and its mirror
\* hold what they did, and from then on the copy of the mirror has the rest.
Stage(s, r, mine, bk, ms, w) ==
    \/ s \in {ToSeed(r.op), ToRead(r.op)} /\ Holds(bk, ms, r.acct) = w
    \/ s = ToConvert /\ Holds(bk, ms, r.acct) = w /\ CanMirror(r, ms) /\ mine.mirrors = ms
    \/ /\ s = ToSave /\ Holds(bk, ms, r.acct) = w /\ CanMirror(r, ms) /\ mine.mirrors = ms
       /\ HasAccount(bk, r.acct) /\ HasAccount(mine.bank, r.acct)
       /\ mine.bank[r.acct].bal = BalanceAfter(r, bk[r.acct].bal)
    \/ /\ s = ToMove /\ CanMirror(r, ms) /\ mine.mirrors = ms /\ HasAccount(bk, r.acct)
       /\ bk[r.acct].bal + MirrorAfter(r, ms[r.acct]) = w
    \/ /\ s = ToFinish /\ HasAccount(bk, r.acct) /\ mine.mirrors \in MirrorFile
       /\ mine.mirrors[r.acct] # NoMirror /\ bk[r.acct].bal + mine.mirrors[r.acct] = w

ConvertInv ==
    /\ worth = [c \in Client |-> worth[c]]
    /\ \A c \in Client :
          Converts(ask[c]) => Stage(todo[c], ask[c], copy[c], bank, mirrors, worth[c])

LEMMA MoneyHeld ==
    ASSUME NEW a \in Account
    PROVE  MoneyIn(a) = Holds(bank, mirrors, a) /\ MoneyIn(a)' = Holds(bank', mirrors', a)
<1>1. a # NoAccount
  BY BankAssumption
<1> QED
  BY <1>1 DEF MoneyIn, Holds

LEMMA NoMarks ==
    ASSUME NEW s \in Seq(Step), s # <<>>, s[1] \notin Marks
    PROVE  PastMarks(s) = s
<1> DEFINE real == {i \in DOMAIN s : s[i] \notin Marks}
<1>1. 1 \in 1..Len(s) /\ Len(s) \in Nat /\ DOMAIN s = 1..Len(s)
  OBVIOUS
<1>2. 1 \in real /\ real \subseteq Nat
  BY <1>1
<1>3. PICK m : m = Min(real)
  OBVIOUS
<1>4. m \in real /\ m <= 1
  <2>1. real # {}
    BY <1>2
  <2> HIDE DEF real
  <2> QED
    BY <1>2, <1>3, <2>1, MinIs
<1>5. m = 1
  BY <1>1, <1>4
<1>6. PastMarks(s) = SubSeq(s, 1, Len(s))
  BY <1>2, <1>3, <1>5 DEF PastMarks
<1> QED
  BY <1>1, <1>6

\* Each of them is what is left of the one before it.
LEMMA ConvertSteps ==
    ASSUME NEW d \in {"toHybx", "fromHybx"}
    PROVE  /\ PastMarks(Tail(ToSeed(d))) = ToRead(d) /\ PastMarks(Tail(ToRead(d))) = ToConvert
           /\ PastMarks(Tail(ToConvert)) = ToSave /\ PastMarks(Tail(ToSave)) = ToMove
           /\ PastMarks(Tail(ToMove)) = ToFinish /\ PastMarks(Tail(ToFinish)) = <<>>
           /\ {ToRead(d), ToConvert, ToSave, ToMove, ToFinish} \cap {<<>>} = {}
<1>1. /\ Tail(ToSeed(d)) = ToRead(d) /\ Tail(ToRead(d)) = ToConvert /\ Tail(ToConvert) = ToSave
      /\ Tail(ToSave) = ToMove /\ Tail(ToMove) = ToFinish /\ Tail(ToFinish) = <<>>
  BY DEF ToSeed, ToRead, ToConvert, ToSave, ToMove, ToFinish
<1>2. /\ ToRead(d) \in Seq(Step) /\ ToRead(d) # <<>> /\ ToRead(d)[1] = d
      /\ ToConvert \in Seq(Step) /\ ToConvert # <<>> /\ ToConvert[1] = "convertBank"
      /\ ToSave \in Seq(Step) /\ ToSave # <<>> /\ ToSave[1] = "saveBank"
      /\ ToMove \in Seq(Step) /\ ToMove # <<>> /\ ToMove[1] = "moveMirror"
      /\ ToFinish \in Seq(Step) /\ ToFinish # <<>> /\ ToFinish[1] = "saveMirrors"
  BY DEF ToRead, ToConvert, ToSave, ToMove, ToFinish, Step
<1>3. {d, "convertBank", "saveBank", "moveMirror", "saveMirrors"} \cap Marks = {}
  BY DEF Marks
<1>4. PastMarks(ToRead(d)) = ToRead(d)
  BY <1>2, <1>3, NoMarks
<1>5. PastMarks(ToConvert) = ToConvert /\ PastMarks(ToSave) = ToSave
  BY <1>2, <1>3, NoMarks
<1>6. PastMarks(ToMove) = ToMove /\ PastMarks(ToFinish) = ToFinish
  BY <1>2, <1>3, NoMarks
<1> QED
  BY <1>1, <1>2, <1>4, <1>5, <1>6, NothingMade

\* None of them has a call whose error is ignored.
LEMMA ConvertUnmarked ==
    ASSUME NEW d \in {"toHybx", "fromHybx"},
           NEW s \in {ToSeed(d), ToRead(d), ToConvert}
    PROVE  {i \in DOMAIN s : s[i] \in Marks} = {}
<1>1. Marks = {"try", "end"}
  BY DEF Marks
<1>2. CASE s = ToSeed(d)
  <2>1. DOMAIN s = 1..6
    BY <1>2 DEF ToSeed
  <2>2. \A i \in 1..6 : i = 1 \/ i = 2 \/ i = 3 \/ i = 4 \/ i = 5 \/ i = 6
    OBVIOUS
  <2>3. /\ s[1] = "seed" /\ s[2] = d /\ s[3] = "convertBank" /\ s[4] = "saveBank"
        /\ s[5] = "moveMirror" /\ s[6] = "saveMirrors"
    BY <1>2 DEF ToSeed
  <2> QED
    BY <1>1, <2>1, <2>2, <2>3
<1>3. CASE s = ToRead(d)
  <2>1. DOMAIN s = 1..5
    BY <1>3 DEF ToRead
  <2>2. \A i \in 1..5 : i = 1 \/ i = 2 \/ i = 3 \/ i = 4 \/ i = 5
    OBVIOUS
  <2>3. /\ s[1] = d /\ s[2] = "convertBank" /\ s[3] = "saveBank"
        /\ s[4] = "moveMirror" /\ s[5] = "saveMirrors"
    BY <1>3 DEF ToRead
  <2> QED
    BY <1>1, <2>1, <2>2, <2>3
<1>4. CASE s = ToConvert
  <2>1. DOMAIN s = 1..4
    BY <1>4 DEF ToConvert
  <2>2. \A i \in 1..4 : i = 1 \/ i = 2 \/ i = 3 \/ i = 4
    OBVIOUS
  <2>3. s[1] = "convertBank" /\ s[2] = "saveBank" /\ s[3] = "moveMirror" /\ s[4] = "saveMirrors"
    BY <1>4 DEF ToConvert
  <2> QED
    BY <1>1, <2>1, <2>2, <2>3
<1> QED
  BY <1>2, <1>3, <1>4

LEMMA Joins ==
    ASSUME NEW s \in Seq(Step), NEW t \in Seq(Step)
    PROVE  /\ s \o t \in Seq(Step) /\ Len(s \o t) = Len(s) + Len(t)
           /\ \A k \in 1..Len(s) : (s \o t)[k] = s[k]
           /\ \A k \in 1..Len(t) : (s \o t)[Len(s) + k] = t[k]
<1>1. s \o t \in Seq(Step) /\ Len(s \o t) = Len(s) + Len(t)
  OBVIOUS
<1>2. \A k \in 1..Len(s) : (s \o t)[k] = s[k]
  OBVIOUS
<1>3. \A k \in 1..Len(t) : (s \o t)[Len(s) + k] = t[k]
  <2>1. PICK L \in Nat : L = Len(s)
    OBVIOUS
  <2>2. \A k \in 1..Len(t) : (s \o t)[L + k] = t[k]
    BY <2>1
  <2> QED
    BY <2>1, <2>2
<1> QED
  BY <1>1, <1>2, <1>3

LEMMA OneThenFive ==
    ASSUME NEW s \in Seq(Step), NEW t \in Seq(Step), Len(s) = 1, Len(t) = 5
    PROVE  s \o t = <<s[1], t[1], t[2], t[3], t[4], t[5]>>
<1>1. PICK u : u = s \o t
  OBVIOUS
<1>2. /\ u \in Seq(Step) /\ Len(u) = Len(s) + Len(t)
      /\ \A k \in 1..Len(s) : u[k] = s[k]
      /\ \A k \in 1..Len(t) : u[Len(s) + k] = t[k]
  BY <1>1, Joins
<1>3. Len(u) = 6 /\ u[1] = s[1]
  BY <1>2
<1>4. \A k \in 1..5 : u[1 + k] = t[k]
  BY <1>2
<1>5. u[1 + 1] = t[1] /\ u[1 + 2] = t[2] /\ u[1 + 3] = t[3] /\ u[1 + 4] = t[4] /\ u[1 + 5] = t[5]
  BY <1>4
<1>6. u[2] = t[1] /\ u[3] = t[2] /\ u[4] = t[3] /\ u[5] = t[4] /\ u[6] = t[5]
  BY <1>5
<1>7. u = <<u[1], u[2], u[3], u[4], u[5], u[6]>>
  BY <1>2, <1>3
<1> QED
  BY <1>1, <1>3, <1>6, <1>7

LEMMA ConvertProgram ==
    ASSUME NEW d \in {"toHybx", "fromHybx"}
    PROVE  Program(d) = ToSeed(d)
<1>1. Program(d) = ConvertRequest(d)
  BY DEF Program
<1>2. ConvertRequest(d) = ToSeed(d)
  <2>1. PICK s, t : s = <<"seed">> /\ t = Convert(d)
    OBVIOUS
  <2>2. /\ t \in Seq(Step) /\ Len(t) = 5
        /\ t[1] = d /\ t[2] = "convertBank" /\ t[3] = "saveBank" /\ t[4] = "moveMirror"
        /\ t[5] = "saveMirrors"
    BY <2>1 DEF Convert, Step
  <2>3. s \in Seq(Step) /\ Len(s) = 1 /\ s[1] = "seed"
    BY <2>1 DEF Step
  <2>4. s \o t = <<"seed", d, "convertBank", "saveBank", "moveMirror", "saveMirrors">>
    BY <2>2, <2>3, OneThenFive
  <2> QED
    BY <2>1, <2>4 DEF ConvertRequest, ToSeed
<1> QED
  BY <1>1, <1>2

LEMMA ProceedTo ==
    ASSUME HybxInv, NEW c \in Client, NEW mine, NEW t, t = PastMarks(Tail(todo[c])), Proceed(c, mine)
    PROVE  /\ todo'[c] = t
           /\ t # <<>> => copy'[c] = mine /\ ask'[c] = ask[c]
           /\ t = <<>> => ask'[c] = NoRequest
<1>1. /\ todo' = [todo EXCEPT ![c] = t]
      /\ copy' = [copy EXCEPT ![c] = IF t = <<>> THEN Blank ELSE mine]
      /\ ask' = [ask EXCEPT ![c] = IF t = <<>> THEN NoRequest ELSE @]
  BY DEF Proceed, Continue
<1> QED
  BY <1>1 DEF HybxInv

LEMMA FailEnds ==
    ASSUME HybxInv, NEW c \in Client, {i \in DOMAIN todo[c] : todo[c][i] \in Marks} = {}, Fail(c)
    PROVE  todo'[c] = <<>> /\ ask'[c] = NoRequest
<1>1. PICK old : old = copy[c]
  OBVIOUS
<1>2. Continue(c, <<>>, old)
  BY <1>1 DEF Fail
<1>3. todo' = [todo EXCEPT ![c] = <<>>] /\ ask' = [ask EXCEPT ![c] = NoRequest]
  BY <1>2, NothingMade DEF Continue
<1> QED
  BY <1>3 DEF HybxInv

\* The steps of a conversion, among those of all requests.
ConvertHeads == {"seed", "toHybx", "fromHybx", "convertBank", "saveBank", "moveMirror", "saveMirrors"}

LEMMA HeadsAre ==
    ASSUME NEW c \in Client, CardStep(c)
    PROVE  \/ SeedBank(c) /\ Head(todo[c]) = "seed"
           \/ ReadMirror(c) /\ Head(todo[c]) \in {"toHybx", "fromHybx"}
           \/ ConvertBank(c) /\ Head(todo[c]) = "convertBank"
           \/ SaveBank(c) /\ Head(todo[c]) = "saveBank"
           \/ MoveMirror(c) /\ Head(todo[c]) = "moveMirror"
           \/ SaveMirrors(c) /\ Head(todo[c]) = "saveMirrors"
           \/ Head(todo[c]) \notin ConvertHeads
<1>1. ASSUME MirrorSync(c) \/ DebitMirror(c) \/ Debit(c) \/ MoveToCore(c) \/ CoreSync(c)
             \/ RefreshOnly(c) \/ ReadCard(c) \/ ChargeCard(c)
      PROVE  Head(todo[c]) \notin ConvertHeads
  <2>1. Head(todo[c]) \in {"mirrorSync", "debitMirror", "debit", "moveToCore", "coreSync",
                           "refreshOnly", "readCard", "chargeCard"}
    BY <1>1 DEF MirrorSync, DebitMirror, Debit, MoveToCore, CoreSync, RefreshOnly, ReadCard,
                ChargeCard, Reads, At
  <2> QED
    BY <2>1 DEF ConvertHeads
<1>2. ASSUME SendOut(c) \/ TellCore(c) \/ Federate(c) \/ EnsureAllCards(c) \/ Refresh(c)
             \/ IssueCard(c) \/ SaveCards(c)
      PROVE  Head(todo[c]) \notin ConvertHeads
  <2>1. Head(todo[c]) \in {"send", "tellCore", "federate", "ensureCards", "refresh", "issue", "saveCards"}
    BY <1>2 DEF SendOut, TellCore, Federate, EnsureAllCards, Refresh, IssueCard, SaveCards, At
  <2> QED
    BY <2>1 DEF ConvertHeads
<1>3. SeedBank(c) => Head(todo[c]) = "seed"
  BY DEF SeedBank, At
<1>4. ReadMirror(c) => Head(todo[c]) \in {"toHybx", "fromHybx"}
  BY DEF ReadMirror, Reads, At
<1>5. ConvertBank(c) => Head(todo[c]) = "convertBank"
  BY DEF ConvertBank, Reads, At
<1>6. SaveBank(c) => Head(todo[c]) = "saveBank"
  BY DEF SaveBank, At
<1>7. MoveMirror(c) => Head(todo[c]) = "moveMirror"
  BY DEF MoveMirror, Reads, At
<1>8. SaveMirrors(c) => Head(todo[c]) = "saveMirrors"
  BY DEF SaveMirrors, At
<1> QED
  BY <1>1, <1>2, <1>3, <1>4, <1>5, <1>6, <1>7, <1>8 DEF CardStep

-----------------------------------------------------------------------------
(* Each step of a conversion                                                *)

\* The request is over, with its account's money what it was; or it goes on.
Over(r, w, s1, r1, bk, ms) == s1 = <<>> /\ r1 = NoRequest /\ Holds(bk, ms, r.acct) = w
GoesOn(c, r, w) ==
    \/ Over(r, w, todo'[c], ask'[c], bank', mirrors')
    \/ ask'[c] = r /\ Stage(todo'[c], r, copy'[c], bank', mirrors', w)

LEMMA AccountsHeld ==
    ASSUME CardAssumption, NEW bk, NEW ms \in MirrorFile, NEW a \in Account, HasAccount(bk, a), ms[a] # NoMirror
    PROVE  Holds(bk, ms, a) = bk[a].bal + ms[a]
<1>1. bk \notin {NoFile, Broken} /\ bk[a] # NoAccount /\ ms # Broken
  BY BankAssumption DEF HasAccount, CardAssumption
<1> QED
  BY <1>1 DEF Holds

\* A step that goes on with a copy; a step that fails.
LEMMA WentOn ==
    ASSUME HybxInv, NEW c \in Client, NEW r, r = ask[c], NEW w, NEW mine, NEW t,
           t = PastMarks(Tail(todo[c])), t # <<>>, Proceed(c, mine), Stage(t, r, mine, bank', mirrors', w)
    PROVE  GoesOn(c, r, w)
<1>1. todo'[c] = t /\ copy'[c] = mine /\ ask'[c] = r
  BY ProceedTo
<1> QED
  BY <1>1 DEF GoesOn

LEMMA FailedSo ==
    ASSUME HybxInv, NEW c \in Client, NEW r, NEW w, Fail(c), Holds(bank, mirrors, r.acct) = w,
           {i \in DOMAIN todo[c] : todo[c][i] \in Marks} = {}, UNCHANGED <<bank, mirrors>>
    PROVE  GoesOn(c, r, w)
<1>1. todo'[c] = <<>> /\ ask'[c] = NoRequest
  BY FailEnds
<1>2. bank' = bank /\ mirrors' = mirrors
  OBVIOUS
<1> QED
  BY <1>1, <1>2 DEF GoesOn, Over

LEMMA SeededHolds ==
    ASSUME HybxInv, AccountsInv, CanLoad, NoAccounts(Loaded), NEW ms, NEW a \in Account
    PROVE  Holds(Seeded, ms, a) = Holds(bank, ms, a)
<1>1. Seeded \notin {NoFile, Broken} /\ bank # Broken
  BY BankAssumption DEF CanLoad
<1>2. CASE bank = NoFile
  BY <1>1, <1>2 DEF Holds
<1>3. CASE bank # NoFile
  <2>1. NoAccounts(bank)
    BY <1>3 DEF Loaded
  <2>2. NoAccounts(Seeded)
    BY <1>1, <1>3, <2>1 DEF AccountsInv, Peopled
  <2>3. bank[a] = NoAccount /\ Seeded[a] = NoAccount
    BY <2>1, <2>2 DEF NoAccounts
  <2> QED
    BY <1>1, <1>3, <2>3 DEF Holds
<1> QED
  BY <1>2, <1>3

LEMMA SeedOn ==
    ASSUME ~DiskFaults, HybxInv, AccountsInv, NEW c \in Client, SeedBank(c),
           NEW r, r = ask[c], Converts(r), NEW w, todo[c] = ToSeed(r.op),
           Holds(bank, mirrors, r.acct) = w
    PROVE  GoesOn(c, r, w)
<1>1. PICK d, a, mine : d = r.op /\ a = r.acct /\ mine = copy[c]
  OBVIOUS
<1>2. d \in {"toHybx", "fromHybx"} /\ a \in Account
  BY <1>1 DEF Converts
<1>3. PICK s, t : s = ToSeed(d) /\ t = ToRead(d)
  OBVIOUS
<1>4. {i \in DOMAIN s : s[i] \in Marks} = {} /\ PastMarks(Tail(s)) = t /\ t # <<>>
  BY <1>2, <1>3, ConvertUnmarked, ConvertSteps
<1>5. todo[c] = s /\ mirrors' = mirrors
  BY <1>1, <1>3 DEF SeedBank
<1>6. ASSUME Proceed(c, mine), Holds(bank', mirrors', a) = w
      PROVE  GoesOn(c, r, w)
  <2>1. Stage(t, r, mine, bank', mirrors', w)
    BY <1>1, <1>3, <1>6 DEF Stage
  <2> QED
    BY <1>4, <1>5, <1>6, <2>1, WentOn
<1>7. CASE Proceed(c, mine) /\ UNCHANGED bank
  BY <1>1, <1>5, <1>6, <1>7
<1>8. CASE CanLoad /\ NoAccounts(Loaded) /\ bank' = Seeded /\ Proceed(c, mine)
  <2>1. Holds(Seeded, mirrors, a) = w
    BY <1>1, <1>2, <1>8, SeededHolds
  <2> QED
    BY <1>5, <1>6, <1>8, <2>1
<1>9. CASE Fail(c) /\ UNCHANGED bank
  BY <1>4, <1>5, <1>9, FailedSo
<1> QED
  BY <1>1, <1>7, <1>8, <1>9 DEF SeedBank, Save, SaveFails

LEMMA ReadOn ==
    ASSUME HybxInv, NEW c \in Client, ReadMirror(c),
           NEW r, r = ask[c], Converts(r), NEW w, todo[c] = ToRead(r.op),
           Holds(bank, mirrors, r.acct) = w
    PROVE  GoesOn(c, r, w)
<1>1. PICK d, old, ms : d = r.op /\ old = copy[c] /\ ms = mirrors
  OBVIOUS
<1>2. d \in {"toHybx", "fromHybx"} /\ r.acct \in Account
  BY <1>1 DEF Converts
<1>3. PICK s, t : s = ToRead(d) /\ t = ToConvert
  OBVIOUS
<1>4. {i \in DOMAIN s : s[i] \in Marks} = {} /\ PastMarks(Tail(s)) = t /\ t # <<>>
  BY <1>2, <1>3, ConvertUnmarked, ConvertSteps
<1>5. Head(todo[c]) = d
  BY <1>1, <1>3 DEF ToRead
<1>6. /\ bank' = bank /\ mirrors' = mirrors /\ todo[c] = s
      /\ \/ Fail(c)
         \/ /\ ms # Broken /\ r.amount > 0 /\ ms[r.acct] # NoMirror
            /\ d = "fromHybx" => ms[r.acct] >= r.amount
            /\ Proceed(c, [old EXCEPT !.mirrors = ms])
  BY <1>1, <1>3, <1>5 DEF ReadMirror, Reads, At, CanLoadMirrors
<1>7. CASE Fail(c)
  BY <1>4, <1>6, <1>7, FailedSo
<1>8. CASE /\ ms # Broken /\ r.amount > 0 /\ ms[r.acct] # NoMirror
           /\ d = "fromHybx" => ms[r.acct] >= r.amount
           /\ Proceed(c, [old EXCEPT !.mirrors = ms])
  <2>1. PICK mine : mine = [old EXCEPT !.mirrors = ms]
    OBVIOUS
  <2>2. mine.mirrors = ms
    <3>1. old \in CopyFiles
      BY <1>1 DEF HybxInv
    <3> QED
      BY <2>1, <3>1 DEF CopyFiles
  <2>3. ms \in MirrorFile
    BY <1>1, <1>8 DEF HybxInv, FilesSound
  <2>4. CanMirror(r, ms)
    BY <1>1, <1>8, <2>3 DEF CanMirror
  <2>5. Stage(t, r, mine, bank', mirrors', w)
    BY <1>1, <1>3, <1>6, <2>2, <2>4 DEF Stage
  <2> QED
    BY <1>4, <1>6, <1>8, <2>1, <2>5, WentOn
<1> QED
  BY <1>6, <1>7, <1>8

LEMMA DebitedBalance ==
    ASSUME NEW st \in BankFile, NEW a, NEW n \in Nat, CanDebit(st, a, n)
    PROVE  Debited(st, a, n)[a].bal = st[a].bal - n
<1>1. a \in Account /\ st[a] \in BankAccount
  BY DEF CanDebit, Exists, BankFile
<1>2. Debited(st, a, n)[a] = [st[a] EXCEPT !.bal = @ - n, !.out = @ + n]
  BY <1>1 DEF Debited, BankFile, BankAccount
<1> QED
  BY <1>1, <1>2 DEF BankAccount

LEMMA ConvertOn ==
    ASSUME HybxInv, NEW c \in Client, ConvertBank(c),
           NEW r, r = ask[c], Converts(r), NEW w, todo[c] = ToConvert,
           Holds(bank, mirrors, r.acct) = w, CanMirror(r, mirrors), copy[c].mirrors = mirrors
    PROVE  GoesOn(c, r, w)
<1>1. PICK d, a, n, old, st0 : d = r.op /\ a = r.acct /\ n = r.amount /\ old = copy[c] /\ st0 = Loaded
  OBVIOUS
<1>2. d \in {"toHybx", "fromHybx"} /\ a \in Account /\ (ToMirror(r) <=> d = "toHybx")
  BY <1>1 DEF Converts, ToMirror
<1>3. PICK s, t : s = ToConvert /\ t = ToSave
  OBVIOUS
<1>4. {i \in DOMAIN s : s[i] \in Marks} = {} /\ PastMarks(Tail(s)) = t /\ t # <<>>
  BY <1>2, <1>3, ConvertUnmarked, ConvertSteps
<1>5. PICK st : st = IF ToMirror(r) THEN Debited(st0, a, n) ELSE Credited(st0, a, n)
  OBVIOUS
<1>6. /\ bank' = bank /\ mirrors' = mirrors /\ todo[c] = s
      /\ \/ Fail(c)
         \/ /\ CanLoad /\ Proceed(c, [old EXCEPT !.bank = st])
            /\ IF ToMirror(r) THEN CanDebit(st0, a, n) ELSE CanDeposit(st0, a, n)
  BY <1>1, <1>3, <1>5 DEF ConvertBank, Reads
<1>7. CASE Fail(c)
  BY <1>4, <1>6, <1>7, FailedSo
<1>8. CASE /\ CanLoad /\ Proceed(c, [old EXCEPT !.bank = st])
           /\ IF ToMirror(r) THEN CanDebit(st0, a, n) ELSE CanDeposit(st0, a, n)
  <2>1. PICK mine : mine = [old EXCEPT !.bank = st]
    OBVIOUS
  <2>2. mine.bank = st /\ mine.mirrors = old.mirrors
    <3>1. old \in CopyFiles
      BY <1>1 DEF HybxInv
    <3> QED
      BY <2>1, <3>1 DEF CopyFiles
  <2>3. st0 \in BankFile /\ Exists(st0, a)
    <3>1. st0 \in BankFile
      BY <1>1, <1>8, InFiles
    <3> QED
      BY <1>8, <3>1 DEF CanDebit, CanDeposit
  <2>4. st0 = bank
    BY <1>1, <2>3 DEF Loaded, EmptyBank, Exists
  <2>5. n \in Nat
    <3>1. r \in CardRequest
      <4>1. ask[c] \in CardRequest \cup {NoRequest}
        BY DEF HybxInv
      <4> QED
        BY <4>1 DEF Converts
    <3> QED
      BY <1>1, <3>1, RequestAmount
  <2>6. HasAccount(st0, a)
    BY <1>2, <2>3 DEF HasAccount, Exists, BankFile
  <2>7. st \in BankFile /\ st[a] \in BankAccount /\ st[a].bal = BalanceAfter(r, st0[a].bal)
    <3>1. CASE d = "toHybx"
      <4>1. CanDebit(st0, a, n) /\ st = Debited(st0, a, n)
        BY <1>2, <1>5, <1>8, <3>1
      <4> QED
        BY <1>1, <2>3, <2>5, <3>1, <4>1, DebitedFile, DebitedBalance DEF BalanceAfter
    <3>2. CASE d # "toHybx"
      <4>1. st = Credited(st0, a, n)
        BY <1>2, <1>5, <3>2
      <4> QED
        BY <1>1, <2>3, <2>5, <3>2, <4>1, CreditedPeopled DEF BalanceAfter
    <3> QED
      BY <3>1, <3>2
  <2>8. HasAccount(mine.bank, a) /\ mine.bank[a].bal = BalanceAfter(r, st0[a].bal)
    BY <2>2, <2>7 DEF HasAccount
  <2>9. Stage(t, r, mine, bank', mirrors', w)
    BY <1>1, <1>3, <1>6, <2>2, <2>4, <2>6, <2>8 DEF Stage
  <2> QED
    BY <1>4, <1>6, <1>8, <2>1, <2>9, WentOn
<1> QED
  BY <1>6, <1>7, <1>8

LEMMA SaveOn ==
    ASSUME CardAssumption, ~DiskFaults, HybxInv, NEW c \in Client, SaveBank(c),
           NEW r, r = ask[c], Converts(r), NEW w, todo[c] = ToSave,
           Holds(bank, mirrors, r.acct) = w, CanMirror(r, mirrors), copy[c].mirrors = mirrors,
           HasAccount(bank, r.acct), HasAccount(copy[c].bank, r.acct),
           copy[c].bank[r.acct].bal = BalanceAfter(r, bank[r.acct].bal)
    PROVE  GoesOn(c, r, w)
<1>1. PICK d, a, mine, ms, n : d = r.op /\ a = r.acct /\ mine = copy[c] /\ ms = mirrors /\ n = r.amount
  OBVIOUS
<1>2. d \in {"toHybx", "fromHybx"} /\ a \in Account
  BY <1>1 DEF Converts
<1>3. PICK s, t : s = ToSave /\ t = ToMove
  OBVIOUS
<1>4. PastMarks(Tail(s)) = t /\ t # <<>>
  BY <1>2, <1>3, ConvertSteps
<1>5. bank' = mine.bank /\ mirrors' = ms /\ Proceed(c, mine) /\ todo[c] = s
  BY <1>1, <1>3 DEF SaveBank, Save, SaveFails
<1>6. ms \in MirrorFile /\ ms[a] # NoMirror /\ HasAccount(bank, a) /\ HasAccount(bank', a)
  BY <1>1, <1>5 DEF CanMirror
<1>7. w = bank[a].bal + ms[a]
  BY <1>1, <1>2, <1>6, AccountsHeld
<1>8. bank'[a].bal = BalanceAfter(r, bank[a].bal)
  BY <1>1, <1>5
<1>9. bank[a].bal \in Nat /\ ms[a] \in Nat /\ n \in Nat
  <2>1. r \in CardRequest
    <3>1. ask[c] \in CardRequest \cup {NoRequest}
      BY DEF HybxInv
    <3> QED
      BY <3>1 DEF Converts
  <2>2. n \in Nat
    BY <1>1, <2>1, RequestAmount
  <2>3. bank[a].bal \in Nat
    BY <1>6 DEF HasAccount, BankAccount
  <2>4. ms[a] \in Nat
    BY <1>2, <1>6 DEF MirrorFile
  <2> QED
    BY <2>2, <2>3, <2>4
<1>10. bank'[a].bal + MirrorAfter(r, ms[a]) = w
  BY <1>1, <1>7, <1>8, <1>9 DEF BalanceAfter, MirrorAfter
<1>11. Stage(t, r, mine, bank', mirrors', w)
  BY <1>1, <1>3, <1>5, <1>6, <1>10 DEF Stage
<1> QED
  BY <1>4, <1>5, <1>11, WentOn

LEMMA MoveOn ==
    ASSUME CardAssumption, HybxInv, NEW c \in Client, MoveMirror(c),
           NEW r, r = ask[c], Converts(r), NEW w, todo[c] = ToMove,
           CanMirror(r, mirrors), copy[c].mirrors = mirrors, HasAccount(bank, r.acct),
           bank[r.acct].bal + MirrorAfter(r, mirrors[r.acct]) = w
    PROVE  GoesOn(c, r, w)
<1>1. PICK d, a, old, ms : d = r.op /\ a = r.acct /\ old = copy[c] /\ ms = mirrors
  OBVIOUS
<1>2. d \in {"toHybx", "fromHybx"} /\ a \in Account /\ (ToMirror(r) <=> d = "toHybx")
  BY <1>1 DEF Converts, ToMirror
<1>3. PICK s, t : s = ToMove /\ t = ToFinish
  OBVIOUS
<1>4. PastMarks(Tail(s)) = t /\ t # <<>>
  BY <1>2, <1>3, ConvertSteps
<1>5. ms \in MirrorFile /\ ms[a] \in Nat /\ ms[a] # NoMirror
  <2>1. ms \in MirrorFile /\ ms[a] # NoMirror
    BY <1>1 DEF CanMirror
  <2> QED
    BY <1>2, <2>1 DEF MirrorFile
<1>6. MirrorAfter(r, ms[a]) \in Nat
  <2>1. r \in CardRequest
    <3>1. ask[c] \in CardRequest \cup {NoRequest}
      BY DEF HybxInv
    <3> QED
      BY <3>1 DEF Converts
  <2>2. r.amount \in Nat
    BY <2>1, RequestAmount
  <2>3. d = "fromHybx" => ms[a] >= r.amount
    BY <1>1 DEF CanMirror
  <2> QED
    BY <1>1, <1>2, <1>5, <2>2, <2>3 DEF MirrorAfter
<1>7. PICK new : new = [ms EXCEPT ![a] = MirrorAfter(r, ms[a])]
  OBVIOUS
<1>8. new \in MirrorFile /\ new[a] = MirrorAfter(r, ms[a])
  BY <1>2, <1>5, <1>6, <1>7 DEF MirrorFile
<1>9. PICK mine : mine = [old EXCEPT !.mirrors = new]
  OBVIOUS
<1>10. old \in CopyFiles /\ old.mirrors = ms
  BY <1>1 DEF HybxInv
<1>11. mine.mirrors = new
  BY <1>9, <1>10 DEF CopyFiles
<1>12. [old EXCEPT !.mirrors[a] = IF ToMirror(r) THEN @ + r.amount ELSE @ - r.amount] = mine
  <2>1. old = [bank |-> old.bank, mirrors |-> old.mirrors, cards |-> old.cards]
    BY <1>10 DEF CopyFiles
  <2>2. (IF ToMirror(r) THEN ms[a] + r.amount ELSE ms[a] - r.amount) = MirrorAfter(r, ms[a])
    BY <1>1, <1>2 DEF MirrorAfter
  <2> QED
    BY <1>7, <1>9, <1>10, <2>1, <2>2
<1>13. bank' = bank /\ mirrors' = mirrors /\ Proceed(c, mine) /\ todo[c] = s
  <2>1. Proceed(c, [old EXCEPT !.mirrors[a] = IF ToMirror(r) THEN @ + r.amount ELSE @ - r.amount])
    BY <1>1 DEF MoveMirror, Reads
  <2> QED
    BY <1>3, <1>12, <2>1 DEF MoveMirror, Reads
<1>14. Stage(t, r, mine, bank', mirrors', w)
  <2>1. mine.mirrors \in MirrorFile /\ mine.mirrors[a] # NoMirror
    <3>1. NoMirror \notin Nat
      BY DEF CardAssumption
    <3> QED
      BY <1>6, <1>8, <1>11, <3>1
  <2> QED
    BY <1>1, <1>3, <1>8, <1>11, <1>13, <2>1 DEF Stage
<1> QED
  BY <1>4, <1>13, <1>14, WentOn

LEMMA FinishOn ==
    ASSUME CardAssumption, ~DiskFaults, HybxInv, NEW c \in Client, SaveMirrors(c),
           NEW r, r = ask[c], Converts(r), NEW w, todo[c] = ToFinish, HasAccount(bank, r.acct),
           copy[c].mirrors \in MirrorFile, copy[c].mirrors[r.acct] # NoMirror,
           bank[r.acct].bal + copy[c].mirrors[r.acct] = w
    PROVE  GoesOn(c, r, w)
<1>1. PICK a, mine, ms : a = r.acct /\ mine = copy[c] /\ ms = copy[c].mirrors
  OBVIOUS
<1>2. a \in Account /\ r.op \in {"toHybx", "fromHybx"}
  BY <1>1 DEF Converts
<1>3. PICK s, t : s = ToFinish /\ t = PastMarks(Tail(todo[c]))
  OBVIOUS
<1>4. t = <<>>
  BY <1>2, <1>3, ConvertSteps
<1>5. bank' = bank /\ mirrors' = ms /\ Proceed(c, mine)
  BY <1>1 DEF SaveMirrors
<1>6. todo'[c] = <<>> /\ ask'[c] = NoRequest
  BY <1>3, <1>4, <1>5, ProceedTo
<1>7. Holds(bank, ms, a) = w
  BY <1>1, <1>2, AccountsHeld
<1> QED
  BY <1>1, <1>5, <1>6, <1>7 DEF GoesOn, Over

-----------------------------------------------------------------------------
(* All steps of all requests *)

LEMMA StageRuns ==
    ASSUME NEW r, Converts(r), NEW s, NEW mine, NEW bk, NEW ms, NEW w, Stage(s, r, mine, bk, ms, w)
    PROVE  s # <<>> /\ Head(s) \in ConvertHeads
<1>1. r.op \in {"toHybx", "fromHybx"}
  BY DEF Converts
<1>2. s \in {ToSeed(r.op), ToRead(r.op), ToConvert, ToSave, ToMove, ToFinish}
  BY DEF Stage
<1> QED
  BY <1>1, <1>2 DEF ToSeed, ToRead, ToConvert, ToSave, ToMove, ToFinish, ConvertHeads

LEMMA FirstSteps ==
    ASSUME NEW d \in {"toHybx", "fromHybx"}
    PROVE  /\ Head(ToSeed(d)) = "seed" /\ Head(ToRead(d)) = d /\ Head(ToConvert) = "convertBank"
           /\ Head(ToSave) = "saveBank" /\ Head(ToMove) = "moveMirror" /\ Head(ToFinish) = "saveMirrors"
BY DEF ToSeed, ToRead, ToConvert, ToSave, ToMove, ToFinish

\* A step of a conversion takes it from one stage to the next, or ends it.
LEMMA ConvertStep ==
    ASSUME CardAssumption, ~DiskFaults, HybxInv, AccountsInv, NEW c \in Client, CardStep(c),
           NEW r, r = ask[c], Converts(r), NEW w, Stage(todo[c], r, copy[c], bank, mirrors, w)
    PROVE  GoesOn(c, r, w)
<1>1. PICK h, s : h = Head(todo[c]) /\ s = todo[c]
  OBVIOUS
<1>2. r.op \in {"toHybx", "fromHybx"} /\ h \in ConvertHeads
  BY <1>1, StageRuns DEF Converts
<1>3. \/ SeedBank(c) /\ h = "seed"
      \/ ReadMirror(c) /\ h \in {"toHybx", "fromHybx"}
      \/ ConvertBank(c) /\ h = "convertBank"
      \/ SaveBank(c) /\ h = "saveBank"
      \/ MoveMirror(c) /\ h = "moveMirror"
      \/ SaveMirrors(c) /\ h = "saveMirrors"
  BY <1>1, <1>2, HeadsAre
<1>4. CASE s = ToSeed(r.op)
  <2>1. h = "seed"
    BY <1>1, <1>2, <1>4, FirstSteps
  <2>2. SeedBank(c)
    BY <1>3, <2>1
  <2>3. Holds(bank, mirrors, r.acct) = w
    BY <1>1, <1>2, <1>4, <2>1, FirstSteps DEF Stage
  <2> QED
    BY <1>1, <1>4, <2>2, <2>3, SeedOn
<1>5. CASE s = ToRead(r.op)
  <2>1. h = r.op
    BY <1>1, <1>2, <1>5, FirstSteps
  <2>2. ReadMirror(c)
    BY <1>2, <1>3, <2>1
  <2>3. Holds(bank, mirrors, r.acct) = w
    BY <1>1, <1>2, <1>5, <2>1, FirstSteps DEF Stage
  <2> QED
    BY <1>1, <1>5, <2>2, <2>3, ReadOn
<1>6. CASE s = ToConvert
  <2>1. h = "convertBank"
    BY <1>1, <1>2, <1>6, FirstSteps
  <2>2. ConvertBank(c)
    BY <1>3, <2>1
  <2>3. Holds(bank, mirrors, r.acct) = w /\ CanMirror(r, mirrors) /\ copy[c].mirrors = mirrors
    BY <1>1, <1>2, <1>6, <2>1, FirstSteps DEF Stage
  <2> QED
    BY <1>1, <1>6, <2>2, <2>3, ConvertOn
<1>7. CASE s = ToSave
  <2>1. h = "saveBank"
    BY <1>1, <1>2, <1>7, FirstSteps
  <2>2. SaveBank(c)
    BY <1>3, <2>1
  <2>3. /\ Holds(bank, mirrors, r.acct) = w /\ CanMirror(r, mirrors) /\ copy[c].mirrors = mirrors
        /\ HasAccount(bank, r.acct) /\ HasAccount(copy[c].bank, r.acct)
        /\ copy[c].bank[r.acct].bal = BalanceAfter(r, bank[r.acct].bal)
    BY <1>1, <1>2, <1>7, <2>1, FirstSteps DEF Stage
  <2> QED
    BY <1>1, <1>7, <2>2, <2>3, SaveOn
<1>8. CASE s = ToMove
  <2>1. h = "moveMirror"
    BY <1>1, <1>2, <1>8, FirstSteps
  <2>2. MoveMirror(c)
    BY <1>3, <2>1
  <2>3. /\ CanMirror(r, mirrors) /\ copy[c].mirrors = mirrors /\ HasAccount(bank, r.acct)
        /\ bank[r.acct].bal + MirrorAfter(r, mirrors[r.acct]) = w
    BY <1>1, <1>2, <1>8, <2>1, FirstSteps DEF Stage
  <2> QED
    BY <1>1, <1>8, <2>2, <2>3, MoveOn
<1>9. CASE s = ToFinish
  <2>1. h = "saveMirrors"
    BY <1>1, <1>2, <1>9, FirstSteps
  <2>2. SaveMirrors(c)
    BY <1>3, <2>1
  <2>3. /\ HasAccount(bank, r.acct) /\ copy[c].mirrors \in MirrorFile
        /\ copy[c].mirrors[r.acct] # NoMirror
        /\ bank[r.acct].bal + copy[c].mirrors[r.acct] = w
    BY <1>1, <1>2, <1>9, <2>1, FirstSteps DEF Stage
  <2> QED
    BY <1>1, <1>9, <2>2, <2>3, FinishOn
<1> QED
  BY <1>1, <1>4, <1>5, <1>6, <1>7, <1>8, <1>9 DEF Stage

\* A request that is no conversion does not become one.
LEMMA AsksSame ==
    ASSUME HybxInv, NEW c \in Client, CardStep(c)
    PROVE  ask'[c] \in {ask[c], NoRequest} /\ worth' = worth
<1>1. ASSUME NEW steps, NEW mine, Continue(c, steps, mine)
      PROVE  ask'[c] \in {ask[c], NoRequest} /\ worth' = worth
  BY <1>1 DEF Continue, HybxInv
<1>2. (\E mine : Proceed(c, mine)) \/ Fail(c) \/ \E steps, mine : Continue(c, steps, mine)
  <2>1. CASE MirrorSync(c) \/ ReadMirror(c) \/ ConvertBank(c) \/ MoveMirror(c) \/ DebitMirror(c)
             \/ Debit(c) \/ MoveToCore(c)
    BY <2>1 DEF MirrorSync, ReadMirror, ConvertBank, MoveMirror, DebitMirror, Debit, MoveToCore, Reads
  <2>2. CASE CoreSync(c) \/ RefreshOnly(c) \/ ReadCard(c) \/ ChargeCard(c)
    BY <2>2 DEF CoreSync, RefreshOnly, ReadCard, ChargeCard, Reads
  <2>3. CASE SaveMirrors(c) \/ SeedBank(c) \/ TellCore(c) \/ SaveBank(c) \/ Federate(c) \/ SaveCards(c)
    BY <2>3 DEF SaveMirrors, SeedBank, TellCore, SaveBank, Federate, SaveCards
  <2>4. CASE SendOut(c)
    BY <2>4 DEF SendOut
  <2>5. CASE EnsureAllCards(c)
    BY <2>5 DEF EnsureAllCards
  <2>6. CASE Refresh(c) \/ IssueCard(c)
    BY <2>6 DEF Refresh, IssueCard
  <2> QED
    BY <2>1, <2>2, <2>3, <2>4, <2>5, <2>6 DEF CardStep
<1>3. ASSUME Fail(c) PROVE \E steps, mine : Continue(c, steps, mine)
  BY <1>3 DEF Fail
<1>4. ASSUME NEW mine, Proceed(c, mine) PROVE \E steps, m : Continue(c, steps, m)
  BY <1>4 DEF Proceed
<1> QED
  BY <1>1, <1>2, <1>3, <1>4

LEMMA MovesStep ==
    ASSUME CardAssumption, OneAtATime, ~DiskFaults, HybxInv, AccountsInv, ConvertInv,
           NEW c \in Client, CardStep(c)
    PROVE  ConvertInv' /\ ConvertMovesStep
<1>1. ask'[c] \in {ask[c], NoRequest} /\ worth' = worth
  BY AsksSame
<1>2. PICK r, w : r = ask[c] /\ w = worth[c]
  OBVIOUS
<1>3. Converts(r) => GoesOn(c, r, w)
  <2>1. Converts(r) => Stage(todo[c], r, copy[c], bank, mirrors, w)
    BY <1>2 DEF ConvertInv
  <2> QED
    BY <1>2, <2>1, ConvertStep
<1>4. ASSUME Converts(ask'[c])
      PROVE  Stage(todo'[c], ask'[c], copy'[c], bank', mirrors', worth'[c])
  <2>1. ask'[c] = r /\ Converts(r)
    BY <1>1, <1>2, <1>4 DEF Converts
  <2>2. ~Over(r, w, todo'[c], ask'[c], bank', mirrors')
    BY <1>4 DEF Over, Converts
  <2> QED
    BY <1>1, <1>2, <1>3, <2>1, <2>2 DEF GoesOn
<1>5. \A d \in Client : d = c
  BY DEF OneAtATime
<1>6. ConvertInv'
  BY <1>1, <1>4, <1>5 DEF ConvertInv
<1>7. ASSUME NEW a \in Account, r # NoRequest, r.op \in {"toHybx", "fromHybx"}, r.acct = a, todo'[c] = <<>>
      PROVE  MoneyIn(a)' = w
  <2>1. Converts(r)
    BY <1>7 DEF Converts
  <2>2. ~Stage(todo'[c], r, copy'[c], bank', mirrors', w)
    BY <1>7, <2>1, StageRuns
  <2>3. Holds(bank', mirrors', a) = w
    BY <1>3, <1>7, <2>1, <2>2 DEF GoesOn, Over
  <2> QED
    BY <2>3, MoneyHeld
<1>8. ConvertMovesStep
  BY <1>2, <1>5, <1>7 DEF ConvertMovesStep
<1> QED
  BY <1>6, <1>8

LEMMA MovesBegin ==
    ASSUME CardAssumption, OneAtATime, HybxInv, ConvertInv, NEW c \in Client, Begin(c)
    PROVE  ConvertInv' /\ ConvertMovesStep
<1>1. PICK r \in CardRequests :
         /\ ask' = [ask EXCEPT ![c] = r] /\ todo' = [todo EXCEPT ![c] = Program(r.op)]
         /\ worth' = [worth EXCEPT ![c] = MoneyIn(r.acct)]
  BY DEF Begin
<1>2. bank' = bank /\ mirrors' = mirrors /\ todo[c] = <<>>
  BY DEF Begin
<1>3. PICK s : s = Program(r.op)
  OBVIOUS
<1>4. ask'[c] = r /\ todo'[c] = s
  BY <1>1, <1>3 DEF HybxInv
<1>5. worth'[c] = MoneyIn(r.acct) /\ worth' = [d \in Client |-> worth'[d]]
  BY <1>1 DEF ConvertInv
<1>6. \A d \in Client : d = c
  BY DEF OneAtATime
<1>7. ASSUME Converts(r)
      PROVE  Stage(todo'[c], r, copy'[c], bank', mirrors', worth'[c])
  <2>1. r.op \in {"toHybx", "fromHybx"} /\ r.acct \in Account
    BY <1>7 DEF Converts
  <2>2. s = ToSeed(r.op)
    BY <1>3, <2>1, ConvertProgram
  <2>3. worth'[c] = Holds(bank', mirrors', r.acct)
    BY <1>2, <1>5, <2>1, MoneyHeld
  <2> QED
    BY <1>4, <2>2, <2>3 DEF Stage
<1>8. ConvertInv'
  BY <1>4, <1>5, <1>6, <1>7 DEF ConvertInv
<1>9. ~Converts(ask[c])
  <2>1. Converts(ask[c]) => Stage(todo[c], ask[c], copy[c], bank, mirrors, worth[c])
    BY DEF ConvertInv
  <2> QED
    BY <1>2, <2>1, StageRuns
<1>10. ConvertMovesStep
  BY <1>6, <1>9 DEF ConvertMovesStep, Converts
<1> QED
  BY <1>8, <1>10

\* With one request at a time and no failures, a conversion between an account
\* and its mirror (ledger/hybrix.go) leaves what the two hold together as it was
\* when it started, whichever of its checks refuses it: the mirror that is saved
\* last is the one that was read before the bank changed.
THEOREM ConversionsMoveValue ==
    ASSUME CardAssumption, OneAtATime, ~DiskFaults, ~Stops
    PROVE  HybxSpec => [][ConvertMovesStep]_hybxVars
<1>1. ASSUME HybxInit PROVE ConvertInv
  <2>1. worth = [c \in Client |-> 0] /\ \A c \in Client : ask[c] = NoRequest
    BY <1>1 DEF HybxInit
  <2> QED
    BY <2>1 DEF ConvertInv, Converts
<1>2. ASSUME HybxInv, AccountsInv, ConvertInv, [HybxNext]_hybxVars
      PROVE  ConvertInv' /\ [ConvertMovesStep]_hybxVars
  <2>1. ASSUME NEW c \in Client, CardStep(c)
        PROVE  ConvertInv' /\ ConvertMovesStep
    BY <1>2, <2>1, MovesStep
  <2>2. ASSUME NEW c \in Client, Begin(c)
        PROVE  ConvertInv' /\ ConvertMovesStep
    BY <1>2, <2>2, MovesBegin
  <2>3. ~CardStop
    BY DEF CardStop
  <2>4. CASE UNCHANGED hybxVars
    <3>1. UNCHANGED <<bank, mirrors, todo, ask, copy, worth>>
      BY <2>4 DEF hybxVars, bankVars, cardVars
    <3>2. ConvertInv'
      BY <1>2, <3>1 DEF ConvertInv
    <3> QED
      BY <2>4, <3>2
  <2> QED
    BY <1>2, <2>1, <2>2, <2>3, <2>4 DEF HybxNext
<1> QED
  BY <1>1, <1>2, HybxInvariant, AccountsInvariant, PTL DEF HybxSpec

=============================================================================

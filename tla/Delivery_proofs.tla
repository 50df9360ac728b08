--------------------------- MODULE Delivery_proofs --------------------------
(* Proofs about the plugins that pass messages on, and about Delivery, which *)
(* composes them.  Each plugin has an invariant that its own next-state      *)
(* relation keeps: AnalyticsInv, MonitorInv, DownloadInv, WindowInv and      *)
(* GatewayInv here, UidInv and TypeOK of the modules that prove about        *)
(* RuntimeManager and RDKShell.  A step of Delivery is one of a plugin and   *)
(* leaves the others alone (StepOfEach), so their conjunction is invariant.  *)
EXTENDS Delivery, Sequences, WellFoundedInduction, TLAPS

(* Sequences: what is in one, and whether R holds of all pairs in their order*)
In(s, e) == \E i \in DOMAIN s : s[i] = e

Sorted(s, R) == \A i, j \in DOMAIN s : i < j => <<s[i], s[j]>> \in R

Distinct(s) == \A i, j \in DOMAIN s : s[i] = s[j] => i = j

LEMMA Appended ==
  ASSUME NEW S, NEW s \in Seq(S), NEW x \in S
  PROVE  /\ Append(s, x) \in Seq(S)
         /\ \A e : In(Append(s, x), e) <=> In(s, e) \/ e = x
         /\ \A R : Sorted(s, R) /\ (\A e : In(s, e) => <<e, x>> \in R) => Sorted(Append(s, x), R)
<1>1. /\ Append(s, x) \in Seq(S) /\ Len(s) \in Nat
      /\ DOMAIN s = 1..Len(s) /\ DOMAIN Append(s, x) = 1..(Len(s) + 1)
      /\ Append(s, x)[Len(s) + 1] = x
      /\ \A i \in 1..Len(s) : Append(s, x)[i] = s[i]
  OBVIOUS
<1>2. \A e : In(Append(s, x), e) <=> In(s, e) \/ e = x
  BY <1>1 DEF In
<1>3. ASSUME NEW R, Sorted(s, R), \A e : In(s, e) => <<e, x>> \in R
      PROVE  Sorted(Append(s, x), R)
  <2> SUFFICES ASSUME NEW i \in 1..(Len(s) + 1), NEW j \in 1..(Len(s) + 1), i < j
               PROVE  <<Append(s, x)[i], Append(s, x)[j]>> \in R
    BY <1>1 DEF Sorted
  <2>1. i \in 1..Len(s) /\ Append(s, x)[i] = s[i]
    BY <1>1
  <2>2. CASE j = Len(s) + 1
    BY <1>1, <1>3, <2>1, <2>2 DEF In
  <2>3. CASE j # Len(s) + 1
    BY <1>1, <1>3, <2>1, <2>3 DEF Sorted
  <2> QED BY <2>2, <2>3
<1> QED
  BY <1>1, <1>2, <1>3

LEMMA Taken ==
  ASSUME NEW S, NEW s \in Seq(S), s # <<>>
  PROVE  /\ Tail(s) \in Seq(S) /\ Head(s) \in S
         /\ \A e : In(s, e) <=> In(Tail(s), e) \/ e = Head(s)
         /\ \A R : Sorted(s, R) => /\ Sorted(Tail(s), R)
                                   /\ \A e : In(Tail(s), e) => <<Head(s), e>> \in R
<1>1. /\ Tail(s) \in Seq(S) /\ Head(s) \in S /\ Len(s) \in Nat \ {0}
      /\ DOMAIN s = 1..Len(s) /\ DOMAIN Tail(s) = 1..(Len(s) - 1) /\ Head(s) = s[1]
      /\ \A i \in 1..(Len(s) - 1) : Tail(s)[i] = s[i + 1]
  OBVIOUS
<1>2. ASSUME NEW e PROVE In(s, e) <=> In(Tail(s), e) \/ e = Head(s)
  <2>1. ASSUME NEW i \in 1..Len(s), s[i] = e, i # 1 PROVE In(Tail(s), e)
    <3>1. i - 1 \in 1..(Len(s) - 1) /\ (i - 1) + 1 = i
      BY <1>1, <2>1
    <3> QED BY <1>1, <2>1, <3>1 DEF In
  <2>2. ASSUME NEW i \in 1..(Len(s) - 1), Tail(s)[i] = e PROVE In(s, e)
    <3>1. i + 1 \in 1..Len(s)
      BY <1>1
    <3> QED BY <1>1, <2>2, <3>1 DEF In
  <2>3. 1 \in 1..Len(s)
    BY <1>1
  <2> QED BY <1>1, <2>1, <2>2, <2>3 DEF In
<1>3. ASSUME NEW R, Sorted(s, R)
      PROVE  Sorted(Tail(s), R) /\ \A e : In(Tail(s), e) => <<Head(s), e>> \in R
  <2>1. ASSUME NEW i \in 1..(Len(s) - 1), NEW j \in 1..(Len(s) - 1), i < j
        PROVE  <<Tail(s)[i], Tail(s)[j]>> \in R
    <3>1. i + 1 \in 1..Len(s) /\ j + 1 \in 1..Len(s) /\ i + 1 < j + 1
      BY <1>1, <2>1
    <3> QED BY <1>1, <1>3, <3>1 DEF Sorted
  <2>2. ASSUME NEW i \in 1..(Len(s) - 1) PROVE <<Head(s), Tail(s)[i]>> \in R
    <3>1. 1 \in 1..Len(s) /\ i + 1 \in 1..Len(s) /\ 1 < i + 1
      BY <1>1
    <3> QED BY <1>1, <1>3, <3>1 DEF Sorted
  <2> QED BY <1>1, <2>1, <2>2 DEF Sorted, In
<1> QED
  BY <1>1, <1>2, <1>3

LEMMA Joined ==
  ASSUME NEW S, NEW s \in Seq(S), NEW t \in Seq(S)
  PROVE  /\ s \o t \in Seq(S)
         /\ \A e : In(s \o t, e) <=> In(s, e) \/ In(t, e)
         /\ \A R : Sorted(s, R) /\ Sorted(t, R) /\ (\A e, f : In(s, e) /\ In(t, f) => <<e, f>> \in R)
                     => Sorted(s \o t, R)
<1>1. /\ s \o t \in Seq(S) /\ Len(s) \in Nat /\ Len(t) \in Nat
      /\ DOMAIN s = 1..Len(s) /\ DOMAIN t = 1..Len(t) /\ DOMAIN (s \o t) = 1..(Len(s) + Len(t))
      /\ \A i \in 1..(Len(s) + Len(t)) :
           (s \o t)[i] = IF i <= Len(s) THEN s[i] ELSE t[i - Len(s)]
  OBVIOUS
<1>2. ASSUME NEW i \in 1..(Len(s) + Len(t)), i > Len(s)
      PROVE  i - Len(s) \in 1..Len(t) /\ (s \o t)[i] = t[i - Len(s)]
  <2>1. ~(i <= Len(s)) /\ i - Len(s) \in 1..Len(t)
    BY <1>1, <1>2
  <2> QED BY <1>1, <2>1
<1>3. ASSUME NEW i \in 1..(Len(s) + Len(t)), i <= Len(s)
      PROVE  i \in 1..Len(s) /\ (s \o t)[i] = s[i]
  BY <1>1, <1>3
<1>4. ASSUME NEW e PROVE In(s \o t, e) <=> In(s, e) \/ In(t, e)
  <2>1. ASSUME NEW i \in 1..Len(t) PROVE (s \o t)[i + Len(s)] = t[i] /\ i + Len(s) \in 1..(Len(s) + Len(t))
    <3>1. i + Len(s) \in 1..(Len(s) + Len(t)) /\ i + Len(s) > Len(s) /\ (i + Len(s)) - Len(s) = i
      BY <1>1
    <3> QED BY <1>2, <3>1
  <2>2. ASSUME NEW i \in 1..Len(s) PROVE (s \o t)[i] = s[i] /\ i \in 1..(Len(s) + Len(t))
    BY <1>1
  <2>3. \A i \in 1..(Len(s) + Len(t)) : i <= Len(s) \/ i > Len(s)
    BY <1>1
  <2>4. In(s, e) \/ In(t, e) => In(s \o t, e)
    BY <1>1, <2>1, <2>2 DEF In
  <2>5. In(s \o t, e) => In(s, e) \/ In(t, e)
    BY <1>1, <1>2, <1>3, <2>3 DEF In
  <2> QED BY <2>4, <2>5
<1>5. ASSUME NEW R, Sorted(s, R), Sorted(t, R), \A e, f : In(s, e) /\ In(t, f) => <<e, f>> \in R
      PROVE  Sorted(s \o t, R)
  <2> SUFFICES ASSUME NEW i \in 1..(Len(s) + Len(t)), NEW j \in 1..(Len(s) + Len(t)), i < j
               PROVE  <<(s \o t)[i], (s \o t)[j]>> \in R
    BY <1>1 DEF Sorted
  <2>1. CASE j <= Len(s)
    <3>1. i <= Len(s) BY <1>1, <2>1
    <3> QED BY <1>1, <1>3, <1>5, <2>1, <3>1 DEF Sorted
  <2>2. CASE i > Len(s)
    <3>1. j > Len(s) /\ i - Len(s) < j - Len(s) BY <1>1, <2>2
    <3> QED BY <1>1, <1>2, <1>5, <2>2, <3>1 DEF Sorted
  <2>3. CASE i <= Len(s) /\ j > Len(s)
    BY <1>1, <1>2, <1>3, <1>5, <2>3 DEF In
  <2>4. Len(s) \in Int /\ i \in Int /\ j \in Int
    BY <1>1
  <2>5. j <= Len(s) \/ i > Len(s) \/ (i <= Len(s) /\ j > Len(s))
    BY <2>4
  <2> QED BY <2>1, <2>2, <2>3, <2>5
<1> QED
  BY <1>1, <1>4, <1>5

LEMMA AppendedDistinct ==
  ASSUME NEW S, NEW s \in Seq(S), NEW x \in S, Distinct(s), \A e : In(s, e) => e # x
  PROVE  Distinct(Append(s, x))
<1>1. /\ Len(s) \in Nat
      /\ DOMAIN s = 1..Len(s) /\ DOMAIN Append(s, x) = 1..(Len(s) + 1)
      /\ Append(s, x)[Len(s) + 1] = x
      /\ \A i \in 1..Len(s) : Append(s, x)[i] = s[i] /\ s[i] # x
  BY DEF In
<1>2. \A i \in 1..(Len(s) + 1) : i \in 1..Len(s) \/ i = Len(s) + 1
  BY <1>1
<1> QED BY <1>1, <1>2 DEF Distinct

LEMMA JoinedDistinct ==
  ASSUME NEW S, NEW s \in Seq(S), NEW t \in Seq(S), Distinct(s), Distinct(t),
         \A e, f : In(s, e) /\ In(t, f) => e # f
  PROVE  Distinct(s \o t)
<1>1. /\ Len(s) \in Nat /\ Len(t) \in Nat
      /\ DOMAIN s = 1..Len(s) /\ DOMAIN t = 1..Len(t) /\ DOMAIN (s \o t) = 1..(Len(s) + Len(t))
      /\ \A i \in 1..(Len(s) + Len(t)) :
           (s \o t)[i] = IF i <= Len(s) THEN s[i] ELSE t[i - Len(s)]
  OBVIOUS
<1>2. \A i \in 1..(Len(s) + Len(t)) :
        \/ i \in 1..Len(s) /\ (s \o t)[i] = s[i]
        \/ i - Len(s) \in 1..Len(t) /\ (s \o t)[i] = t[i - Len(s)]
  <2> SUFFICES ASSUME NEW i \in 1..(Len(s) + Len(t))
               PROVE  \/ i \in 1..Len(s) /\ (s \o t)[i] = s[i]
                      \/ i - Len(s) \in 1..Len(t) /\ (s \o t)[i] = t[i - Len(s)]
    OBVIOUS
  <2>1. i <= Len(s) => i \in 1..Len(s)
    BY <1>1
  <2>2. ~(i <= Len(s)) => i - Len(s) \in 1..Len(t)
    BY <1>1
  <2> QED BY <1>1, <2>1, <2>2
<1>3. \A i \in 1..Len(s), j \in 1..Len(t) : s[i] # t[j]
  BY <1>1 DEF In
<1>4. \A i, j \in 1..Len(s) : s[i] = s[j] => i = j
  BY <1>1 DEF Distinct
<1>5. \A i, j \in 1..Len(t) : t[i] = t[j] => i = j
  BY <1>1 DEF Distinct
<1> SUFFICES ASSUME NEW i \in 1..(Len(s) + Len(t)), NEW j \in 1..(Len(s) + Len(t)),
                    (s \o t)[i] = (s \o t)[j]
             PROVE  i = j
  BY <1>1 DEF Distinct
<1>6. i \in Int /\ j \in Int /\ Len(s) \in Int
  BY <1>1
<1>7. i \in 1..Len(s) /\ j \in 1..Len(s) => i = j
  BY <1>1, <1>4
<1>8. i - Len(s) \in 1..Len(t) /\ j - Len(s) \in 1..Len(t) => i = j
  BY <1>2, <1>5, <1>6, <1>1
<1> QED BY <1>2, <1>3, <1>7, <1>8

LEMMA SortedIsDistinct ==
  ASSUME NEW S, NEW s \in Seq(S), NEW R, Sorted(s, R), \A e : <<e, e>> \notin R
  PROVE  Distinct(s)
<1> SUFFICES ASSUME NEW i \in DOMAIN s, NEW j \in DOMAIN s, s[i] = s[j], i # j PROVE FALSE
  BY DEF Distinct
<1>1. i \in Int /\ j \in Int
  OBVIOUS
<1>2. i < j \/ j < i
  BY <1>1
<1> QED BY <1>2 DEF Sorted

LEMMA SortedMore ==
  ASSUME NEW s, NEW R, NEW Q, R \subseteq Q, Sorted(s, R) PROVE Sorted(s, Q)
  BY DEF Sorted

(* Induction for a set of numbers.                                           *)
LEMMA Inductive ==
  ASSUME NEW S, 0 \in S, \A n \in Nat : n \in S => n + 1 \in S
  PROVE  Nat \subseteq S
<1> SUFFICES ASSUME Nat \ S # {} PROVE FALSE
  OBVIOUS
<1>1. PICK n \in Nat \ S : \A m \in Nat \ S : ~(<<m, n>> \in OpToRel(<, Nat))
  BY NatLessThanWellFounded, WFMin, Zenon
<1>2. n - 1 \in Nat /\ n - 1 < n /\ (n - 1) + 1 = n
  OBVIOUS
<1>3. <<n - 1, n>> \in OpToRel(<, Nat)
  BY <1>2 DEF OpToRel
<1> QED
  BY <1>1, <1>2, <1>3

-----------------------------------------------------------------------------
(* Analytics                                                                 *)
Uptime == Event \ Epoch

(* Sent before: the order of acceptance, as a set of pairs.                  *)
Sooner == {p \in Event \X Event : AN!Precedes(accepted, p[1], p[2])}
SoonerIfUptime == Sooner \cup (Epoch \X Event) \cup (Event \X Epoch)
SoonerOrLast == Sooner \cup (Event \X {"shutdown"})

Somewhere(e) ==
  In(sent, e) \/ In(mEventQueue, e) \/ e = action \/ In(mActionQueue, e)

Kept ==
  /\ Distinct(accepted) /\ Distinct(sent)
  /\ \A e \in Event : In(accepted, e) <=> Somewhere(e)

InOrder ==
  /\ Sorted(sent, SoonerIfUptime) /\ Sorted(mEventQueue, Sooner)
  /\ Sorted(mActionQueue, SoonerOrLast)

Passed ==
  /\ \A e \in Uptime, f \in Event : In(sent, e) /\ In(mEventQueue, f) => <<e, f>> \in Sooner
  /\ \A e, f \in Event : (In(sent, e) \/ In(mEventQueue, e)) /\ f = action => <<e, f>> \in Sooner
  /\ \A e, f \in Event : (In(sent, e) \/ In(mEventQueue, e) \/ e = action) /\ In(mActionQueue, f)
                            => <<e, f>> \in Sooner

AnalyticsInv ==
  /\ AN!TypeOK
  /\ mSysTimeValid => mEventQueue = <<>>
  /\ Kept /\ InOrder /\ Passed

LEMMA SoonerIsAnOrder ==
  ASSUME Distinct(accepted), accepted \in Seq(Event)
  PROVE  \A e, f : <<e, f>> \in Sooner => e # f /\ <<f, e>> \notin Sooner
<1> SUFFICES ASSUME NEW e, NEW f, <<e, f>> \in Sooner
             PROVE  e # f /\ <<f, e>> \notin Sooner
  OBVIOUS
<1>1. PICK i \in DOMAIN accepted, j \in DOMAIN accepted :
        i < j /\ accepted[i] = e /\ accepted[j] = f
  BY DEF Sooner, AN!Precedes
<1>2. i \in Nat /\ j \in Nat
  BY <1>1
<1>3. e # f
  BY <1>1, <1>2 DEF Distinct
<1>4. ASSUME <<f, e>> \in Sooner PROVE FALSE
  <2>1. PICK k \in DOMAIN accepted, l \in DOMAIN accepted :
          k < l /\ accepted[k] = f /\ accepted[l] = e
    BY <1>4 DEF Sooner, AN!Precedes
  <2>2. k = j /\ l = i
    BY <1>1, <2>1 DEF Distinct
  <2> QED BY <1>1, <1>2, <2>1, <2>2
<1> QED BY <1>3, <1>4

(* The invariant gives the property.                                         *)
LEMMA InOrderWhenKept ==
  ASSUME AnalyticsInv, AN!EpochAssumption PROVE AN!UptimeEventsInOrder
<1>1. /\ accepted \in Seq(Event) /\ sent \in Seq(Event)
      /\ Distinct(accepted) /\ Distinct(sent)
  BY DEF AnalyticsInv, AN!TypeOK, Kept
<1>2. AN!IsInjective(sent)
  BY <1>1 DEF AN!IsInjective, Distinct
<1>3. AN!ToSet(sent) \subseteq AN!ToSet(accepted)
  BY <1>1 DEF AnalyticsInv, Kept, Somewhere, In, AN!ToSet
<1>4. ASSUME NEW f \in AN!ToSet(sent) \ Epoch, NEW e \in Uptime, AN!Precedes(accepted, e, f)
      PROVE  AN!Precedes(sent, e, f)
  <2>1. f \in Uptime /\ In(sent, f) /\ In(accepted, e) /\ In(accepted, f) /\ <<e, f>> \in Sooner
    <3>1. f \in Event /\ In(sent, f)
      BY <1>1 DEF AN!ToSet, In
    <3>2. In(accepted, e) /\ In(accepted, f)
      BY <1>4 DEF AN!Precedes, In
    <3> QED BY <1>4, <3>1, <3>2 DEF Uptime, Sooner
  <2>2. e # f /\ <<f, e>> \notin Sooner
    BY <1>1, <2>1, SoonerIsAnOrder
  <2>3. Somewhere(e)
    BY <2>1 DEF AnalyticsInv, Kept, Uptime
  <2>4. In(sent, e)
    BY <2>1, <2>2, <2>3 DEF AnalyticsInv, Passed, Somewhere, Uptime
  <2>5. PICK i \in DOMAIN sent, j \in DOMAIN sent : sent[i] = e /\ sent[j] = f
    BY <2>1, <2>4 DEF In
  <2>6. i \in Nat /\ j \in Nat /\ i # j
    BY <1>1, <2>2, <2>5
  <2>7. ~(j < i)
    <3>1. ASSUME j < i PROVE <<f, e>> \in SoonerIfUptime
      BY <2>5, <3>1 DEF AnalyticsInv, InOrder, Sorted
    <3> QED BY <2>1, <2>2, <3>1 DEF SoonerIfUptime, Uptime
  <2>8. i < j
    BY <2>6, <2>7
  <2> QED BY <2>5, <2>8 DEF AN!Precedes
<1> QED
  BY <1>2, <1>3, <1>4 DEF AN!UptimeEventsInOrder, Uptime

LEMMA AnalyticsInit == ASSUME AN!EpochAssumption, AN!Init PROVE AnalyticsInv
<1>1. AN!TypeOK /\ (mSysTimeValid => mEventQueue = <<>>)
  <2>1. <<>> \in Seq(Event) /\ <<>> \in Seq(Event \ Epoch) /\ <<>> \in Seq(Event \cup {"shutdown"})
    OBVIOUS
  <2> QED BY <2>1 DEF AN!Init, AN!TypeOK
<1>2. \A e : ~In(<<>>, e)
  BY DEF In
<1>3. Distinct(<<>>) /\ \A R : Sorted(<<>>, R)
  BY DEF Distinct, Sorted
<1>4. Kept
  BY <1>2, <1>3 DEF AN!Init, AN!EpochAssumption, Kept, Somewhere
<1>5. InOrder /\ Passed
  BY <1>2, <1>3 DEF AN!Init, AN!EpochAssumption, InOrder, Passed
<1> QED BY <1>1, <1>4, <1>5 DEF AnalyticsInv

(* What is sooner stays so when another event is accepted.                   *)
LEMMA StillSooner ==
  ASSUME accepted \in Seq(Event), NEW e \in Event, accepted' = Append(accepted, e)
  PROVE  /\ Sooner \subseteq Sooner'
         /\ \A f \in Event : In(accepted, f) => <<f, e>> \in Sooner'
<1>1. /\ Len(accepted) \in Nat
      /\ DOMAIN accepted = 1..Len(accepted) /\ DOMAIN accepted' = 1..(Len(accepted) + 1)
      /\ accepted'[Len(accepted) + 1] = e
      /\ \A i \in 1..Len(accepted) : accepted'[i] = accepted[i]
  OBVIOUS
<1>2. ASSUME NEW p \in Sooner PROVE p \in Sooner'
  BY <1>1 DEF Sooner, AN!Precedes
<1>3. ASSUME NEW f \in Event, In(accepted, f) PROVE <<f, e>> \in Sooner'
  <2>1. PICK i \in 1..Len(accepted) : accepted'[i] = f
    BY <1>1, <1>3 DEF In
  <2>2. i \in DOMAIN accepted' /\ Len(accepted) + 1 \in DOMAIN accepted' /\ i < Len(accepted) + 1
    BY <1>1
  <2> QED BY <1>1, <2>1, <2>2 DEF Sooner, AN!Precedes
<1> QED BY <1>2, <1>3

(* The loop keeps the order of acceptance as it is.                          *)
LEMMA SameOrder ==
  ASSUME UNCHANGED accepted
  PROVE  Sooner' = Sooner /\ SoonerIfUptime' = SoonerIfUptime /\ SoonerOrLast' = SoonerOrLast
  BY DEF Sooner, SoonerIfUptime, SoonerOrLast, AN!Precedes

LEMMA AnalyticsStep ==
  ASSUME AN!EpochAssumption, AnalyticsInv, [AN!Next]_(AN!analyticsVars)
  PROVE  AnalyticsInv'
<1> USE DEF AN!EpochAssumption
<1>1. ASSUME NEW e \in Event, AN!SendEvent(e) PROVE AnalyticsInv'
  <2>1. /\ accepted \in Seq(Event) /\ mActionQueue \in Seq(Event \cup {"shutdown"})
        /\ accepted' = Append(accepted, e) /\ mActionQueue' = Append(mActionQueue, e)
        /\ UNCHANGED <<mEventQueue, mSysTimeValid, timeAvailable, action, sent>>
        /\ ~In(accepted, e) /\ ~In(mActionQueue, "shutdown")
    BY <1>1 DEF AnalyticsInv, AN!TypeOK, AN!SendEvent, AN!ToSet, In
  <2>2. AN!TypeOK'
    BY <2>1 DEF AnalyticsInv, AN!TypeOK
  <2>3. /\ Sooner \subseteq Sooner'
        /\ \A f \in Event : In(accepted, f) => <<f, e>> \in Sooner'
    BY <2>1, StillSooner
  <2>4. /\ SoonerIfUptime \subseteq SoonerIfUptime' /\ SoonerOrLast \subseteq SoonerOrLast'
    BY <2>3 DEF SoonerIfUptime, SoonerOrLast
  <2>5. /\ \A f : In(accepted', f) <=> In(accepted, f) \/ f = e
        /\ \A f : In(mActionQueue', f) <=> In(mActionQueue, f) \/ f = e
    BY <2>1, Appended
  <2>6. Kept'
    <3>1. Distinct(accepted')
      <4>1. /\ Len(accepted) \in Nat
            /\ DOMAIN accepted = 1..Len(accepted) /\ DOMAIN accepted' = 1..(Len(accepted) + 1)
            /\ accepted'[Len(accepted) + 1] = e
            /\ \A i \in 1..Len(accepted) : accepted'[i] = accepted[i] /\ accepted[i] # e
        BY <2>1 DEF In
      <4>2. \A i \in 1..(Len(accepted) + 1) : i \in 1..Len(accepted) \/ i = Len(accepted) + 1
        BY <4>1
      <4> QED BY <4>1, <4>2 DEF AnalyticsInv, Kept, Distinct
    <3>2. \A f \in Event : In(accepted', f) <=> Somewhere(f)'
      BY <2>1, <2>5 DEF AnalyticsInv, Kept, Somewhere
    <3> QED BY <2>1, <3>1, <3>2 DEF AnalyticsInv, Kept
  <2>7. \A f \in Event : Somewhere(f) => <<f, e>> \in Sooner'
    BY <2>3 DEF AnalyticsInv, Kept
  <2>8. InOrder'
    <3>1. \A f : In(mActionQueue, f) => f \in Event
      BY <2>1 DEF In
    <3>2. Sorted(mActionQueue, SoonerOrLast')
      BY <2>4, SortedMore DEF AnalyticsInv, InOrder
    <3>3. \A f : In(mActionQueue, f) => <<f, e>> \in SoonerOrLast'
      BY <2>7, <3>1 DEF Somewhere, SoonerOrLast
    <3>4. Sorted(mActionQueue', SoonerOrLast')
      BY <2>1, <3>2, <3>3, Appended
    <3> QED BY <2>1, <2>3, <2>4, <3>4, SortedMore DEF AnalyticsInv, InOrder
  <2>9. Passed'
    BY <2>1, <2>3, <2>5, <2>7 DEF AnalyticsInv, Passed, Somewhere
  <2> QED BY <2>1, <2>2, <2>6, <2>8, <2>9 DEF AnalyticsInv
<1>2. ASSUME AN!Shutdown PROVE AnalyticsInv'
  <2>1. /\ mActionQueue \in Seq(Event \cup {"shutdown"})
        /\ mActionQueue' = Append(mActionQueue, "shutdown")
        /\ UNCHANGED <<accepted, mEventQueue, mSysTimeValid, timeAvailable, action, sent>>
        /\ ~In(mActionQueue, "shutdown")
    BY <1>2 DEF AnalyticsInv, AN!TypeOK, AN!Shutdown, AN!ToSet, In
  <2>2. \A f : In(mActionQueue', f) <=> In(mActionQueue, f) \/ f = "shutdown"
    BY <2>1, Appended
  <2>3. AN!TypeOK'
    BY <2>1 DEF AnalyticsInv, AN!TypeOK
  <2>4. \A f : In(mActionQueue, f) => <<f, "shutdown">> \in SoonerOrLast
    BY <2>1 DEF In, SoonerOrLast
  <2>5. Sorted(mActionQueue', SoonerOrLast)
    BY <2>1, <2>4, Appended DEF AnalyticsInv, InOrder
  <2>6. InOrder' /\ Kept' /\ Passed'
    BY <2>1, <2>2, <2>5, SameOrder DEF AnalyticsInv, InOrder, Kept, Passed, Somewhere
  <2> QED BY <2>1, <2>3, <2>6 DEF AnalyticsInv
<1>3. ASSUME AN!TimeBecomesAvailable PROVE AnalyticsInv'
  BY <1>3, SameOrder DEF AN!TimeBecomesAvailable, AnalyticsInv, AN!TypeOK, InOrder, Kept, Passed, Somewhere
<1>4. ASSUME AN!TakeAction PROVE AnalyticsInv'
  <2>1. /\ mActionQueue \in Seq(Event \cup {"shutdown"}) /\ mActionQueue # <<>> /\ action = "none"
        /\ mActionQueue' = Tail(mActionQueue) /\ action' = Head(mActionQueue)
        /\ UNCHANGED <<accepted, mEventQueue, mSysTimeValid, timeAvailable, sent>>
    BY <1>4 DEF AnalyticsInv, AN!TypeOK, AN!TakeAction
  <2>2. /\ mActionQueue' \in Seq(Event \cup {"shutdown"}) /\ action' \in Event \cup {"shutdown"}
        /\ \A f : In(mActionQueue, f) <=> In(mActionQueue', f) \/ f = action'
        /\ Sorted(mActionQueue', SoonerOrLast)
        /\ \A f : In(mActionQueue', f) => <<action', f>> \in SoonerOrLast
    BY <2>1, Taken DEF AnalyticsInv, InOrder
  <2>3. AN!TypeOK'
    BY <2>1, <2>2 DEF AnalyticsInv, AN!TypeOK
  <2>4. Kept' /\ InOrder'
    BY <2>1, <2>2, SameOrder DEF AnalyticsInv, Kept, InOrder, Somewhere
  <2>5. \A f \in Event : In(mActionQueue', f) => <<action', f>> \in Sooner
    BY <2>2 DEF SoonerOrLast
  <2>6. Passed'
    BY <2>1, <2>2, <2>5, SameOrder DEF AnalyticsInv, Passed
  <2> QED BY <2>1, <2>3, <2>4, <2>6 DEF AnalyticsInv
<1>5. ASSUME AN!TimeOut PROVE AnalyticsInv'
  BY <1>5, SameOrder DEF AN!TimeOut, AnalyticsInv, AN!TypeOK, InOrder, Kept, Passed, Somewhere
<1>6. ASSUME AN!PopulateTimeInfo PROVE AnalyticsInv'
  <2>1. /\ action = "populate" /\ action' = "none" /\ mSysTimeValid' = timeAvailable
        /\ UNCHANGED <<accepted, mActionQueue, timeAvailable>>
        /\ sent \in Seq(Event) /\ mEventQueue \in Seq(Event) /\ mEventQueue \in Seq(Event \ Epoch)
    BY <1>6 DEF AnalyticsInv, AN!TypeOK, AN!PopulateTimeInfo
  <2>2. CASE ~timeAvailable
    <3>1. UNCHANGED <<sent, mEventQueue>>
      BY <1>6, <2>2 DEF AN!PopulateTimeInfo
    <3> QED
      BY <2>1, <2>2, <3>1, SameOrder DEF AnalyticsInv, AN!TypeOK, InOrder, Kept, Passed, Somewhere
  <2>3. CASE timeAvailable
    <3>1. sent' = sent \o mEventQueue /\ mEventQueue' = <<>>
      BY <1>6, <2>3 DEF AN!PopulateTimeInfo
    <3>2. /\ sent' \in Seq(Event)
          /\ \A f : In(sent', f) <=> In(sent, f) \/ In(mEventQueue, f)
          /\ \A f : ~In(mEventQueue', f)
      <4>1. \A f : ~In(<<>>, f)
        BY DEF In
      <4> QED BY <2>1, <3>1, <4>1, Joined
    <3>3. AN!TypeOK'
      BY <2>1, <2>3, <3>1, <3>2 DEF AnalyticsInv, AN!TypeOK
    <3>4. Sorted(sent', SoonerIfUptime)
      <4>1. Sorted(mEventQueue, SoonerIfUptime)
        BY SortedMore DEF AnalyticsInv, InOrder, SoonerIfUptime
      <4>2. \A e, f : In(sent, e) /\ In(mEventQueue, f) => <<e, f>> \in SoonerIfUptime
        BY <2>1 DEF AnalyticsInv, Passed, SoonerIfUptime, Uptime, In
      <4> QED BY <2>1, <3>1, <4>1, <4>2, Joined DEF AnalyticsInv, InOrder
    <3>5. Distinct(sent')
      <4>1. \A e, f : In(sent, e) /\ In(mEventQueue, f) => e # f
        <5> SUFFICES ASSUME NEW e, In(sent, e), In(mEventQueue, e) PROVE FALSE
          OBVIOUS
        <5>1. e \in Uptime /\ <<e, e>> \in Sooner
          BY <2>1 DEF In, AnalyticsInv, Passed, Uptime
        <5> QED BY <5>1, SoonerIsAnOrder DEF AnalyticsInv, AN!TypeOK, Kept
      <4>2. Distinct(mEventQueue)
        BY <2>1, SoonerIsAnOrder, SortedIsDistinct DEF AnalyticsInv, AN!TypeOK, Kept, InOrder
      <4> QED BY <2>1, <3>1, <4>1, <4>2, JoinedDistinct DEF AnalyticsInv, Kept
    <3>6. Kept'
      BY <2>1, <3>2, <3>5 DEF AnalyticsInv, Kept, Somewhere
    <3>7. InOrder' /\ Passed'
      BY <2>1, <3>1, <3>2, <3>4, SameOrder DEF AnalyticsInv, InOrder, Passed, Sorted
    <3> QED BY <3>1, <3>3, <3>6, <3>7 DEF AnalyticsInv
  <2> QED BY <2>1, <2>2, <2>3 DEF AnalyticsInv, AN!TypeOK
<1>7. ASSUME AN!HandleEvent PROVE AnalyticsInv'
  <2>1. /\ action \in Event /\ action' = "none"
        /\ UNCHANGED <<accepted, mActionQueue, mSysTimeValid, timeAvailable>>
        /\ sent \in Seq(Event) /\ mEventQueue \in Seq(Event \ Epoch)
        /\ mSysTimeValid \in BOOLEAN
    BY <1>7 DEF AnalyticsInv, AN!TypeOK, AN!HandleEvent
  <2>2. CASE mSysTimeValid \/ action \in Epoch
    <3>1. sent' = Append(sent, action) /\ UNCHANGED mEventQueue
      BY <1>7, <2>2 DEF AN!HandleEvent
    <3>2. /\ sent' \in Seq(Event)
          /\ \A f : In(sent', f) <=> In(sent, f) \/ f = action
      BY <2>1, <3>1, Appended
    <3>3. AN!TypeOK'
      BY <2>1, <3>1, <3>2 DEF AnalyticsInv, AN!TypeOK
    <3>4. \A f : In(sent, f) => <<f, action>> \in Sooner /\ f # action
      <4> SUFFICES ASSUME NEW f, In(sent, f) PROVE <<f, action>> \in Sooner /\ f # action
        OBVIOUS
      <4>1. f \in Event
        BY <2>1 DEF In
      <4>2. <<f, action>> \in Sooner
        BY <2>1, <4>1 DEF AnalyticsInv, Passed
      <4> QED BY <4>2, SoonerIsAnOrder DEF AnalyticsInv, AN!TypeOK, Kept
    <3>5. Sorted(sent', SoonerIfUptime)
      BY <2>1, <3>1, <3>4, Appended DEF AnalyticsInv, InOrder, SoonerIfUptime
    <3>6. Distinct(sent')
      BY <2>1, <3>1, <3>4, AppendedDistinct DEF AnalyticsInv, Kept
    <3>7. Kept'
      BY <2>1, <3>1, <3>2, <3>6 DEF AnalyticsInv, Kept, Somewhere
    <3>8. \A f \in Event : action \in Uptime => ~In(mEventQueue, f)
      BY <2>1, <2>2 DEF AnalyticsInv, In, Uptime
    <3>9. Passed'
      BY <2>1, <3>1, <3>2, <3>8, SameOrder DEF AnalyticsInv, Passed
    <3>10. InOrder'
      BY <2>1, <3>1, <3>5, SameOrder DEF AnalyticsInv, InOrder
    <3> QED BY <2>1, <3>1, <3>3, <3>7, <3>9, <3>10 DEF AnalyticsInv
  <2>3. CASE ~(mSysTimeValid \/ action \in Epoch)
    <3>1. mEventQueue' = Append(mEventQueue, action) /\ UNCHANGED sent
      BY <1>7, <2>3 DEF AN!HandleEvent
    <3>2. /\ mEventQueue' \in Seq(Event \ Epoch)
          /\ \A f : In(mEventQueue', f) <=> In(mEventQueue, f) \/ f = action
      BY <2>1, <2>3, <3>1, Appended
    <3>3. AN!TypeOK'
      BY <2>1, <3>1, <3>2 DEF AnalyticsInv, AN!TypeOK
    <3>4. \A f : In(mEventQueue, f) => f \in Event /\ <<f, action>> \in Sooner
      BY <2>1 DEF AnalyticsInv, Passed, In
    <3>5. Sorted(mEventQueue', Sooner)
      BY <2>1, <2>3, <3>1, <3>4, Appended DEF AnalyticsInv, InOrder
    <3>6. Kept'
      BY <2>1, <3>1, <3>2 DEF AnalyticsInv, Kept, Somewhere
    <3>7. Passed'
      BY <2>1, <3>1, <3>2, SameOrder DEF AnalyticsInv, Passed, Uptime
    <3>8. InOrder'
      BY <2>1, <3>1, <3>5, SameOrder DEF AnalyticsInv, InOrder
    <3> QED BY <2>1, <2>3, <3>1, <3>3, <3>6, <3>7, <3>8 DEF AnalyticsInv
  <2> QED BY <2>2, <2>3
<1>8. ASSUME AN!EndLoop PROVE AnalyticsInv'
  BY <1>8, SameOrder DEF AN!EndLoop, AnalyticsInv, AN!TypeOK, InOrder, Kept, Passed, Somewhere
<1>9. ASSUME AN!OtherEvent \/ AN!HandleOther PROVE AnalyticsInv'
  BY <1>9, SameOrder
     DEF AN!OtherEvent, AN!HandleOther, AnalyticsInv, AN!TypeOK, InOrder, Kept, Passed, Somewhere
<1>10. ASSUME UNCHANGED AN!analyticsVars PROVE AnalyticsInv'
  BY <1>10, SameOrder DEF AN!analyticsVars, AnalyticsInv, AN!TypeOK, InOrder, Kept, Passed, Somewhere
<1> QED
  BY <1>1, <1>2, <1>3, <1>4, <1>5, <1>6, <1>7, <1>8, <1>9, <1>10 DEF AN!Next, AN!Loop

-----------------------------------------------------------------------------
(* Monitor                                                                   *)
Doubles(f, n) == f = [k \in 0..n |-> IF k = 0 THEN 1 ELSE 2 * f[k - 1]]

LEMMA PowersExist == ASSUME NEW n \in Nat PROVE \E f : Doubles(f, n)
<1> DEFINE Has == {m \in Nat : \E f : Doubles(f, m)}
<1>1. 0 \in Has
  <2>1. Doubles([k \in 0..0 |-> 1], 0)
    BY DEF Doubles
  <2> QED BY <2>1
<1>2. ASSUME NEW m \in Nat, m \in Has PROVE m + 1 \in Has
  <2>1. PICK f : Doubles(f, m)
    BY <1>2
  <2> DEFINE g == [k \in 0..(m + 1) |-> IF k = 0 THEN 1 ELSE 2 * f[k - 1]]
  <2>2. \A k \in 0..m : f[k] = g[k]
    BY <2>1 DEF Doubles
  <2>3. \A k \in 0..(m + 1) : k # 0 => k - 1 \in 0..m
    OBVIOUS
  <2>4. g = [k \in 0..(m + 1) |-> IF k = 0 THEN 1 ELSE 2 * g[k - 1]]
    <3> HIDE DEF g
    <3>1. \A k \in 0..(m + 1) : k # 0 => f[k - 1] = g[k - 1]
      BY <2>2, <2>3
    <3> QED BY <3>1 DEF g
  <2>5. Doubles(g, m + 1)
    BY <2>4 DEF Doubles
  <2> HIDE DEF g
  <2> QED BY <2>5
<1> HIDE DEF Has
<1>3. n \in Has
  BY <1>1, <1>2, Inductive
<1> QED
  BY <1>3 DEF Has

LEMMA Powers ==
  ASSUME CountBits \in Nat
  PROVE  /\ MO!TwoTo[0] = 1
         /\ \A k \in 0..CountBits : MO!TwoTo[k] \in Nat \ {0}
         /\ \A k \in 0..CountBits : k # CountBits =>
              MO!TwoTo[k + 1] = 2 * MO!TwoTo[k] /\ MO!TwoTo[k + 1] <= MO!TwoTo[CountBits]
<1>1. Doubles(MO!TwoTo, CountBits)
  BY PowersExist DEF MO!TwoTo, Doubles
<1>2. MO!TwoTo[0] = 1
  BY <1>1 DEF Doubles
<1>3. \A k \in 0..CountBits : k # CountBits => MO!TwoTo[k + 1] = 2 * MO!TwoTo[k]
  <2> SUFFICES ASSUME NEW k \in 0..CountBits, k # CountBits
               PROVE  MO!TwoTo[k + 1] = 2 * MO!TwoTo[k]
    OBVIOUS
  <2>1. k + 1 \in 0..CountBits /\ k + 1 # 0 /\ (k + 1) - 1 = k
    OBVIOUS
  <2> QED BY <1>1, <2>1 DEF Doubles
<1>4. \A k \in 0..CountBits : MO!TwoTo[k] \in Nat \ {0}
  <2> DEFINE Positive == {k \in Nat : k \in 0..CountBits => MO!TwoTo[k] \in Nat \ {0}}
  <2>1. 0 \in Positive
    BY <1>2
  <2>2. ASSUME NEW k \in Nat, k \in Positive PROVE k + 1 \in Positive
    <3> SUFFICES ASSUME k + 1 \in 0..CountBits PROVE MO!TwoTo[k + 1] \in Nat \ {0}
      OBVIOUS
    <3>1. k \in 0..CountBits /\ k # CountBits
      OBVIOUS
    <3> QED BY <1>3, <2>2, <3>1
  <2> HIDE DEF Positive
  <2>3. Nat \subseteq Positive
    BY <2>1, <2>2, Inductive
  <2> QED BY <2>3 DEF Positive
<1>5. \A k \in 0..CountBits : MO!TwoTo[k] <= MO!TwoTo[CountBits]
  <2> DEFINE Below == {d \in Nat : d \in 0..CountBits =>
                                    MO!TwoTo[CountBits - d] <= MO!TwoTo[CountBits]}
  <2>1. 0 \in Below
    BY <1>4
  <2>2. ASSUME NEW d \in Nat, d \in Below PROVE d + 1 \in Below
    <3> SUFFICES ASSUME d + 1 \in 0..CountBits
                 PROVE  MO!TwoTo[CountBits - (d + 1)] <= MO!TwoTo[CountBits]
      OBVIOUS
    <3> DEFINE k == CountBits - (d + 1)
    <3>1. k \in 0..CountBits /\ k # CountBits /\ k + 1 = CountBits - d /\ k + 1 \in 0..CountBits
          /\ d \in 0..CountBits
      OBVIOUS
    <3>2. MO!TwoTo[k + 1] <= MO!TwoTo[CountBits]
      BY <2>2, <3>1
    <3>3. MO!TwoTo[k + 1] = 2 * MO!TwoTo[k]
      BY <1>3, <3>1
    <3>4. MO!TwoTo[k] \in Nat /\ MO!TwoTo[k + 1] \in Nat /\ MO!TwoTo[CountBits] \in Nat
      BY <1>4, <3>1
    <3> HIDE DEF k
    <3>5. MO!TwoTo[k] <= MO!TwoTo[CountBits]
      BY <3>2, <3>3, <3>4
    <3> QED BY <3>5 DEF k
  <2> HIDE DEF Below
  <2>3. Nat \subseteq Below
    BY <2>1, <2>2, Inductive
  <2> SUFFICES ASSUME NEW k \in 0..CountBits PROVE MO!TwoTo[k] <= MO!TwoTo[CountBits]
    OBVIOUS
  <2>4. CountBits - k \in 0..CountBits /\ CountBits - k \in Nat /\ CountBits - (CountBits - k) = k
    OBVIOUS
  <2> QED BY <2>3, <2>4 DEF Below
<1> QED
  <2>1. \A k \in 0..CountBits : k # CountBits => k + 1 \in 0..CountBits
    OBVIOUS
  <2> QED BY <1>2, <1>3, <1>4, <1>5, <2>1

(* What RegisterRestart makes of the count: one more than twice as much, and *)
(* at the end of its range it stays as it is.                                *)
Counts == {MO!TwoTo[k] - 1 : k \in 0..CountBits}

LEMMA Modulo ==
  ASSUME NEW m \in Nat \ {0}, NEW r \in Nat, r < m
  PROVE  r % m = r /\ (m + r) % m = r
<1>1. r % m = r
  OBVIOUS
<1>2. (m + r) % m = r
  OBVIOUS
<1> QED BY <1>1, <1>2

LEMMA CountGrows ==
  ASSUME CountBits \in Nat, NEW c \in Counts
  PROVE  /\ c \in MO!Bits /\ 0 \in Counts
         /\ (c + c + 1) % MO!TwoTo[CountBits] \in Counts
         /\ \A n \in MO!Bits : n <= c + 1 => n <= (c + c + 1) % MO!TwoTo[CountBits]
<1> DEFINE m == MO!TwoTo[CountBits]
<1>1. PICK k \in 0..CountBits : c = MO!TwoTo[k] - 1
  BY DEF Counts
<1>2. m \in Nat \ {0} /\ MO!TwoTo[k] \in Nat \ {0}
  BY Powers
<1>3. 0 \in Counts
  BY Powers DEF Counts
<1>4. CASE k = CountBits
  <2>1. c + c + 1 = m + c /\ c \in Nat /\ c < m
    BY <1>1, <1>2, <1>4
  <2>2. (c + c + 1) % m = c
    BY <1>2, <2>1, Modulo
  <2> QED BY <1>1, <1>2, <1>3, <1>4, <2>2 DEF MO!Bits, Counts
<1>5. CASE k # CountBits
  <2>1. MO!TwoTo[k + 1] = 2 * MO!TwoTo[k] /\ MO!TwoTo[k + 1] <= m /\ k + 1 \in 0..CountBits
    BY <1>1, <1>5, Powers
  <2>2. c + c + 1 = MO!TwoTo[k + 1] - 1 /\ c + c + 1 \in Nat /\ c + c + 1 < m
    BY <1>1, <1>2, <2>1
  <2>3. (c + c + 1) % m = c + c + 1
    BY <1>2, <2>2, Modulo
  <2>4. c \in MO!Bits
    BY <1>1, <1>2, <2>1 DEF MO!Bits
  <2>5. (c + c + 1) % m \in Counts
    BY <2>1, <2>2, <2>3 DEF Counts
  <2>6. \A n \in MO!Bits : n <= c + 1 => n <= c + c + 1
    BY <1>1, <1>2 DEF MO!Bits
  <2> HIDE DEF m
  <2> QED BY <1>3, <2>3, <2>4, <2>5, <2>6 DEF m
<1> QED
  BY <1>4, <1>5

-----------------------------------------------------------------------------
(* Unless the Monitor has given the plugin up, it has been restarted at most *)
(* once more than the count says, which is none after the first restart and  *)
(* grows with each.                                                          *)
MonitorInv ==
  /\ MO!TypeOK
  /\ _restartCount \in Counts
  /\ plugin # "deactivated" \/ decision # "StoppedRestaring" => restarts <= _restartCount + 1

LEMMA MonitorInit == ASSUME MO!Init PROVE MonitorInv
<1>1. CountBits \in Nat /\ MaxJobs \in Nat
  BY MonitorConstants DEF MonitorConstants, MO!WidthAssumption
<1>2. 0 \in Counts /\ 0 \in MO!Bits
  BY <1>1, Powers DEF MO!Bits, Counts
<1>3. MO!TypeOK
  <2>1. _active \in BOOLEAN /\ activate \in BOOLEAN /\ windowOpen \in BOOLEAN
    BY DEF MO!Init
  <2>2. deactivate \in 0..MaxJobs
    BY <1>1 DEF MO!Init
  <2>3. plugin \in {"healthy", "failing", "deactivated"}
    BY DEF MO!Init
  <2>4. decision \in {"none", "Activate", "StoppedRestaring", "requested"}
    BY DEF MO!Init
  <2> QED BY <1>2, <2>1, <2>2, <2>3, <2>4 DEF MO!Init, MO!TypeOK
<1>4. restarts <= _restartCount + 1
  BY DEF MO!Init
<1> QED
  BY <1>2, <1>3, <1>4 DEF MO!Init, MonitorInv

LEMMA RegisterStep ==
  ASSUME MonitorInv, plugin # "deactivated", MO!RegisterRestart
  PROVE  /\ _restartCount' \in Counts \cap MO!Bits
         /\ failures' \in MO!Bits /\ restarts' \in MO!Bits
         /\ activate' \in BOOLEAN /\ windowOpen' \in BOOLEAN
         /\ decision' \in {"Activate", "StoppedRestaring"}
         /\ decision' = "Activate" => restarts' <= _restartCount' + 1
         /\ restarts' > restarts => _restartLimit = 0 \/ restarts' <= _restartLimit
<1>1. /\ CountBits \in Nat /\ _restartLimit \in Nat /\ _restartWindow \in Nat
      /\ _restartCount \in Counts /\ restarts \in MO!Bits /\ failures \in MO!Bits
      /\ restarts <= _restartCount + 1
      /\ activate \in BOOLEAN /\ windowOpen \in BOOLEAN
  BY MonitorConstants DEF MonitorConstants, MO!WidthAssumption, MO!LimitsAssumption, MonitorInv,
     MO!TypeOK
<1>2. MO!Bits \subseteq Nat /\ Counts \subseteq MO!Bits /\ 0 \in Counts /\ 1 \in MO!Bits
  <2>1. 0 \in 0..CountBits /\ 0 # CountBits /\ 0 + 1 = 1
    BY MonitorConstants DEF MonitorConstants, MO!WidthAssumption
  <2>2. MO!TwoTo[0] = 1 /\ MO!TwoTo[1] = 2 * MO!TwoTo[0] /\ MO!TwoTo[1] <= MO!TwoTo[CountBits]
        /\ MO!TwoTo[CountBits] \in Nat
    BY <1>1, <2>1, Powers
  <2> QED BY <1>1, <2>2, CountGrows DEF MO!Bits
<1>3. /\ MO!Counted \in Counts
      /\ MO!WithinWindow => restarts <= MO!Counted
      /\ ~MO!WithinWindow => MO!Counted = 0
  BY <1>1, CountGrows DEF MO!Counted
<1>4. \A n \in MO!Bits : MO!OneMore(n) \in MO!Bits /\ MO!OneMore(n) <= n + 1
  BY <1>2 DEF MO!OneMore
<1>5. /\ _restartCount' \in Counts \cap MO!Bits /\ activate' \in BOOLEAN /\ windowOpen' \in BOOLEAN
      /\ decision' \in {"Activate", "StoppedRestaring"}
  BY <1>1, <1>2, <1>3 DEF MO!RegisterRestart
<1>6. \/ decision' = "StoppedRestaring" /\ restarts' = restarts
      \/ /\ decision' = "Activate" /\ _restartCount' = MO!Counted
         /\ _restartLimit = 0 \/ MO!Counted < _restartLimit
         /\ \/ MO!WithinWindow /\ restarts' = MO!OneMore(restarts)
            \/ ~MO!WithinWindow /\ restarts' = 1
  BY DEF MO!RegisterRestart, MO!MayRestart
<1>7. MO!Counted \in Nat /\ restarts \in Nat /\ MO!OneMore(restarts) \in Nat
  BY <1>1, <1>2, <1>3, <1>4
<1> DEFINE Limited == /\ restarts' \in MO!Bits
                      /\ decision' = "Activate" => restarts' <= _restartCount' + 1
                      /\ restarts' > restarts => _restartLimit = 0 \/ restarts' <= _restartLimit
<1>8. ASSUME decision' = "StoppedRestaring", restarts' = restarts PROVE Limited
  BY <1>1, <1>7, <1>8
<1>9. ASSUME decision' = "Activate", MO!WithinWindow, restarts' = MO!OneMore(restarts)
      PROVE  Limited
  <2>1. restarts' \in MO!Bits /\ restarts' <= restarts + 1 /\ restarts <= MO!Counted
    BY <1>1, <1>3, <1>4, <1>9
  <2>2. restarts' <= _restartCount' + 1
    BY <1>6, <1>7, <1>9, <2>1
  <2>3. _restartLimit = 0 \/ restarts' <= _restartLimit
    BY <1>1, <1>6, <1>7, <1>9, <2>1
  <2> QED BY <2>1, <2>2, <2>3
<1>10. ASSUME decision' = "Activate", ~MO!WithinWindow, restarts' = 1 PROVE Limited
  <2>1. MO!Counted = 0 /\ _restartCount' = 0 /\ (_restartLimit = 0 \/ 0 < _restartLimit)
    BY <1>3, <1>6, <1>10
  <2> QED BY <1>1, <1>2, <1>10, <2>1
<1>11. failures' \in MO!Bits
  BY <1>1, <1>2, <1>4 DEF MO!RegisterRestart
<1>12. Limited
  BY <1>6, <1>8, <1>9, <1>10
<1> QED
  BY <1>5, <1>11, <1>12

LEMMA MonitorStep ==
  ASSUME MonitorInv, [MO!Next]_(MO!monitorVars)
  PROVE  /\ MonitorInv'
         /\ restarts' > restarts => _restartLimit = 0 \/ restarts' <= _restartLimit
<1>1. /\ MaxJobs \in Nat /\ restarts \in Nat /\ 0 \in MO!Bits /\ deactivate \in 0..MaxJobs
      /\ ~(restarts > restarts) /\ 0 <= _restartCount + 1 /\ ~(0 > restarts)
  BY MonitorConstants, CountGrows, Powers
     DEF MonitorConstants, MO!WidthAssumption, MonitorInv, MO!TypeOK, MO!Bits
<1>2. CASE MO!Dispatch
  BY <1>1, <1>2 DEF MO!Dispatch, MonitorInv, MO!TypeOK, MO!limitVars, MO!countVars
<1>3. CASE MO!DeactivateJob
  <2>1. CASE plugin = "deactivated"
    BY <1>1, <1>3, <2>1
       DEF MO!DeactivateJob, MonitorInv, MO!TypeOK, MO!limitVars, MO!countVars
  <2>2. CASE plugin # "deactivated"
    <3>1. /\ deactivate' \in 0..MaxJobs /\ MO!Deinitialized(TRUE)
          /\ plugin' = "deactivated" /\ _active' = FALSE
          /\ UNCHANGED <<_restartWindow, _restartLimit>>
      BY <1>1, <1>3, <2>2 DEF MO!DeactivateJob, MO!Deinitialized, MO!limitVars
    <3>2. CASE RestartAllowed
      <4>1. MO!RegisterRestart
        BY <3>1, <3>2 DEF MO!Deinitialized
      <4>2. MO!TypeOK'
        BY <2>2, <3>1, <4>1, RegisterStep DEF MonitorInv, MO!TypeOK
      <4> QED BY <2>2, <3>1, <4>1, <4>2, RegisterStep DEF MonitorInv
    <3>3. CASE ~RestartAllowed
      BY <1>1, <2>2, <3>1, <3>3 DEF MO!Deinitialized, MonitorInv, MO!TypeOK
    <3> QED BY <3>2, <3>3
  <2> QED BY <2>1, <2>2
<1>4. CASE MO!ActivateJob
  BY <1>1, <1>4
     DEF MO!ActivateJob, MO!Activated, MonitorInv, MO!TypeOK, MO!limitVars, MO!countVars
<1>5. CASE MO!Misbehave
  BY <1>1, <1>5 DEF MO!Misbehave, MonitorInv, MO!TypeOK, MO!limitVars, MO!countVars
<1>6. CASE MO!Request
  BY <1>1, <1>6
     DEF MO!Request, MO!Activated, MO!Deinitialized, MonitorInv, MO!TypeOK, MO!limitVars
<1>7. CASE MO!WindowEnds
  BY <1>1, <1>7 DEF MO!WindowEnds, MonitorInv, MO!TypeOK, MO!limitVars, MO!countVars
<1>8. CASE MO!UpdateRestartLimits
  BY <1>1, <1>8 DEF MO!UpdateRestartLimits, MonitorInv, MO!TypeOK, MO!countVars
<1>9. CASE UNCHANGED MO!monitorVars
  BY <1>1, <1>9 DEF MO!monitorVars, MonitorInv, MO!TypeOK, MO!limitVars, MO!countVars
<1> QED
  BY <1>2, <1>3, <1>4, <1>5, <1>6, <1>7, <1>8, <1>9 DEF MO!Next

-----------------------------------------------------------------------------
(* PackageDownloader.  A download is in one place: queued once, in hand, or  *)
(* reported; what is reported as done, or is about to be, has its file, until*)
(* the file is deleted.                                                      *)
Different == {p \in DownloadId \X DownloadId : p[1] # p[2]}

InHand == {"attempt", "perform", "sleep", "notify"}

DownloadInv ==
  /\ PD!TypeOK
  /\ Sorted(mDownloadQueue, Different)
  /\ \A d \in DownloadId : In(mDownloadQueue, d) => reason[d] = "none" /\ d # mInprogressDownload
  /\ at \in InHand => mInprogressDownload \in DownloadId /\ reason[mInprogressDownload] = "none"
  /\ at \notin InHand /\ mInprogressDownload \in DownloadId =>
       at = "reset" /\ reason[mInprogressDownload] # "none"
  /\ at \in {"attempt", "sleep"} => attempt < Retries
  /\ at = "notify" /\ httpStatus = "Success" => file[mInprogressDownload] = "complete"
  /\ at = "sleep" => httpStatus # "Success"
  /\ \A d \in DownloadId : reason[d] = "NONE" => file[d] \in {"complete", "absent"}

LEMMA DownloadConstants ==
  /\ Retries \in Nat \ {0} /\ "none" \notin DownloadId
  /\ <<>> \in Seq(DownloadId) /\ \A c : ~In(<<>>, c)
<1>1. Retries \in Nat \ {0} /\ "none" \notin DownloadId
  BY PackageDownloaderConstants
     DEF PackageDownloaderConstants, PD!RetriesAssumption, PD!DownloadIdAssumption
<1> QED BY <1>1 DEF In

LEMMA DownloadInit == ASSUME PD!Init PROVE DownloadInv
<1>1. PD!TypeOK
  <2>1. 0 \in 0..Retries /\ <<>> \in Seq(DownloadId)
    BY DownloadConstants
  <2>2. done \in BOOLEAN /\ bCancel \in BOOLEAN /\ aborted \in BOOLEAN /\ paused \in BOOLEAN
    BY DEF PD!Init
  <2> QED BY <2>1, <2>2 DEF PD!Init, PD!TypeOK, PD!Status, PD!NoDownload, PD!NoCall
<1>2. Sorted(<<>>, Different)
  BY DEF Sorted
<1> QED
  BY <1>1, <1>2, DownloadConstants DEF PD!Init, PD!NoDownload, DownloadInv, InHand

LEMMA DownloadStep ==
  ASSUME DownloadInv, [PD!Next]_(PD!downloaderVars) PROVE DownloadInv'
<1> USE DEF PD!queueVars, PD!attemptVars, PD!cancelVars, PD!callerVars, PD!Goto, PD!NoDownload,
            PD!NoCall, InHand
<1>0. /\ \A c : In(mDownloadQueue, c) <=> c \in PD!ToSet(mDownloadQueue)
      /\ mDownloadQueue \in Seq(DownloadId)
  BY DEF In, PD!ToSet, DownloadInv, PD!TypeOK
<1>1. ASSUME NEW d \in DownloadId, NEW priority \in BOOLEAN, PD!Download(d, priority)
      PROVE  DownloadInv'
  <2>1. /\ ~In(mDownloadQueue, d) /\ d # mInprogressDownload /\ reason[d] = "none"
        /\ mDownloadQueue' = IF priority THEN <<d>> \o mDownloadQueue ELSE Append(mDownloadQueue, d)
        /\ at' = IF at = "block" THEN "next" ELSE at
        /\ UNCHANGED <<mInprogressDownload, done, attempt, httpStatus, file, reason, cancelled,
                       bCancel, paused, calling, aborted>>
    BY <1>0, <1>1 DEF PD!Download, PD!Accepted, PD!Queued, PD!Woken
  <2>2. <<d>> \in Seq(DownloadId) /\ Sorted(<<d>>, Different) /\ \A e : In(<<d>>, e) <=> e = d
    BY DEF Sorted, In
  <2>3. /\ \A e : In(mDownloadQueue, e) => <<e, d>> \in Different /\ <<d, e>> \in Different
        /\ Sorted(mDownloadQueue, Different)
    BY <1>0, <2>1 DEF Different, In, DownloadInv
  <2>4. /\ mDownloadQueue' \in Seq(DownloadId) /\ Sorted(mDownloadQueue', Different)
        /\ \A e : In(mDownloadQueue', e) <=> In(mDownloadQueue, e) \/ e = d
    <3>1. CASE priority
      BY <1>0, <2>1, <2>2, <2>3, <3>1, Joined
    <3>2. CASE ~priority
      BY <1>0, <2>1, <2>3, <3>2, Appended
    <3> QED BY <3>1, <3>2
  <2>5. PD!TypeOK'
    BY <2>1, <2>4 DEF DownloadInv, PD!TypeOK
  <2> QED BY <2>1, <2>4, <2>5 DEF DownloadInv
<1>2. ASSUME NEW c \in DownloadCaller, NEW call \in {"Pause", "Resume", "Cancel", "Delete"},
             PD!FindInprogress(c, call)
      PROVE  DownloadInv'
  BY <1>2 DEF PD!FindInprogress, DownloadInv, PD!TypeOK
<1>3. ASSUME NEW c \in DownloadCaller, PD!Pause(c) \/ PD!Resume(c) \/ PD!Cancel(c)
      PROVE  DownloadInv'
  <2>1. PD!Uses(c, "Pause") \/ PD!Uses(c, "Resume") \/ PD!Uses(c, "Cancel")
    BY <1>3 DEF PD!Pause, PD!Resume, PD!Cancel
  <2>2. /\ calling' \in [DownloadCaller -> {"Pause", "Resume", "Cancel", "Delete", "none"}]
        /\ aborted' \in BOOLEAN
        /\ UNCHANGED <<mDownloadQueue, mInprogressDownload, at, done, attempt, httpStatus, reason>>
    BY <2>1 DEF PD!Uses, DownloadInv, PD!TypeOK
  <2>3. paused' \in BOOLEAN /\ bCancel' \in BOOLEAN /\ cancelled' \subseteq DownloadId
    BY <1>3 DEF PD!Pause, PD!Resume, PD!Cancel, DownloadInv, PD!TypeOK
  <2>4. UNCHANGED file
    BY <1>3 DEF PD!Pause, PD!Resume, PD!Cancel
  <2> QED BY <2>2, <2>3, <2>4 DEF DownloadInv, PD!TypeOK
<1>4. ASSUME NEW c \in DownloadCaller, PD!Delete(c) PROVE DownloadInv'
  <2>1. /\ calling' \in [DownloadCaller -> {"Pause", "Resume", "Cancel", "Delete", "none"}]
        /\ aborted' \in BOOLEAN
        /\ UNCHANGED <<mDownloadQueue, mInprogressDownload, at, done, attempt, httpStatus, reason,
                       cancelled, bCancel, paused>>
    BY <1>4 DEF PD!Delete, PD!Uses, DownloadInv, PD!TypeOK
  <2>2. UNCHANGED file \/ (\E d \in DownloadId : PD!RemoveFile(d))
    BY <1>4 DEF PD!Delete
  <2>3. CASE UNCHANGED file
    BY <2>1, <2>3 DEF DownloadInv, PD!TypeOK
  <2>4. ASSUME NEW d \in DownloadId, PD!RemoveFile(d) PROVE DownloadInv'
    <3>1. reason[d] # "none" /\ file' = [file EXCEPT ![d] = "absent"]
      BY <2>4 DEF PD!RemoveFile
    <3>2. PD!TypeOK'
      BY <2>1, <3>1 DEF DownloadInv, PD!TypeOK
    <3> QED BY <2>1, <3>1, <3>2 DEF DownloadInv, PD!TypeOK
  <2> QED BY <2>2, <2>3, <2>4
<1>5. ASSUME PD!Deinitialize PROVE DownloadInv'
  BY <1>5 DEF PD!Deinitialize, PD!Woken, DownloadInv, PD!TypeOK
<1>6. ASSUME PD!getNext PROVE DownloadInv'
  <2>1. /\ at = "next" /\ attempt' = 0 /\ 0 \in 0..Retries /\ 0 < Retries
        /\ UNCHANGED <<done, httpStatus, file, reason, cancelled, bCancel, paused, calling,
                       aborted>>
    BY <1>6, DownloadConstants DEF PD!getNext
  <2>2. CASE at' \in {"ended", "look"} /\ UNCHANGED <<mDownloadQueue, mInprogressDownload>>
    BY <2>1, <2>2 DEF DownloadInv, PD!TypeOK
  <2>3. CASE /\ mDownloadQueue # <<>> /\ at' = "attempt"
             /\ mInprogressDownload' = Head(mDownloadQueue) /\ mDownloadQueue' = Tail(mDownloadQueue)
    <3>1. /\ mDownloadQueue' \in Seq(DownloadId) /\ mInprogressDownload' \in DownloadId
          /\ \A e : In(mDownloadQueue, e) <=> In(mDownloadQueue', e) \/ e = mInprogressDownload'
          /\ Sorted(mDownloadQueue', Different)
          /\ \A e : In(mDownloadQueue', e) => <<mInprogressDownload', e>> \in Different
      BY <1>0, <2>3, Taken DEF DownloadInv
    <3>2. PD!TypeOK'
      BY <2>1, <2>3, <3>1 DEF DownloadInv, PD!TypeOK
    <3> QED BY <2>1, <2>3, <3>1, <3>2 DEF DownloadInv, Different
  <2> QED BY <1>6, <2>2, <2>3 DEF PD!getNext
<1>7. ASSUME PD!LookForWork PROVE DownloadInv'
  BY <1>7 DEF PD!LookForWork, DownloadInv, PD!TypeOK
<1>8. ASSUME PD!Block PROVE DownloadInv'
  BY <1>8 DEF PD!Block, DownloadInv, PD!TypeOK
<1>9. ASSUME PD!StartAttempt PROVE DownloadInv'
  <2>1. attempt' \in 0..Retries
    BY <1>9, DownloadConstants DEF PD!StartAttempt, DownloadInv, PD!TypeOK
  <2> QED BY <1>9, <2>1 DEF PD!StartAttempt, DownloadInv, PD!TypeOK
<1>10. ASSUME NEW outcome \in PD!Status,
              NEW content \in {"absent", "partial", "page", "complete"},
              outcome = "Success" => content = "complete", PD!Attempted(outcome, content)
       PROVE  DownloadInv'
  <2>1. mInprogressDownload \in DownloadId /\ reason[mInprogressDownload] = "none"
    BY <1>10 DEF PD!Attempted, DownloadInv
  <2>2. PD!TypeOK'
    BY <1>10, <2>1 DEF PD!Attempted, DownloadInv, PD!TypeOK
  <2>3. at' = "sleep" => attempt < Retries
    BY <1>10, DownloadConstants DEF PD!Attempted, DownloadInv, PD!TypeOK
  <2>4. file'[mInprogressDownload] = content /\ httpStatus' = outcome
    BY <1>10, <2>1 DEF PD!Attempted, DownloadInv, PD!TypeOK
  <2>5. \A d \in DownloadId : reason[d] = "NONE" => file'[d] = file[d]
    BY <1>10, <2>1 DEF PD!Attempted, DownloadInv, PD!TypeOK
  <2> QED BY <1>10, <2>1, <2>2, <2>3, <2>4, <2>5 DEF PD!Attempted, DownloadInv
<1>11. ASSUME PD!Perform PROVE DownloadInv'
  <2>1. file[mInprogressDownload] \in {"absent", "partial", "page", "complete"}
    BY <1>11 DEF PD!Perform, PD!Attempted, DownloadInv, PD!TypeOK
  <2> QED BY <1>10, <1>11, <2>1 DEF PD!Perform, PD!Status
<1>12. ASSUME PD!Sleep PROVE DownloadInv'
  BY <1>12 DEF PD!Sleep, DownloadInv, PD!TypeOK
<1>13. ASSUME PD!NotifyDownloadStatus PROVE DownloadInv'
  BY <1>13 DEF PD!NotifyDownloadStatus, PD!Reason, PD!Status, DownloadInv, PD!TypeOK
<1>14. ASSUME PD!ResetInprogress PROVE DownloadInv'
  BY <1>14, DownloadConstants DEF PD!ResetInprogress, DownloadInv, PD!TypeOK
<1>15. ASSUME UNCHANGED PD!downloaderVars PROVE DownloadInv'
  BY <1>15 DEF PD!downloaderVars, DownloadInv, PD!TypeOK
<1> QED
  BY <1>1, <1>2, <1>3, <1>4, <1>5, <1>6, <1>7, <1>8, <1>9, <1>11, <1>12, <1>13, <1>14, <1>15
     DEF PD!Next, PD!Downloader, PD!Callers

-----------------------------------------------------------------------------
(* WindowManager.  A caller that waits has its request in the queue or has   *)
(* been served, unless the plugin was deinitialised; a caller is served once *)
(* it has asked, and a display is made for a caller that is served.          *)
WindowInv ==
  /\ WM!TypeOK
  /\ \A c \in DisplayCaller :
       /\ pc[c] = "waiting" => In(gCreateDisplayRequests, c) \/ c \in posted \/ ~sRunning
       /\ In(gCreateDisplayRequests, c) => pc[c] = "waiting" /\ c \notin posted
       /\ c \in posted => pc[c] \in {"waiting", "created", "refused"}
       /\ pc[c] = "created" => c \in mResult
       /\ c \in mResult => c \in posted
  /\ sRunning => deinitialize = "none" /\ shellThread # "ended"
  /\ deinitialize = "joined" => shellThread = "ended"

LEMMA WindowInit == ASSUME WM!Init PROVE WindowInv
<1>1. <<>> \in Seq(DisplayCaller) /\ \A c : ~In(<<>>, c)
  BY DEF In
<1>2. MaxDeinits \in Nat
  BY WindowManagerConstants DEF WindowManagerConstants, WM!CompositorAssumption
<1>3. WM!TypeOK
  BY <1>1, <1>2 DEF WM!Init, WM!TypeOK
<1> QED
  BY <1>1, <1>3 DEF WM!Init, WindowInv

LEMMA WindowStep ==
  ASSUME WindowInv, [WM!Next]_(WM!windowVars) PROVE WindowInv'
<1> USE DEF WM!callerVars, WM!threadVars, WM!Goto
<1>0. /\ \A c : In(gCreateDisplayRequests, c) <=> c \in WM!ToSet(gCreateDisplayRequests)
      /\ gCreateDisplayRequests \in Seq(DisplayCaller)
      /\ <<>> \in Seq(DisplayCaller) /\ \A c : ~In(<<>>, c)
      /\ \A c \in DisplayCaller : ClientOf[c] \in WM!Client
  BY DEF In, WM!ToSet, WindowInv, WM!TypeOK, WM!Client
<1>1. ASSUME NEW c \in DisplayCaller, WM!IsRequested(c) PROVE WindowInv'
  BY <1>1 DEF WM!IsRequested, WindowInv, WM!TypeOK
<1>2. ASSUME NEW c \in DisplayCaller, WM!IsClient(c) PROVE WindowInv'
  BY <1>2 DEF WM!IsClient, WindowInv, WM!TypeOK
<1>3. ASSUME NEW c \in DisplayCaller, WM!PushRequest(c) PROVE WindowInv'
  <2>1. /\ gCreateDisplayRequests' \in Seq(DisplayCaller)
        /\ \A d : In(gCreateDisplayRequests', d) <=> In(gCreateDisplayRequests, d) \/ d = c
    BY <1>0, <1>3, Appended DEF WM!PushRequest
  <2>2. WM!TypeOK'
    BY <1>3, <2>1 DEF WM!PushRequest, WindowInv, WM!TypeOK
  <2> QED BY <1>3, <2>1, <2>2 DEF WM!PushRequest, WindowInv, WM!TypeOK
<1>4. ASSUME NEW c \in DisplayCaller, WM!SemWait(c) PROVE WindowInv'
  BY <1>4 DEF WM!SemWait, WindowInv, WM!TypeOK
<1>5. CASE WM!StartThread
  BY <1>5 DEF WM!StartThread, WindowInv, WM!TypeOK
<1>6. CASE WM!Frame
  <2>1. PICK made \in SUBSET WM!ServedRequests :
          /\ mResult' = mResult \cup made
          /\ clients' = clients \cup {ClientOf[r] : r \in made}
    BY <1>6 DEF WM!Frame
  <2>2. /\ posted' = posted \cup WM!ServedRequests /\ gCreateDisplayRequests' = <<>>
        /\ shellThread' = IF sRunning THEN "frame" ELSE "ended"
        /\ UNCHANGED <<pc, sRunning, deinitialize, deinits>> /\ shellThread = "frame"
    BY <1>6 DEF WM!Frame
  <2>3. WM!ServedRequests \subseteq DisplayCaller
    BY <1>0 DEF WM!ServedRequests, WM!ToSet
  <2>4. WM!TypeOK'
    BY <1>0, <2>1, <2>2, <2>3 DEF WindowInv, WM!TypeOK
  <2> QED BY <1>0, <2>1, <2>2, <2>3, <2>4 DEF WindowInv, WM!TypeOK, WM!ServedRequests
<1>7. CASE WM!Join
  BY <1>7 DEF WM!Join, WindowInv, WM!TypeOK
<1>8. CASE WM!DropRequests
  BY <1>0, <1>8 DEF WM!DropRequests, WindowInv, WM!TypeOK
<1>9. CASE WM!Initialize
  BY <1>9 DEF WM!Initialize, WindowInv, WM!TypeOK
<1>10. CASE WM!BeginDeinitialize
  <2>1. MaxDeinits \in Nat
    BY WindowManagerConstants DEF WindowManagerConstants, WM!CompositorAssumption
  <2>2. deinits' \in 0..MaxDeinits
    BY <1>10, <2>1 DEF WM!BeginDeinitialize, WindowInv, WM!TypeOK
  <2> QED BY <1>10, <2>2 DEF WM!BeginDeinitialize, WindowInv, WM!TypeOK
<1>11. CASE UNCHANGED WM!windowVars
  BY <1>11 DEF WM!windowVars, WindowInv, WM!TypeOK
<1> QED
  BY <1>1, <1>2, <1>3, <1>4, <1>5, <1>6, <1>7, <1>8, <1>9, <1>10, <1>11 DEF WM!Next, WM!Background

-----------------------------------------------------------------------------
(* AppGateway.  What is on its way to a connection, and what has reached it, *)
(* is the answer to something it asked for; the event goes to connections    *)
(* that have asked to listen.                                                *)
Due(c, what) == IF what = "event" THEN "listen" \in asked[c] ELSE what \in asked[c]

GatewayInv ==
  /\ AG!GatewayTypeOK
  /\ \A job \in wsJobs : Due(job.of, job.what) /\ (job.what = "event" => job.kind = "Respond")
  /\ \A c \in mSubscribers : "listen" \in asked[c]
  /\ \A c \in GatewayClient : \A what \in received[c] : Due(c, what)

LEMMA GatewayInit == ASSUME AG!GatewayInit PROVE GatewayInv
  BY DEF AG!GatewayInit, AG!Init, GatewayInv, AG!GatewayTypeOK, AG!TypeOK

LEMMA GatewayStep ==
  ASSUME GatewayInv, [AG!Next]_(AG!vars) PROVE GatewayInv'
<1> USE DEF AG!notifyVars, AG!gatewayVars, AG!Message, AG!GatewayTypeOK, AG!TypeOK
<1>1. ASSUME NEW c \in GatewayClient, AG!AuthHandler(c) PROVE GatewayInv'
  BY <1>1 DEF AG!AuthHandler, GatewayInv, Due
<1>2. ASSUME NEW c \in GatewayClient, NEW what \in AG!Method, AG!MessageHandler(c, what) PROVE GatewayInv'
  <2>1. /\ asked' = [asked EXCEPT ![c] = @ \cup {what}]
        /\ wsJobs' = wsJobs \cup {[kind |-> "WsMsg", of |-> c, what |-> what]}
        /\ UNCHANGED <<mSubscribers, received, dropped, connection, mAppIdMap, leaving,
                       subscriberJobs, mRegisteredNotifications, listening, emitJob, stopped>>
    BY <1>2 DEF AG!MessageHandler
  <2>2. [kind |-> "WsMsg", of |-> c, what |-> what] \in AG!WsJob /\ what # "event"
    BY DEF AG!WsJob, AG!Method
  <2>3. AG!GatewayTypeOK'
    BY <2>1, <2>2 DEF GatewayInv
  <2>4. /\ \A d \in GatewayClient : asked[d] \subseteq asked'[d]
        /\ what \in asked'[c]
    BY <2>1 DEF GatewayInv
  <2>5. \A d \in GatewayClient : \A w : Due(d, w) => Due(d, w)'
    BY <2>4 DEF Due
  <2>6. \A job \in wsJobs : job.of \in GatewayClient
    BY DEF GatewayInv, AG!WsJob
  <2> QED BY <2>1, <2>2, <2>3, <2>4, <2>5, <2>6 DEF GatewayInv, Due
<1>3. ASSUME NEW c \in GatewayClient, AG!DisconnectHandler(c) PROVE GatewayInv'
  BY <1>3 DEF AG!DisconnectHandler, GatewayInv, Due
<1>4. ASSUME NEW c \in GatewayClient, AG!Cleanup(c) PROVE GatewayInv'
  BY <1>4 DEF AG!Cleanup, AG!CleanupNotifications, GatewayInv, Due
<1>5. ASSUME NEW job \in wsJobs, AG!DispatchWsMsg(job) PROVE GatewayInv'
  <2>1. job \in AG!WsJob /\ job.what # "event"
    BY <1>5 DEF GatewayInv, AG!DispatchWsMsg
  <2>2. /\ [job EXCEPT !.kind = "Resolve"] \in AG!WsJob
        /\ [job EXCEPT !.kind = "Resolve"].of = job.of
        /\ [job EXCEPT !.kind = "Resolve"].what = job.what
    BY <2>1 DEF AG!WsJob
  <2>3. /\ wsJobs' \subseteq wsJobs \cup {[job EXCEPT !.kind = "Resolve"]}
        /\ dropped' \in [GatewayClient -> SUBSET AG!Method]
    BY <1>5, <2>1 DEF AG!DispatchWsMsg, AG!GoOn, AG!Drop, GatewayInv, AG!WsJob
  <2> QED BY <1>5, <2>1, <2>2, <2>3 DEF AG!DispatchWsMsg, GatewayInv, Due
<1>6. ASSUME NEW job \in wsJobs, AG!Resolve(job) PROVE GatewayInv'
  <2>1. job \in AG!WsJob /\ job.of \in GatewayClient /\ Due(job.of, job.what)
    BY DEF GatewayInv, AG!WsJob
  <2>2. /\ [job EXCEPT !.kind = "Respond"] \in AG!WsJob
        /\ [job EXCEPT !.kind = "Respond"].of = job.of
        /\ [job EXCEPT !.kind = "Respond"].kind = "Respond"
        /\ [job EXCEPT !.kind = "Respond"].what = job.what
    BY <2>1 DEF AG!WsJob
  <2>3. /\ wsJobs' \subseteq wsJobs \cup {[job EXCEPT !.kind = "Respond"]}
        /\ UNCHANGED <<connection, mAppIdMap, asked, received>>
        /\ dropped' \in [GatewayClient -> SUBSET AG!Method]
    BY <1>6, <2>1
       DEF AG!Resolve, AG!GoOn, AG!Drop, AG!Method, GatewayInv, AG!WsJob
  <2>4. CASE job.what = "listen" /\ AG!Subscribe(job.of)
    <3>1. /\ mSubscribers' = mSubscribers \cup {job.of}
          /\ subscriberJobs' = subscriberJobs \cup {[of |-> job.of, listen |-> TRUE, at |-> "check"]}
          /\ UNCHANGED <<leaving, mRegisteredNotifications, listening, emitJob, stopped>>
      BY <2>4 DEF AG!Subscribe
    <3>2. [of |-> job.of, listen |-> TRUE, at |-> "check"] \in AG!SubscriberJob
      BY <2>1 DEF AG!SubscriberJob
    <3>3. AG!GatewayTypeOK'
      BY <2>1, <2>2, <2>3, <3>1, <3>2 DEF GatewayInv
    <3> QED BY <2>1, <2>2, <2>3, <2>4, <3>1, <3>3 DEF GatewayInv, Due
  <2>5. CASE AG!Remove(job.of)
    BY <2>1, <2>2, <2>3, <2>5 DEF AG!Remove, GatewayInv, Due
  <2>6. CASE UNCHANGED AG!notifyVars
    BY <2>1, <2>2, <2>3, <2>6 DEF GatewayInv, Due
  <2> QED BY <1>6, <2>4, <2>5, <2>6 DEF AG!Resolve, AG!HandleEvent
<1>7. ASSUME NEW job \in wsJobs, AG!ReturnMessageInSocket(job) PROVE GatewayInv'
  <2>1. job.of \in GatewayClient /\ job.what \in AG!Method \cup {"event"} /\ Due(job.of, job.what)
    BY DEF GatewayInv, AG!WsJob
  <2>2. /\ wsJobs' = wsJobs \ {job}
        /\ received' = received \/ received' = [received EXCEPT ![job.of] = @ \cup {job.what}]
        /\ UNCHANGED <<mSubscribers, connection, mAppIdMap, asked, leaving, subscriberJobs,
                       mRegisteredNotifications, listening, emitJob, stopped>>
        /\ dropped' \in [GatewayClient -> SUBSET AG!Method]
    BY <1>7, <2>1 DEF AG!ReturnMessageInSocket, AG!Drop, AG!Method, GatewayInv
  <2>3. AG!GatewayTypeOK'
    BY <2>1, <2>2 DEF GatewayInv
  <2>4. \A c \in GatewayClient : \A what \in received'[c] : Due(c, what)
    BY <2>1, <2>2 DEF GatewayInv
  <2> QED BY <2>2, <2>3, <2>4 DEF GatewayInv, Due
<1>8. ASSUME AG!DispatchEvent PROVE GatewayInv'
  <2>1. /\ wsJobs' = wsJobs \cup {[kind |-> "Respond", of |-> c, what |-> "event"] : c \in mSubscribers}
        /\ emitJob' = "run"
        /\ UNCHANGED <<mSubscribers, connection, mAppIdMap, asked, received, dropped, leaving,
                       subscriberJobs, mRegisteredNotifications, listening, stopped>>
    BY <1>8 DEF AG!DispatchEvent, AG!EventUpdate
  <2>2. \A c \in mSubscribers :
          /\ [kind |-> "Respond", of |-> c, what |-> "event"] \in AG!WsJob
          /\ Due(c, "event")
    BY DEF GatewayInv, AG!WsJob, Due
  <2>3. AG!GatewayTypeOK'
    BY <2>1, <2>2 DEF GatewayInv
  <2> QED BY <2>1, <2>2, <2>3 DEF GatewayInv, Due
<1>9. ASSUME NEW job \in subscriberJobs, AG!RunJob(job), UNCHANGED AG!gatewayVars PROVE GatewayInv'
  <2>1. /\ UNCHANGED <<mSubscribers, connection, mAppIdMap, wsJobs, asked, received, dropped>>
        /\ AG!TypeOK'
    <3>1. \A at1 \in {"check", "notify", "record"} :
             [job EXCEPT !.at = at1] \in AG!SubscriberJob
      BY DEF GatewayInv, AG!SubscriberJob
    <3>2. job.listen \in BOOLEAN
      BY DEF GatewayInv, AG!SubscriberJob
    <3>3. subscriberJobs' \subseteq AG!SubscriberJob
      BY <1>9, <3>1 DEF AG!RunJob, AG!IsNotificationRegistered, AG!HandleNotifier,
         AG!RecordNotification, AG!Goto, AG!Done, GatewayInv
    <3>4. listening' \in BOOLEAN /\ mRegisteredNotifications' \in Nat
      BY <1>9, <3>2 DEF AG!RunJob, AG!IsNotificationRegistered, AG!HandleNotifier,
         AG!RecordNotification, GatewayInv
    <3>5. UNCHANGED <<mSubscribers, leaving, emitJob, stopped, connection, mAppIdMap, wsJobs, asked,
                      received, dropped>>
      BY <1>9 DEF AG!RunJob, AG!IsNotificationRegistered, AG!HandleNotifier, AG!RecordNotification
    <3> QED
      BY <3>3, <3>4, <3>5 DEF GatewayInv
  <2> QED BY <2>1 DEF GatewayInv, Due
<1>10. ASSUME NEW c \in GatewayClient, AG!Unused(c), UNCHANGED AG!gatewayVars PROVE GatewayInv'
  <2>1. [of |-> c, listen |-> FALSE, at |-> "check"] \in AG!SubscriberJob
    BY DEF AG!SubscriberJob
  <2>2. AG!GatewayTypeOK'
    BY <1>10, <2>1 DEF AG!Unused, GatewayInv
  <2> QED BY <1>10, <2>2 DEF AG!Unused, GatewayInv, Due
<1>11. ASSUME AG!Emit, UNCHANGED AG!gatewayVars PROVE GatewayInv'
  BY <1>11 DEF AG!Emit, GatewayInv, Due
<1>12. ASSUME UNCHANGED AG!vars PROVE GatewayInv'
  BY <1>12 DEF AG!vars, GatewayInv, Due
<1> QED
  BY <1>1, <1>2, <1>3, <1>4, <1>5, <1>6, <1>7, <1>8, <1>9, <1>10, <1>11, <1>12
     DEF AG!Next, AG!Background, AG!RunWsJob

-----------------------------------------------------------------------------
(* The composition                                                           *)
RT == INSTANCE RuntimeManager_proofs
        WITH App <- RuntimeApp, AppOf <- RuntimeAppOf, Failing <- RuntimeFailing
SH == INSTANCE RDKShell_proofs
        WITH App <- ShellApp, Call <- ShellCall, AppOf <- ShellAppOf, Failing <- ShellFailing,
             gCreateDisplayRequests <- shellCreateDisplayRequests, posted <- shellPosted,
             pc <- shellPc, plugin <- shellPlugin, clients <- shellClients

DeliveryInv ==
  /\ RT!UidInv /\ GatewayInv /\ AnalyticsInv /\ MonitorInv /\ DownloadInv /\ WindowInv
  /\ SH!TypeOK

LEMMA DeliveryInit == ASSUME Init PROVE DeliveryInv
<1>1. RT!UidInv
  <2>1. RT!Init
    BY DEF Init, RM!Init, RT!Init, RM!Uid, RT!Uid, RM!NoUid, RT!NoUid
  <2>2. RT!InstanceAssumption /\ RT!UidAssumption
    BY RuntimeManagerConstants
       DEF RuntimeManagerConstants, RM!InstanceAssumption, RM!UidAssumption, RT!InstanceAssumption,
           RT!UidAssumption
  <2> QED BY <2>1, <2>2, RT!UidInit
<1>2. SH!TypeOK
  <2>1. SH!Init
    BY DEF Init, RS!Init, SH!Init
  <2>2. SH!CallAssumption
    BY RDKShellConstants DEF RDKShellConstants, RS!CallAssumption, SH!CallAssumption, RS!Kind, SH!Kind
  <2> QED BY <2>1, <2>2, SH!TypesInit
<1>3. GatewayInv /\ AnalyticsInv /\ MonitorInv /\ DownloadInv /\ WindowInv
  BY AnalyticsConstants, GatewayInit, AnalyticsInit, MonitorInit, DownloadInit, WindowInit
     DEF Init, AnalyticsConstants
<1> QED BY <1>1, <1>2, <1>3 DEF DeliveryInv

(* A step of the composition is one of each plugin or leaves it as it is.    *)
LEMMA StepOfEach ==
  ASSUME [Next]_vars
  PROVE  /\ [AG!Next]_(AG!vars) /\ [AN!Next]_(AN!analyticsVars) /\ [MO!Next]_(MO!monitorVars)
         /\ [PD!Next]_(PD!downloaderVars) /\ [WM!Next]_(WM!windowVars)
         /\ [RM!Next]_(RM!runtimeVars) /\ [RS!Next]_(RS!shellVars)
<1> USE DEF vars, runtimeVars, gatewayVars, analyticsVars, monitorVars, downloaderVars, windowVars,
            shellVars, Only
<1>1. [AG!Next]_(AG!vars)
  BY DEF Next, AG!vars, AG!notifyVars, AG!gatewayVars
<1>2. [AN!Next]_(AN!analyticsVars)
  BY DEF Next, AN!analyticsVars
<1>3. [MO!Next]_(MO!monitorVars)
  BY DEF Next, MO!monitorVars, MO!limitVars, MO!countVars
<1>4. [PD!Next]_(PD!downloaderVars)
  BY DEF Next, PD!downloaderVars, PD!queueVars, PD!attemptVars, PD!cancelVars, PD!callerVars
<1>5. [WM!Next]_(WM!windowVars)
  BY DEF Next, WM!windowVars, WM!callerVars, WM!threadVars
<1>6. [RM!Next]_(RM!runtimeVars)
  BY DEF Next, RM!runtimeVars, RM!uidVars, RM!runVars, RM!reportVars
<1>7. [RS!Next]_(RS!shellVars)
  BY DEF Next, RS!shellVars, RS!markVars, RS!knownVars, RS!requestVars, RS!callVars,
         RS!displayVars
<1> QED BY <1>1, <1>2, <1>3, <1>4, <1>5, <1>6, <1>7

(* The next-state relations of the two instances of a module are the same.   *)
LEMMA SameRuntime == [RM!Next]_(RM!runtimeVars) <=> [RT!Next]_(RT!runtimeVars)
<1> USE DEF RM!getUserId, RT!getUserId, RM!NoUid, RT!NoUid, RM!uidVars, RT!uidVars, RM!MayFail,
            RT!MayFail, RM!isOCIPluginObjectValid, RT!isOCIPluginObjectValid,
            RM!StartContainer, RT!StartContainer, RM!Announce, RT!Announce, RM!Listed,
            RT!Listed, RM!clearUserId, RT!clearUserId, RM!runVars, RT!runVars, RM!reportVars,
            RT!reportVars, RM!Reported, RT!Reported
<1>1. \A i : (RM!Run(i) <=> RT!Run(i))
  BY DEF RM!Run, RT!Run
<1>2. \A i, force : (RM!Stop(i, force) <=> RT!Stop(i, force))
  BY DEF RM!Stop, RT!Stop
<1>3. \A i : (RM!Hibernate(i) <=> RT!Hibernate(i))
  BY DEF RM!Hibernate, RT!Hibernate
<1>4. \A i : (RM!Wake(i) <=> RT!Wake(i))
  BY DEF RM!Wake, RT!Wake
<1>5. \A i : (RM!stateListenerRunning(i) <=> RT!stateListenerRunning(i))
  BY DEF RM!stateListenerRunning, RT!stateListenerRunning
<1>6. \A i : (RM!stateListenerStopped(i) <=> RT!stateListenerStopped(i))
  BY DEF RM!stateListenerStopped, RT!stateListenerStopped
<1>7. \A i : (RM!onVerityFailed(i) <=> RT!onVerityFailed(i))
  BY DEF RM!onVerityFailed, RT!onVerityFailed
<1>8. \A job : (RM!Forward(job) <=> RT!Forward(job))
  BY DEF RM!Forward, RT!Forward
<1>9. \A job : (RM!Dispatch(job) <=> RT!Dispatch(job))
  BY DEF RM!Dispatch, RT!Dispatch
<1> QED
  BY <1>1, <1>2, <1>3, <1>4, <1>5, <1>6, <1>7, <1>8, <1>9
     DEF RM!Next, RT!Next, RM!Deliver, RT!Deliver, RM!Call, RT!Call, RM!Dobby, RT!Dobby,
         RM!runtimeVars, RT!runtimeVars

LEMMA SameShell == [RS!Next]_(RS!shellVars) <=> [SH!Next]_(SH!shellVars)
<1> USE DEF RS!Goto, SH!Goto, RS!markVars, SH!markVars, RS!knownVars, SH!knownVars,
            RS!requestVars, SH!requestVars, RS!callVars, SH!callVars, RS!IsTold, SH!IsTold,
            RS!BeingDestroyed, SH!BeingDestroyed, RS!AfterVisible, SH!AfterVisible,
            RS!AfterDisplay, SH!AfterDisplay, RS!Activates, SH!Activates, RS!CanRun, SH!CanRun,
            RS!OverRpc, SH!OverRpc, RS!WorkerIsFree, SH!WorkerIsFree, RS!BusyWorkers,
            SH!BusyWorkers, RS!InProgress, SH!InProgress, RS!Clients, SH!Clients, RS!ToSet,
            SH!ToSet, RS!Cardinality, SH!Cardinality, RS!displayVars, SH!displayVars,
            RS!HasStateControl, SH!HasStateControl, RS!MayLackStateControl,
            SH!MayLackStateControl
<1>1. \A c : (RS!FindPlugin(c) <=> SH!FindPlugin(c))
  BY DEF RS!FindPlugin, SH!FindPlugin
<1>2. \A c : (RS!Clone(c) <=> SH!Clone(c))
  BY DEF RS!Clone, SH!Clone
<1>3. \A c : (RS!Configure(c) <=> SH!Configure(c))
  BY DEF RS!Configure, SH!Configure
<1>4. \A c : (RS!RegisterNotification(c) <=> SH!RegisterNotification(c))
  BY DEF RS!RegisterNotification, SH!RegisterNotification
<1>5. \A c : (RS!SetState(c) <=> SH!SetState(c))
  BY DEF RS!SetState, SH!SetState
<1>6. \A c : (RS!SetVisibility(c) <=> SH!SetVisibility(c))
  BY DEF RS!SetVisibility, SH!SetVisibility
<1>7. \A c : (RS!Tell(c) <=> SH!Tell(c))
  BY DEF RS!Tell, SH!Tell
<1>8. \A c : (RS!EndLaunch(c) <=> SH!EndLaunch(c))
  BY DEF RS!EndLaunch, SH!EndLaunch
<1>9. \A c : (RS!IsRequested(c) <=> SH!IsRequested(c))
  BY DEF RS!IsRequested, SH!IsRequested
<1>10. \A c : (RS!IsClient(c) <=> SH!IsClient(c))
  BY DEF RS!IsClient, SH!IsClient
<1>11. \A c : (RS!CreateDisplay(c) <=> SH!CreateDisplay(c))
  BY DEF RS!CreateDisplay, SH!CreateDisplay
<1>12. \A c : (RS!AwaitDisplay(c) <=> SH!AwaitDisplay(c))
  BY DEF RS!AwaitDisplay, SH!AwaitDisplay
<1>13. \A c : (RS!Activate(c) <=> SH!Activate(c))
  BY DEF RS!Activate, SH!Activate
<1>14. \A c : (RS!ActivateAtOnce(c) <=> SH!ActivateAtOnce(c))
  BY DEF RS!ActivateAtOnce, SH!ActivateAtOnce
<1>15. \A c : (RS!Remember(c) <=> SH!Remember(c))
  BY DEF RS!Remember, SH!Remember
<1>16. \A c : (RS!Activated(c) <=> SH!Activated(c))
  BY DEF RS!Activated, SH!Activated
<1>17. \A c : (RS!Deactivate(c) <=> SH!Deactivate(c))
  BY DEF RS!Deactivate, SH!Deactivate
<1>18. \A c : (RS!DeactivateAtOnce(c) <=> SH!DeactivateAtOnce(c))
  BY DEF RS!DeactivateAtOnce, SH!DeactivateAtOnce
<1>19. \A c : (RS!MarkExternal(c) <=> SH!MarkExternal(c))
  BY DEF RS!MarkExternal, SH!MarkExternal
<1>20. \A c : (RS!Unregister(c) <=> SH!Unregister(c))
  BY DEF RS!Unregister, SH!Unregister
<1>21. \A c : (RS!KillClient(c) <=> SH!KillClient(c))
  BY DEF RS!KillClient, SH!KillClient
<1>22. \A c : (RS!AwaitKill(c) <=> SH!AwaitKill(c))
  BY DEF RS!AwaitKill, SH!AwaitKill
<1>23. \A c : (RS!Forget(c) <=> SH!Forget(c))
  BY DEF RS!Forget, SH!Forget
<1>24. \A c : (RS!Deinitialized(c) <=> SH!Deinitialized(c))
  BY DEF RS!Deinitialized, SH!Deinitialized
<1>25. \A c : (RS!JobIsDone(c) <=> SH!JobIsDone(c))
  BY DEF RS!JobIsDone, SH!JobIsDone
<1>26. \A c : (RS!MarkDestroy(c) <=> SH!MarkDestroy(c))
  BY DEF RS!MarkDestroy, SH!MarkDestroy
<1>27. \A c : (RS!Lock(c) <=> SH!Lock(c))
  BY DEF RS!Lock, SH!Lock
<1>28. \A c : (RS!Unlock(c) <=> SH!Unlock(c))
  BY DEF RS!Unlock, SH!Unlock
<1>29. \A c : (RS!EndDestroy(c) <=> SH!EndDestroy(c))
  BY DEF RS!EndDestroy, SH!EndDestroy
<1>30. RS!Frame <=> SH!Frame
  BY DEF RS!Frame, SH!Frame
<1>31. \A c : (RS!RequestSuspend(c) <=> SH!RequestSuspend(c))
  BY DEF RS!RequestSuspend, SH!RequestSuspend
<1>32. \A c : (RS!MarkLaunch(c) <=> SH!MarkLaunch(c))
  BY DEF RS!MarkLaunch, SH!MarkLaunch
<1>33. \A c : (RS!Suspend(c) <=> SH!Suspend(c))
  BY DEF RS!Suspend, SH!Suspend
<1>34. \A c : (RS!ArriveToDestroy(c) <=> SH!ArriveToDestroy(c))
  BY DEF RS!ArriveToDestroy, SH!ArriveToDestroy
<1>35. \A c : (RS!ArriveFromOutside(c) <=> SH!ArriveFromOutside(c))
  BY DEF RS!ArriveFromOutside, SH!ArriveFromOutside
<1>36. \A c : (RS!ActivationFails(c) <=> SH!ActivationFails(c))
  BY DEF RS!ActivationFails, SH!ActivationFails
<1> QED
  BY <1>1, <1>2, <1>3, <1>4, <1>5, <1>6, <1>7, <1>8, <1>9, <1>10, <1>11, <1>12, <1>13, <1>14,
     <1>15, <1>16, <1>17, <1>18, <1>19, <1>20, <1>21, <1>22, <1>23, <1>24, <1>25, <1>26, <1>27,
     <1>28, <1>29, <1>30, <1>31, <1>32, <1>33, <1>34, <1>35, <1>36
     DEF RS!Next, SH!Next, RS!Runs, SH!Runs, RS!Launch, SH!Launch, RS!Display, SH!Display,
         RS!Job, SH!Job, RS!Destroy, SH!Destroy, RS!Calls, SH!Calls, RS!shellVars, SH!shellVars

LEMMA DeliveryStep == ASSUME DeliveryInv, [Next]_vars PROVE DeliveryInv'
<1>1. GatewayInv' /\ AnalyticsInv' /\ MonitorInv' /\ DownloadInv' /\ WindowInv'
  BY AnalyticsConstants, StepOfEach, GatewayStep, AnalyticsStep, MonitorStep, DownloadStep,
     WindowStep
     DEF DeliveryInv, AnalyticsConstants
<1>2. RT!UidInv'
  <2>1. RT!InstanceAssumption /\ RT!UidAssumption
    BY RuntimeManagerConstants
       DEF RuntimeManagerConstants, RM!InstanceAssumption, RM!UidAssumption, RT!InstanceAssumption,
           RT!UidAssumption
  <2>2. [RT!Next]_(RT!runtimeVars)
    BY StepOfEach, SameRuntime
  <2>3. RT!UidInv /\ [RT!Next]_(RT!runtimeVars) => RT!UidInv'
    BY <2>1, RT!UidKept
  <2> QED BY <2>2, <2>3 DEF DeliveryInv
<1>3. SH!TypeOK'
  <2>1. SH!CallAssumption
    BY RDKShellConstants DEF RDKShellConstants, RS!CallAssumption, SH!CallAssumption, RS!Kind, SH!Kind
  <2>2. [SH!Next]_(SH!shellVars)
    BY StepOfEach, SameShell
  <2> QED BY <2>1, <2>2, SH!TypesStep DEF DeliveryInv
<1> QED BY <1>1, <1>2, <1>3 DEF DeliveryInv

LEMMA DeliveryInvariant == Spec => []DeliveryInv
<1>1. Init => DeliveryInv
  BY DeliveryInit
<1>2. DeliveryInv /\ [Next]_vars => DeliveryInv'
  BY DeliveryStep
<1> QED
  BY <1>1, <1>2, PTL DEF Spec

-----------------------------------------------------------------------------
(* Every variable of the plugins keeps its type, the counts of the Monitor   *)
(* also when their registers wrap (MonitorObject::RegisterRestart).          *)
THEOREM DeliveryTypeCorrect == Spec => []TypeOK
<1>1. DeliveryInv => TypeOK
  <2>1. SH!TypeOK => RS!TypeOK
    BY DEF SH!TypeOK, RS!TypeOK, SH!At, RS!At
  <2>2. RT!UidInv => RM!TypeOK
    BY DEF RT!UidInv, RT!TypeOK, RM!TypeOK, RT!Uid, RM!Uid, RT!NoUid, RM!NoUid, RT!Job, RM!Job,
           RT!Report, RM!Report
  <2> QED
    BY <2>1, <2>2
       DEF DeliveryInv, TypeOK, GatewayInv, AnalyticsInv, MonitorInv, DownloadInv, WindowInv
<1> QED
  BY <1>1, DeliveryInvariant, PTL

(* The events that carry an uptime reach the backend in the order in which   *)
(* Analytics accepted them, whichever of the two queues they went through and*)
(* whenever the clock became valid (AnalyticsImplementation::SendEvent,      *)
(* ActionLoop).                                                              *)
THEOREM UptimeEventsStayInOrder == Spec => []UptimeEventsInOrder
<1>1. DeliveryInv => UptimeEventsInOrder
  BY AnalyticsConstants, InOrderWhenKept DEF DeliveryInv, UptimeEventsInOrder, AnalyticsConstants
<1> QED
  BY <1>1, DeliveryInvariant, PTL

(* The Monitor restarts a plugin at most as often as its limit says, for     *)
(* every width of its counters, every limit and every change of the limits   *)
(* while the plugin runs (MonitorObject::RegisterRestart).                   *)
THEOREM RestartsStayLimited == Spec => RestartsAreLimited
<1> DEFINE Step == restarts' > restarts => _restartLimit = 0 \/ restarts' <= _restartLimit
<1>1. DeliveryInv /\ [Next]_vars => [Step]_(MO!monitorVars)
  BY StepOfEach, MonitorStep DEF DeliveryInv
<1>2. RestartsAreLimited <=> [][Step]_(MO!monitorVars)
  BY DEF RestartsAreLimited, MO!RestartsAreLimited
<1> HIDE DEF Step
<1> QED
  BY <1>1, <1>2, DeliveryInvariant, PTL DEF Spec

(* What reaches a connection answers a request made on that connection, and  *)
(* only one that has asked to listen gets the event: answers of one client   *)
(* never reach another, however the jobs of the worker pool overtake each    *)
(* other (AppGatewayResponderImplementation::ReturnMessageInSocket,          *)
(* AppNotificationsImplementation::SubscriberMap::EventUpdate).              *)
OnlyWhatWasAsked ==
  \A c \in GatewayClient : /\ received[c] \ {"event"} \subseteq asked[c]
                    /\ "event" \in received[c] => "listen" \in asked[c]

THEOREM AnswersWereAskedFor == Spec => []OnlyWhatWasAsked
<1>1. DeliveryInv => OnlyWhatWasAsked
  BY DEF DeliveryInv, GatewayInv, Due, OnlyWhatWasAsked
<1> QED
  BY <1>1, DeliveryInvariant, PTL

(* A download reported without an error has its whole file until it is       *)
(* deleted, and one that is reported is neither queued nor attempted again   *)
(* (PackageManagerImplementation::downloader, NotifyDownloadStatus).         *)
ReportedOnce ==
  \A d \in DownloadId :
    /\ reason[d] = "NONE" => file[d] \in {"complete", "absent"}
    /\ reason[d] # "none" =>
         /\ \A i \in DOMAIN mDownloadQueue : mDownloadQueue[i] # d
         /\ mInprogressDownload = d => at = "reset"

THEOREM DownloadsAreReportedOnce == Spec => []ReportedOnce
<1>1. DeliveryInv => ReportedOnce
  BY DEF DeliveryInv, DownloadInv, In, ReportedOnce
<1> QED
  BY <1>1, DeliveryInvariant, PTL

(* While the plugin runs, a caller that waits for its display has its request*)
(* in the queue once, or the semaphore it waits on has been posted: no frame *)
(* takes a request without answering it (RDKWindowManagerImplementation::    *)
(* CreateDisplay, shellThread).                                              *)
NoRequestIsLost ==
  sRunning => \A c \in DisplayCaller :
    pc[c] = "waiting" => (c \in posted) # (\E i \in DOMAIN gCreateDisplayRequests :
                                            gCreateDisplayRequests[i] = c)

THEOREM NoDisplayRequestIsLost == Spec => []NoRequestIsLost
<1>1. DeliveryInv => NoRequestIsLost
  BY DEF DeliveryInv, WindowInv, In, NoRequestIsLost
<1> QED
  BY <1>1, DeliveryInvariant, PTL
=============================================================================

---------------------------- MODULE GatewayProofs ----------------------------
(***************************************************************************)
(* Theorems about the bundle in force and the HTTP transport: for any      *)
(* bodies, policies and numbers of requests and admin calls, a rollback    *)
(* walks back through what was in force, enforcement, evidence and         *)
(* response records of a request agree, and the registry of declared tools *)
(* forgets nothing and keeps to its capacity.                              *)
(***************************************************************************)
EXTENDS Gateway, SequenceTheorems, FiniteSetTheorems, WellFoundedInduction, TLAPS

(* The store.                                                              *)

LEMMA SuffixIs ==
  ASSUME NEW S, NEW s \in Seq(S), NEW t \in Seq(S)
  PROVE  IsSuffix(s, t) <=> /\ Len(s) <= Len(t)
                           /\ \A i \in 1 .. Len(s) : s[i] = t[Len(t) - Len(s) + i]
<1> DEFINE r == Reverse(s)
           u == Reverse(t)
<1>1. /\ Len(s) \in Nat /\ Len(t) \in Nat
      /\ r = [i \in 1 .. Len(s) |-> s[Len(s) - i + 1]]
      /\ u = [i \in 1 .. Len(t) |-> t[Len(t) - i + 1]]
  BY DEF Reverse
<1>2. r \in Seq(S) /\ u \in Seq(S) /\ Len(r) = Len(s) /\ Len(u) = Len(t)
  <2>1. /\ \A i \in 1 .. Len(s) : s[Len(s) - i + 1] \in S
        /\ \A i \in 1 .. Len(t) : t[Len(t) - i + 1] \in S
    BY <1>1
  <2>2. r \in [1 .. Len(s) -> S] /\ u \in [1 .. Len(t) -> S]
    BY <1>1, <2>1
  <2> HIDE DEF r, u
  <2> QED  BY <1>1, <2>2
<1> HIDE DEF r, u
<1>3. IsSuffix(s, t) <=>
        Len(s) <= Len(t) /\ SubSeq(r, 1, Len(s)) = SubSeq(u, 1, Len(s))
  BY <1>2 DEF IsSuffix, IsPrefix, r, u
<1>4. ASSUME Len(s) <= Len(t)
      PROVE  SubSeq(r, 1, Len(s)) = SubSeq(u, 1, Len(s)) <=>
               \A i \in 1 .. Len(s) : r[i] = u[i]
  <2>1. /\ SubSeq(r, 1, Len(s)) = [i \in 1 .. Len(s) |-> r[i]]
        /\ SubSeq(u, 1, Len(s)) = [i \in 1 .. Len(s) |-> u[i]]
    BY <1>1, <1>2, <1>4
  <2> QED  BY <2>1
<1>5. ASSUME Len(s) <= Len(t)
      PROVE  (\A i \in 1 .. Len(s) : r[i] = u[i]) <=>
               \A i \in 1 .. Len(s) : s[i] = t[Len(t) - Len(s) + i]
  <2>1. ASSUME \A i \in 1 .. Len(s) : r[i] = u[i], NEW i \in 1 .. Len(s)
        PROVE  s[i] = t[Len(t) - Len(s) + i]
    <3>1. Len(s) - i + 1 \in 1 .. Len(s)
      BY <1>1
    <3>2. r[Len(s) - i + 1] = u[Len(s) - i + 1]
      BY <2>1, <3>1
    <3>3. r[Len(s) - i + 1] = s[i]
      BY <1>1, <3>1
    <3>4. u[Len(s) - i + 1] = t[Len(t) - Len(s) + i]
      <4>1. Len(s) - i + 1 \in 1 .. Len(t)
        BY <1>1, <1>5
      <4>2. Len(t) - (Len(s) - i + 1) + 1 = Len(t) - Len(s) + i
        BY <1>1
      <4> QED  BY <1>1, <4>1, <4>2
    <3> QED  BY <3>2, <3>3, <3>4
  <2>2. ASSUME \A i \in 1 .. Len(s) : s[i] = t[Len(t) - Len(s) + i], NEW i \in 1 .. Len(s)
        PROVE  r[i] = u[i]
    <3>1. Len(s) - i + 1 \in 1 .. Len(s)
      BY <1>1
    <3>2. s[Len(s) - i + 1] = t[Len(t) - Len(s) + (Len(s) - i + 1)]
      BY <2>2, <3>1
    <3>3. Len(t) - Len(s) + (Len(s) - i + 1) = Len(t) - i + 1
      BY <1>1
    <3>4. i \in 1 .. Len(t)
      BY <1>1, <1>5
    <3> QED  BY <1>1, <3>2, <3>3, <3>4
  <2> QED  BY <2>1, <2>2
<1> QED  BY <1>3, <1>4, <1>5

LEMMA FrontIs ==
  ASSUME NEW S, NEW s \in Seq(S), Len(s) > 0
  PROVE  /\ Front(s) \in Seq(S) /\ Len(Front(s)) = Len(s) - 1
         /\ \A i \in 1 .. Len(s) - 1 : Front(s)[i] = s[i]
         /\ Last(s) \in S
<1>1. Front(s) = [i \in 1 .. Len(s) - 1 |-> s[i]]
  BY DEF Front
<1>2. \A i \in 1 .. Len(s) - 1 : s[i] \in S
  OBVIOUS
<1>3. Front(s) \in [1 .. Len(s) - 1 -> S] /\ Len(s) - 1 \in Nat
  BY <1>1, <1>2
<1>4. Front(s) \in Seq(S) /\ Len(Front(s)) = Len(s) - 1
  BY <1>3
<1> QED  BY <1>1, <1>4 DEF Last

\* What is about to be swapped in was compiled.
LoadingInv == \A a \in Admins : loading[a] # NoDocument => Loadable(loading[a])

StoreInv == StoreTypeOK /\ LoadingInv /\ RollbackWalksBack

LEMMA StoreInvInit == StoreInit => StoreInv
<1> SUFFICES ASSUME StoreInit PROVE StoreInv
  OBVIOUS
<1>1. file \in Documents /\ Loadable(file) /\ current = file /\ history = <<>>
      /\ deployed = <<file>> /\ changes = 0
  BY DEF StoreInit
<1>2. StoreTypeOK /\ LoadingInv
  BY <1>1, StoreAssumption DEF StoreInit, StoreTypeOK, LoadingInv
<1>3. Append(history, current) = <<file>> /\ <<file>> \in Seq(Documents)
  BY <1>1
<1>4. IsSuffix(Append(history, current), deployed)
  <2>1. \A s \in Seq(Documents) : IsSuffix(s, s)
    BY SuffixIs
  <2> QED  BY <1>1, <1>3, <2>1
<1>5. Len(history) <= MaxHistory /\ \A i \in 1 .. Len(deployed) : Loadable(deployed[i])
  BY <1>1, StoreAssumption
<1> QED  BY <1>2, <1>4, <1>5 DEF StoreInv, RollbackWalksBack

LEMMA SwapStep ==
  ASSUME StoreInv, NEW a \in Admins, Swap(a)
  PROVE  StoreInv'
<1> USE DEF StoreInv, StoreTypeOK
<1> DEFINE d == loading[a]
           h == Remember(history, current)
<1>1. d \in Documents /\ Loadable(d)
  BY DEF Swap, LoadingInv
<1>2. /\ h \in Seq(Documents) /\ Len(h) <= MaxHistory
      /\ Len(h) <= Len(history) + 1 /\ Len(h) > 0
      /\ \A i \in 1 .. Len(h) :
           h[i] = Append(history, current)[Len(history) + 1 - Len(h) + i]
  <2>1. Len(history) \in Nat /\ Len(history) <= MaxHistory /\ MaxHistory \in Nat \ {0}
    BY StoreAssumption DEF RollbackWalksBack
  <2>2. CASE Len(history) = MaxHistory
    <3>1. history # <<>>
      BY <2>1, <2>2
    <3>2. /\ Tail(history) \in Seq(Documents) /\ Len(Tail(history)) = Len(history) - 1
          /\ \A i \in 1 .. Len(history) - 1 : Tail(history)[i] = history[i + 1]
      BY <3>1, <2>1
    <3>3. h = Append(Tail(history), current)
      BY <2>2 DEF Remember
    <3>4. h \in Seq(Documents) /\ Len(h) = Len(history)
      BY <3>2, <3>3, <2>1
    <3>5. ASSUME NEW i \in 1 .. Len(h)
          PROVE  h[i] = Append(history, current)[i + 1]
      <4>1. CASE i = Len(history)
        <5>1. h[i] = current
          BY <4>1, <3>2, <3>3, <2>1
        <5>2. Append(history, current)[i + 1] = current
          BY <4>1, <2>1
        <5> QED  BY <5>1, <5>2
      <4>2. CASE i # Len(history)
        <5>1. i \in 1 .. Len(history) - 1
          BY <4>2, <3>4, <2>1
        <5>2. h[i] = Tail(history)[i]
          BY <5>1, <3>2, <3>3, <2>1
        <5>3. Append(history, current)[i + 1] = history[i + 1]
          BY <5>1, <2>1
        <5> QED  BY <5>1, <5>2, <5>3, <3>2
      <4> QED  BY <4>1, <4>2
    <3>6. \A i \in 1 .. Len(h) : Len(history) + 1 - Len(h) + i = i + 1
      BY <3>4, <2>1
    <3>7. Len(h) <= MaxHistory /\ Len(h) <= Len(history) + 1 /\ Len(h) > 0
      BY <3>4, <2>1, <2>2
    <3> HIDE DEF h
    <3> QED  BY <3>4, <3>5, <3>6, <3>7
  <2>3. CASE Len(history) # MaxHistory
    <3>1. h = Append(history, current)
      BY <2>3 DEF Remember
    <3>2. h \in Seq(Documents) /\ Len(h) = Len(history) + 1
      BY <3>1
    <3>3. \A i \in 1 .. Len(h) : Len(history) + 1 - Len(h) + i = i
      BY <3>2, <2>1
    <3> QED  BY <3>1, <3>2, <3>3, <2>1, <2>3
  <2> QED  BY <2>2, <2>3
<1> HIDE DEF h
<1>3. history' = h /\ current' = d /\ deployed' = Append(deployed, d)
  BY DEF Swap, h
<1>4. StoreTypeOK' /\ LoadingInv'
  BY <1>1, <1>2, <1>3 DEF Swap, LoadingInv
<1>5. IsSuffix(Append(h, d), Append(deployed, d))
  <2> DEFINE s == Append(history, current)
  <2>1. s \in Seq(Documents) /\ Len(s) = Len(history) + 1 /\ Len(history) \in Nat
        /\ Len(deployed) \in Nat /\ Len(h) \in Nat
    BY <1>2
  <2>2. Len(s) <= Len(deployed) /\ \A i \in 1 .. Len(s) : s[i] = deployed[Len(deployed) - Len(s) + i]
    BY <2>1, SuffixIs DEF RollbackWalksBack
  <2> HIDE DEF s
  <2>3. \A i \in 1 .. Len(h) : h[i] = s[Len(s) - Len(h) + i]
    <3>1. ASSUME NEW i \in 1 .. Len(h) PROVE h[i] = s[Len(s) - Len(h) + i]
      <4>1. h[i] = s[Len(history) + 1 - Len(h) + i]
        BY <1>2 DEF s
      <4> QED  BY <4>1, <2>1
    <3> QED  BY <3>1
  <2>4. ASSUME NEW i \in 1 .. Len(h) + 1
        PROVE  Append(h, d)[i] = Append(deployed, d)[Len(deployed) + 1 - (Len(h) + 1) + i]
    <3>1. CASE i = Len(h) + 1
      <4>1. Len(deployed) + 1 - (Len(h) + 1) + i = Len(deployed) + 1
        BY <3>1, <2>1
      <4>2. Append(h, d)[i] = d
        BY <3>1, <1>2
      <4> QED  BY <4>1, <4>2
    <3>2. CASE i # Len(h) + 1
      <4> DEFINE j == Len(s) - Len(h) + i
      <4>1. i \in 1 .. Len(h) /\ j \in 1 .. Len(s)
        BY <3>2, <2>1, <1>2
      <4>2. Append(h, d)[i] = s[j]
        BY <4>1, <2>3, <1>2
      <4>3. s[j] = deployed[Len(deployed) - Len(s) + j]
        BY <4>1, <2>2
      <4>4. Len(deployed) - Len(s) + j = Len(deployed) + 1 - (Len(h) + 1) + i
        BY <4>1, <2>1
      <4>5. Len(deployed) + 1 - (Len(h) + 1) + i \in 1 .. Len(deployed)
        BY <4>1, <2>1, <2>2, <1>2
      <4> HIDE DEF j
      <4> QED  BY <4>2, <4>3, <4>4, <4>5
    <3> QED  BY <3>1, <3>2
  <2>5. /\ Append(h, d) \in Seq(Documents) /\ Append(deployed, d) \in Seq(Documents)
        /\ Len(Append(h, d)) = Len(h) + 1 /\ Len(Append(deployed, d)) = Len(deployed) + 1
    BY <1>1, <1>2
  <2>6. Len(h) + 1 <= Len(deployed) + 1
    BY <2>1, <2>2, <1>2
  <2> DEFINE p == Append(h, d)
             q == Append(deployed, d)
  <2>7. \A i \in 1 .. Len(p) : p[i] = q[Len(q) - Len(p) + i]
    <3>1. ASSUME NEW i \in 1 .. Len(h) + 1 PROVE p[i] = q[Len(q) - Len(p) + i]
      <4>1. p[i] = q[Len(deployed) + 1 - (Len(h) + 1) + i]
        BY <2>4
      <4>2. Len(q) - Len(p) + i = Len(deployed) + 1 - (Len(h) + 1) + i
        BY <2>1, <2>5
      <4> QED  BY <4>1, <4>2
    <3> QED  BY <3>1, <2>5
  <2> HIDE DEF p, q
  <2>8. p \in Seq(Documents) /\ q \in Seq(Documents) /\ Len(p) <= Len(q)
    BY <2>5, <2>6 DEF p, q
  <2>9. IsSuffix(p, q)
    BY <2>7, <2>8, SuffixIs
  <2> QED  BY <2>9 DEF p, q
<1>6. \A i \in 1 .. Len(Append(deployed, d)) : Loadable(Append(deployed, d)[i])
  <2>1. \A i \in 1 .. Len(deployed) : Loadable(deployed[i])
    BY DEF RollbackWalksBack
  <2> QED  BY <2>1, <1>1
<1> QED  BY <1>2, <1>3, <1>4, <1>5, <1>6 DEF RollbackWalksBack

LEMMA RollbackStep ==
  ASSUME StoreInv, NEW a \in Admins, Rollback(a)
  PROVE  StoreInv'
<1> USE DEF StoreInv, StoreTypeOK
<1> DEFINE n == Len(history)
           s == Append(history, current)
<1>1. n \in Nat /\ n > 0 /\ Len(deployed) \in Nat
  BY DEF Rollback
<1>2. s \in Seq(Documents) /\ Len(s) = n + 1
  OBVIOUS
<1>3. Len(s) <= Len(deployed) /\ \A i \in 1 .. Len(s) : s[i] = deployed[Len(deployed) - Len(s) + i]
  BY <1>2, SuffixIs DEF RollbackWalksBack
<1>4. /\ history' = Front(history) /\ current' = history[n]
      /\ deployed' = Front(deployed)
  BY DEF Rollback, Last
<1>5. /\ history' \in Seq(Documents) /\ Len(history') = n - 1
      /\ \A i \in 1 .. n - 1 : history'[i] = history[i]
      /\ deployed' \in Seq(Documents) /\ Len(deployed') = Len(deployed) - 1
      /\ \A i \in 1 .. Len(deployed) - 1 : deployed'[i] = deployed[i]
      /\ current' \in Documents
  <2>1. Len(deployed) > 0
    BY <1>1, <1>2, <1>3
  <2> HIDE DEF s
  <2> QED  BY <1>1, <1>4, <2>1, FrontIs DEF Last
<1>6. StoreTypeOK' /\ LoadingInv'
  BY <1>5, StoreAssumption DEF Rollback, LoadingInv
<1>7. IsSuffix(Append(history', current'), deployed')
  <2> HIDE DEF StoreInv, StoreTypeOK
  <2>1. Append(history', current') \in Seq(Documents) /\ Len(Append(history', current')) = n
    BY <1>1, <1>5
  <2>2. ASSUME NEW i \in 1 .. n
        PROVE  Append(history', current')[i] = deployed'[Len(deployed') - n + i]
    <3>1. Append(history', current')[i] = history[i]
      <4>1. CASE i = n
        BY <4>1, <1>1, <1>4, <1>5
      <4>2. CASE i # n
        <5>1. i \in 1 .. n - 1
          BY <4>2, <1>1
        <5> QED  BY <5>1, <1>1, <1>5
      <4> QED  BY <4>1, <4>2
    <3>2. history[i] = s[i]
      BY <1>1, StoreInv DEF StoreInv, StoreTypeOK
    <3>3. s[i] = deployed[Len(deployed) - (n + 1) + i]
      BY <1>1, <1>2, <1>3
    <3>4. /\ Len(deployed') - n + i = Len(deployed) - (n + 1) + i
          /\ Len(deployed) - (n + 1) + i \in 1 .. Len(deployed) - 1
      BY <1>1, <1>2, <1>3, <1>5
    <3> QED  BY <3>1, <3>2, <3>3, <3>4, <1>5
  <2>3. n <= Len(deployed')
    BY <1>1, <1>2, <1>3, <1>5
  <2> QED  BY <2>1, <2>2, <2>3, <1>5, SuffixIs
<1>8. Len(history') <= MaxHistory
  BY <1>1, <1>5, StoreAssumption DEF RollbackWalksBack
<1>9. \A i \in 1 .. Len(deployed') : Loadable(deployed'[i])
  BY <1>1, <1>5 DEF RollbackWalksBack
<1> QED  BY <1>6, <1>7, <1>8, <1>9 DEF RollbackWalksBack

LEMMA StoreInvStep ==
  ASSUME StoreInv, StoreNext
  PROVE  StoreInv'
<1>1. ASSUME Withdraw \/ \E d \in Documents : Publish(d) PROVE StoreInv'
  BY <1>1 DEF Withdraw, Publish, StoreInv, StoreTypeOK, LoadingInv, RollbackWalksBack
<1>2. ASSUME NEW a \in Admins, Load(a) PROVE StoreInv'
  <2>1. StoreTypeOK' /\ LoadingInv'
    BY <1>2, StoreAssumption DEF Load, StoreInv, StoreTypeOK, LoadingInv
  <2> QED  BY <1>2, <2>1 DEF Load, StoreInv, RollbackWalksBack
<1> QED  BY <1>1, <1>2, SwapStep, RollbackStep DEF StoreNext

LEMMA StoreInvStutter ==
  ASSUME StoreInv, UNCHANGED storeVars
  PROVE  StoreInv'
BY DEF storeVars, StoreInv, StoreTypeOK, LoadingInv, RollbackWalksBack
-----------------------------------------------------------------------------
(* Where a request is in its body.                                         *)

LEMMA Least ==
  ASSUME NEW T, T \subseteq Nat, T # {}
  PROVE  \E m \in T : \A k \in T : m <= k
<1>1. \E m \in T : \A k \in T : ~ (<<k, m>> \in OpToRel(<, Nat))
  BY NatLessThanWellFounded, WFMin
<1>2. \A k, m \in Nat : ~ (<<k, m>> \in OpToRel(<, Nat)) => m <= k
  BY DEF OpToRel
<1> QED  BY <1>1, <1>2

LEMMA FollowingIs ==
  ASSUME NEW b \in Seq(Element), NEW i \in Nat \ {0}
  PROVE  /\ Following(b, i) \in Nat \ {0}
         /\ Following(b, i) <= Len(b) =>
              Following(b, i) \in Governed(b) /\ Following(b, i) >= i
         /\ \A j \in Governed(b) : j >= i => Following(b, i) <= j
<1> DEFINE S == {j \in Governed(b) : j >= i}
<1>0. Governed(b) \subseteq 1 .. Len(b) /\ Len(b) \in Nat
  BY DEF Governed
<1>1. CASE \E j \in Governed(b) : j >= i
  <2>0. S \subseteq Nat /\ S # {}
    BY <1>0, <1>1
  <2>1. \E m \in S : \A k \in S : m <= k
    <3> HIDE DEF S
    <3> QED  BY <2>0, Least
  <2>2. \E j \in Governed(b) : j >= i /\ \A k \in Governed(b) : k >= i => j <= k
    BY <2>1
  <2>3. /\ Following(b, i) \in Governed(b) /\ Following(b, i) >= i
        /\ \A k \in Governed(b) : k >= i => Following(b, i) <= k
    BY <1>1, <2>2 DEF Following
  <2> QED  BY <2>3, <1>0
<1>2. CASE ~ \E j \in Governed(b) : j >= i
  BY <1>0, <1>2 DEF Following
<1> QED  BY <1>1, <1>2

Deciding == {"lookup", "evaluate", "attest", "indeterminate"}
Early == {"idle", "route"} \cup Deciding

\* The elements that have been decided.
Past(h) == IF req[h].pc \in Deciding
           THEN {j \in Governed(Body(h)) : j < req[h].at}
           ELSE Governed(Body(h))

ReqDomain == DOMAIN req = Handlers

\* The fields of a request; some are named without a type.
ReqShape(h) ==
  /\ req[h] \in [pc : PCs, body : Seq(Element), at : Nat \ {0}, sig : {req[h].sig},
                 bundle : Documents \cup {NoDocument}, blocked : {req[h].blocked},
                 calls : {req[h].calls}, capture : {req[h].capture}, outcome : Outcomes]
  /\ \A i \in DOMAIN Body(h) : Body(h)[i].kind \in NotMCP => Len(Body(h)) = 1

\* The step a request is at fits the element it is at.
PcInv(h) ==
  /\ req[h].pc = "idle" => Body(h) = <<>>
  /\ req[h].pc \in Deciding => req[h].at \in Governed(Body(h))
  /\ req[h].pc = "lookup" => At(h).kind = "call"
  /\ req[h].pc \in {"evaluate", "attest"} => At(h).kind \in {"call", "llm"}
  /\ req[h].pc = "indeterminate" => At(h).kind \notin {"call", "llm"}
  /\ req[h].pc = "attest" => req[h].bundle \in Documents
  /\ req[h].pc \in {"observe", "record"} => req[h].outcome \in {"completed", "hijacked"}
  /\ req[h].pc \in Early \cup {"exchange"} => req[h].outcome = "none"

LEMMA ProceedIs ==
  ASSUME NEW h \in Handlers, NEW blocked, NEW calls, ReqDomain, ReqShape(h), PcInv(h),
         req[h].pc \in Deciding, Proceed(h, blocked, calls)
  PROVE  /\ ReqShape(h)' /\ PcInv(h)'
         /\ Past(h)' = Past(h) \cup {req[h].at}
         /\ req'[h].pc \in Deciding \cup {"route"}
         /\ Body(h)' = Body(h) /\ req'[h].blocked = blocked /\ req'[h].calls = calls
         /\ \A k \in Handlers \ {h} : req'[k] = req[k]
         /\ ReqDomain'
<1> DEFINE b == Body(h)
           i == req[h].at
           n == Following(b, i + 1)
<1>1. b \in Seq(Element) /\ i \in Nat \ {0} /\ i \in Governed(b)
  BY DEF ReqShape, PcInv, Body
<1>2. /\ n \in Nat \ {0}
      /\ n <= Len(b) => n \in Governed(b) /\ n >= i + 1
      /\ \A j \in Governed(b) : j >= i + 1 => n <= j
  <2> HIDE DEF b, i
  <2> QED  BY <1>1, FollowingIs
<1>3. Governed(b) \subseteq 1 .. Len(b) /\ Len(b) \in Nat
  BY <1>1 DEF Governed
<1> HIDE DEF n
<1>4. req' = [req EXCEPT ![h].pc = Stage(b, n), ![h].at = n,
                         ![h].blocked = blocked, ![h].calls = calls]
  BY DEF Proceed, n
<1>5. /\ req'[h] = [req[h] EXCEPT !.pc = Stage(b, n), !.at = n, !.blocked = blocked,
                                  !.calls = calls]
      /\ \A k \in Handlers \ {h} : req'[k] = req[k]
      /\ ReqDomain'
  BY <1>4 DEF ReqDomain
<1>6. /\ req'[h].pc = Stage(b, n) /\ req'[h].at = n /\ req'[h].blocked = blocked
      /\ req'[h].calls = calls /\ req'[h].body = b
      /\ req'[h].outcome = req[h].outcome /\ req'[h].bundle = req[h].bundle
  BY <1>5 DEF ReqShape, Body
<1>7. Stage(b, n) \in {"lookup", "evaluate", "indeterminate", "route"}
  BY DEF Stage
<1>8. ReqShape(h)'
  <2>1. Stage(b, n) \in PCs
    BY <1>7 DEF PCs
  <2> QED  BY <1>2, <1>5, <1>6, <2>1 DEF ReqShape, Body
<1>9. PcInv(h)'
  <2>1. Stage(b, n) # "route" <=> n <= Len(b)
    BY <1>2, <1>3 DEF Stage
  <2>2. /\ Stage(b, n) = "lookup" => b[n].kind = "call"
        /\ Stage(b, n) = "evaluate" => b[n].kind = "llm"
        /\ Stage(b, n) = "indeterminate" => b[n].kind \notin {"call", "llm"}
    BY DEF Stage
  <2>3. req[h].outcome = "none"
    BY DEF PcInv, Early
  <2> HIDE DEF b, i
  <2> QED  BY <1>2, <1>6, <1>7, <2>1, <2>2, <2>3 DEF PcInv, Body, At, Deciding, Early
<1>10. Past(h)' = Past(h) \cup {i}
  <2>1. Past(h) = {j \in Governed(b) : j < i}
    BY DEF Past
  <2>2. CASE n <= Len(b)
    <3>1. Stage(b, n) \in Deciding
      BY <2>2, <1>2, <1>3 DEF Stage, Deciding
    <3>2. Past(h)' = {j \in Governed(b) : j < n}
      BY <1>6, <3>1 DEF Past, Body
    <3>3. \A j \in Governed(b) : j < n <=> j < i \/ j = i
      BY <1>1, <1>2, <1>3, <2>2
    <3> QED  BY <2>1, <3>2, <3>3, <1>1
  <2>3. CASE ~(n <= Len(b))
    <3>1. Stage(b, n) = "route"
      BY <2>3, <1>2, <1>3 DEF Stage
    <3>2. Past(h)' = Governed(b)
      BY <1>6, <3>1 DEF Past, Body, Deciding
    <3>3. \A j \in Governed(b) : j < i \/ j = i
      BY <1>1, <1>2, <1>3, <2>3
    <3> QED  BY <2>1, <3>2, <3>3, <1>1
  <2> QED  BY <2>2, <2>3
<1> QED  BY <1>5, <1>6, <1>7, <1>8, <1>9, <1>10 DEF Deciding, Body
-----------------------------------------------------------------------------
(* The inductive invariant of a request.                                   *)

\* A record names a decided element, what its bundle concludes of it, and an action that
\* follows; a stop that may not be on file has a second record.
Faithful(h, r) ==
  /\ r.at \in Past(h)
  /\ r.decision = IF Body(h)[r.at].kind \in {"call", "llm"}
                  THEN Evaluate(r.bundle, Body(h)[r.at].tool, r.sig) ELSE "indeterminate"
  /\ \/ r.applied = Applied(enforce, r.decision)
     \/ r.applied = "failed_open" /\ \E s \in RecordsOf(h, r.at) : s.fate = "unsure"
  /\ r.fate = "unsure" => \E s \in RecordsOf(h, r.at) : s.applied = "failed_open"
  /\ r.applied = "blocked" => r.fate \in {"durable", "unsure"}

RecordInv(h) == \A r \in decisions : r.handler = h => Faithful(h, r)

\* What is decided is either stopped or among the calls that go on.
DecidedInv(h) ==
  /\ StoppedAt(h) \cup req[h].calls = Past(h)
  /\ StoppedAt(h) \cap req[h].calls = {}
  /\ \A i \in StoppedAt(h) : Body(h)[i].kind \in {"call", "llm"}
  /\ req[h].blocked = {Body(h)[i].id : i \in {j \in StoppedAt(h) : Body(h)[j].kind = "call"}}
  /\ \A i \in req[h].calls :
       \E r \in RecordsOf(h, i) : r.applied \in {"forwarded", "failed_open"}

\* The three ways out of a request.
SentOn(h) ==
  /\ ~OnlyStopped(h)
  /\ refused[h] = {}
  /\ upstream[h] = IF req[h].blocked = {} THEN DOMAIN Body(h)
                   ELSE Rewritten(Body(h), req[h].blocked)
  /\ \A i \in StoppedAt(h) : Body(h)[i].kind = "call"
  /\ req[h].pc = "done" /\ req[h].outcome = "none" => req[h].calls = {}

AnsweredHere(h) ==
  /\ OnlyStopped(h)
  /\ refused[h] = ToolsCalls(Body(h))
  /\ upstream[h] = {}
  /\ req[h].outcome = "none"
  /\ \A i \in StoppedAt(h) : Body(h)[i].kind = "call"

ModelRefused(h) ==
  /\ refused[h] = DOMAIN Body(h) /\ StoppedAt(h) = DOMAIN Body(h)
  /\ upstream[h] = {}
  /\ req[h].outcome = "none"

SentInv(h) ==
  /\ req[h].pc \in Early =>
       upstream[h] = {} /\ refused[h] = {} /\ \A i \in StoppedAt(h) : Body(h)[i].kind = "call"
  /\ req[h].pc \in {"exchange", "observe", "record"} => SentOn(h)
  /\ req[h].pc = "done" => SentOn(h) \/ AnsweredHere(h) \/ ModelRefused(h)

Expected(h, i) ==
  IF i \in StoppedAt(h) THEN <<"error">>
  ELSE IF /\ req[h].pc = "done" /\ req[h].outcome \in {"completed", "hijacked"}
          /\ i \in req[h].calls
  THEN <<IF req[h].outcome = "hijacked" THEN "unseen" ELSE "hash">>
  ELSE <<>>

ResponseInv(h) ==
  responses[h] = [i \in DOMAIN Body(h) |-> Expected(h, i)]

HInv(h) == /\ ReqShape(h) /\ PcInv(h) /\ RecordInv(h) /\ DecidedInv(h)
           /\ SentInv(h) /\ ResponseInv(h)

Domains ==
  /\ enforce \in BOOLEAN
  /\ ReqDomain
  /\ DOMAIN responses = Handlers /\ DOMAIN upstream = Handlers /\ DOMAIN refused = Handlers
  /\ \A r \in decisions : r.handler \in Handlers

GInv == Domains /\ \A h \in Handlers : HInv(h)
-----------------------------------------------------------------------------
\* What a step does not touch keeps its invariant.
LEMMA Untouched ==
  ASSUME NEW k \in Handlers, HInv(k), req'[k] = req[k], responses'[k] = responses[k],
         upstream'[k] = upstream[k], refused'[k] = refused[k], enforce' = enforce,
         \A i : RecordsOf(k, i)' = RecordsOf(k, i)
  PROVE  HInv(k)'
<1>1. Body(k)' = Body(k) /\ At(k)' = At(k) /\ Past(k)' = Past(k) /\ OnlyStopped(k)' = OnlyStopped(k)
  BY DEF Body, At, Past, OnlyStopped
<1>2. StoppedAt(k)' = StoppedAt(k)
  BY <1>1 DEF StoppedAt
<1>3. \A i : Expected(k, i)' = Expected(k, i)
  BY <1>2 DEF Expected
<1>4. ReqShape(k)' /\ PcInv(k)'
  BY <1>1 DEF HInv, ReqShape, PcInv
<1>5. RecordInv(k)'
  <2> SUFFICES ASSUME NEW r \in decisions', r.handler = k PROVE Faithful(k, r)'
    BY DEF RecordInv
  <2>1. r \in RecordsOf(k, r.at)'
    BY DEF RecordsOf
  <2>2. r \in decisions
    BY <2>1 DEF RecordsOf
  <2>3. Faithful(k, r)
    BY <2>2 DEF HInv, RecordInv
  <2> QED  BY <2>3, <1>1 DEF Faithful
<1>6. DecidedInv(k)'
  BY <1>1, <1>2 DEF HInv, DecidedInv
<1>7. SentInv(k)'
  BY <1>1, <1>2 DEF HInv, SentInv, SentOn, AnsweredHere, ModelRefused
<1>8. ResponseInv(k)'
  BY <1>1, <1>3 DEF HInv, ResponseInv
<1> QED  BY <1>4, <1>5, <1>6, <1>7, <1>8 DEF HInv
-----------------------------------------------------------------------------
\* The records R of one decision, about the element the request is at.
Fresh(h, R) ==
  /\ R # {}
  /\ \A r \in R :
       /\ r.handler = h /\ r.at = req[h].at
       /\ r.decision = IF At(h).kind \in {"call", "llm"}
                       THEN Evaluate(r.bundle, At(h).tool, r.sig) ELSE "indeterminate"
       /\ \/ r.applied = Applied(enforce, r.decision)
          \/ r.applied = "failed_open" /\ \E s \in R : s.fate = "unsure"
       /\ r.fate = "unsure" => \E s \in R : s.applied = "failed_open"
       /\ r.applied = "blocked" => r.fate \in {"durable", "unsure"}

Stops(R) == \E r \in R : r.applied = "blocked" /\ r.fate = "durable"

LEMMA Decides ==
  ASSUME NEW h \in Handlers, NEW R, NEW i, i = req[h].at,
         Domains, HInv(h), req[h].pc \in Deciding, Fresh(h, R), decisions' = decisions \cup R,
         enforce' = enforce, Past(h)' = Past(h) \cup {i}, Body(h)' = Body(h)
  PROVE  /\ i \notin Past(h) /\ i \in DOMAIN Body(h)
         /\ \A k, j : k # h \/ j # i => RecordsOf(k, j)' = RecordsOf(k, j)
         /\ RecordsOf(h, i)' = R
         /\ RecordInv(h)'
         /\ StoppedAt(h)' = StoppedAt(h) \cup {j \in {i} : Stops(R)}
         /\ \A r \in decisions' : r.handler \in Handlers
<1>1. i \in Governed(Body(h)) /\ i \in Nat
  BY DEF HInv, PcInv, ReqShape
<1>2. i \notin Past(h)
  BY <1>1 DEF Past
<1>3. i \in DOMAIN Body(h)
  BY <1>1 DEF Governed
<1>4. \A r \in decisions : r.handler = h => r.at # i
  BY <1>2 DEF HInv, RecordInv, Faithful
<1>5. \A r \in R : r.handler = h /\ r.at = i
  BY DEF Fresh
<1>6. \A k, j : k # h \/ j # i => RecordsOf(k, j)' = RecordsOf(k, j)
  BY <1>5 DEF RecordsOf
<1>7. RecordsOf(h, i)' = R
  BY <1>4, <1>5 DEF RecordsOf
<1>8. RecordInv(h)'
  <2> SUFFICES ASSUME NEW r \in decisions', r.handler = h PROVE Faithful(h, r)'
    BY DEF RecordInv
  <2>1. CASE r \in R
    <3>1. r.at = i /\ r.at \in Past(h)'
      BY <2>1, <1>5
    <3>2. Body(h)'[r.at] = At(h)
      BY <3>1 DEF At
    <3>3. RecordsOf(h, r.at)' = R
      BY <3>1, <1>7
    <3> QED  BY <2>1, <3>1, <3>2, <3>3 DEF Fresh, Faithful
  <2>2. CASE r \in decisions
    <3>1. Faithful(h, r)
      BY <2>2 DEF HInv, RecordInv
    <3>2. RecordsOf(h, r.at)' = RecordsOf(h, r.at)
      BY <2>2, <1>4, <1>6
    <3> QED  BY <3>1, <3>2 DEF Faithful
  <2> QED  BY <2>1, <2>2
<1>9. StoppedAt(h)' = StoppedAt(h) \cup {j \in {i} : Stops(R)}
  <2>1. StoppedAt(h)' = {j \in DOMAIN Body(h) :
                           \E r \in RecordsOf(h, j)' : r.applied = "blocked" /\ r.fate = "durable"}
    BY DEF StoppedAt
  <2>2. ASSUME NEW j \in DOMAIN Body(h), j # i
        PROVE  j \in StoppedAt(h)' <=> j \in StoppedAt(h)
    BY <2>1, <2>2, <1>6 DEF StoppedAt
  <2>3. i \in StoppedAt(h)' <=> Stops(R)
    BY <2>1, <1>3, <1>7 DEF Stops
  <2>4. i \notin StoppedAt(h)
    BY <1>4 DEF StoppedAt, RecordsOf
  <2>5. StoppedAt(h)' \subseteq DOMAIN Body(h) /\ StoppedAt(h) \subseteq DOMAIN Body(h)
    BY <2>1 DEF StoppedAt
  <2> QED  BY <2>2, <2>3, <2>4, <2>5, <1>3
<1>10. \A r \in decisions' : r.handler \in Handlers
  BY <1>5 DEF Domains
<1> QED  BY <1>2, <1>3, <1>6, <1>7, <1>8, <1>9, <1>10

\* A decision under which the element goes on.
LEMMA GoesOn ==
  ASSUME NEW h \in Handlers, NEW R, Domains, HInv(h), req[h].pc \in Deciding, Fresh(h, R),
         decisions' = decisions \cup R, ~Stops(R),
         \E r \in R : r.applied \in {"forwarded", "failed_open"},
         Proceed(h, req[h].blocked, req[h].calls \cup {req[h].at}),
         UNCHANGED <<enforce, responses, upstream, refused>>
  PROVE  /\ HInv(h)' /\ Domains'
         /\ \A k \in Handlers \ {h} : /\ req'[k] = req[k]
                                     /\ \A j : RecordsOf(k, j)' = RecordsOf(k, j)
<1> PICK i : i = req[h].at
  OBVIOUS
<1>1. /\ ReqShape(h)' /\ PcInv(h)' /\ Past(h)' = Past(h) \cup {i}
      /\ req'[h].pc \in Deciding \cup {"route"}
      /\ Body(h)' = Body(h) /\ req'[h].blocked = req[h].blocked /\ req'[h].calls = req[h].calls \cup {i}
      /\ \A k \in Handlers \ {h} : req'[k] = req[k]
      /\ ReqDomain'
  BY ProceedIs DEF HInv, Domains
<1>2. /\ i \notin Past(h) /\ i \in DOMAIN Body(h)
      /\ \A k, j : k # h \/ j # i => RecordsOf(k, j)' = RecordsOf(k, j)
      /\ RecordsOf(h, i)' = R
      /\ RecordInv(h)'
      /\ StoppedAt(h)' = StoppedAt(h)
      /\ \A r \in decisions' : r.handler \in Handlers
  <2>1. /\ i \notin Past(h) /\ i \in DOMAIN Body(h)
        /\ \A k, j : k # h \/ j # i => RecordsOf(k, j)' = RecordsOf(k, j)
        /\ RecordsOf(h, i)' = R
        /\ RecordInv(h)'
        /\ StoppedAt(h)' = StoppedAt(h) \cup {j \in {i} : Stops(R)}
        /\ \A r \in decisions' : r.handler \in Handlers
    BY <1>1, Decides
  <2>2. {j \in {i} : Stops(R)} = {}
    OBVIOUS
  <2> QED  BY <2>1, <2>2
<1>3. DecidedInv(h)'
  <2>1. DecidedInv(h)
    BY DEF HInv
  <2>2. StoppedAt(h)' \cup req'[h].calls = Past(h)'
    BY <1>1, <1>2, <2>1 DEF DecidedInv
  <2>3. StoppedAt(h)' \cap req'[h].calls = {}
    BY <1>1, <1>2, <2>1 DEF DecidedInv
  <2>4. \A j \in req'[h].calls : \E r \in RecordsOf(h, j)' : r.applied \in {"forwarded", "failed_open"}
    <3> SUFFICES ASSUME NEW j \in req[h].calls \cup {i}
                 PROVE  \E r \in RecordsOf(h, j)' : r.applied \in {"forwarded", "failed_open"}
      BY <1>1
    <3>1. CASE j = i
      BY <3>1, <1>2
    <3>2. CASE j # i
      BY <3>2, <1>2, <2>1 DEF DecidedInv
    <3> QED  BY <3>1, <3>2
  <2> QED  BY <1>1, <1>2, <2>1, <2>2, <2>3, <2>4 DEF DecidedInv
<1>4. req[h].pc \in Early /\ req'[h].pc \in Early
  BY <1>1 DEF Early
<1>5. SentInv(h)'
  <2>1. req'[h].pc \notin {"exchange", "observe", "record", "done"}
    BY <1>1 DEF Deciding
  <2> QED  BY <1>1, <1>2, <1>4, <2>1 DEF HInv, SentInv
<1>6. ResponseInv(h)'
  <2>1. req[h].pc # "done" /\ req'[h].pc # "done"
    BY <1>4 DEF Early, Deciding
  <2>2. \A j : Expected(h, j)' = Expected(h, j)
    BY <2>1, <1>2 DEF Expected
  <2> QED  BY <1>1, <2>2 DEF HInv, ResponseInv
<1>7. Domains'
  BY <1>1, <1>2 DEF Domains
<1> QED  BY <1>1, <1>2, <1>3, <1>5, <1>6, <1>7 DEF HInv

\* A step of one request leaves the others alone.
LEMMA OnlyTouches ==
  ASSUME GInv, NEW h \in Handlers, HInv(h)', Domains', enforce' = enforce,
         \A k \in Handlers \ {h} :
           /\ req'[k] = req[k] /\ responses'[k] = responses[k]
           /\ upstream'[k] = upstream[k] /\ refused'[k] = refused[k]
           /\ \A j : RecordsOf(k, j)' = RecordsOf(k, j)
  PROVE  GInv'
<1>1. ASSUME NEW k \in Handlers, k # h PROVE HInv(k)'
  BY <1>1, Untouched DEF GInv
<1> QED  BY <1>1 DEF GInv

LEMMA AttestForwardStep ==
  ASSUME GInv, NEW h \in Handlers, AttestForward(h)
  PROVE  GInv'
<1> DEFINE r == Record(h, req[h].bundle, Applied(enforce, Conclusion(h)), "queued")
<1>0. HInv(h) /\ Domains /\ req[h].pc \in Deciding
  BY DEF GInv, AttestForward, Deciding
<1>1. At(h).kind \in {"call", "llm"}
  BY <1>0 DEF HInv, PcInv, AttestForward
<1>2. /\ r.handler = h /\ r.at = req[h].at /\ r.bundle = req[h].bundle /\ r.sig = req[h].sig
      /\ r.decision = Conclusion(h) /\ r.applied = Applied(enforce, Conclusion(h))
      /\ r.fate = "queued"
  BY <1>1 DEF Record, Conclusion
<1>3. Applied(enforce, Conclusion(h)) \in {"forwarded", "failed_open"}
  BY DEF AttestForward, Applied
<1> HIDE DEF r
<1>4. Fresh(h, {r}) /\ ~Stops({r})
  BY <1>1, <1>2, <1>3 DEF Fresh, Stops, Conclusion
<1>5. /\ decisions' = decisions \cup {r}
      /\ Proceed(h, req[h].blocked, req[h].calls \cup {req[h].at})
      /\ UNCHANGED <<enforce, responses, upstream, refused>>
  BY DEF AttestForward, r
<1>6. /\ HInv(h)' /\ Domains'
      /\ \A k \in Handlers \ {h} : req'[k] = req[k] /\ \A j : RecordsOf(k, j)' = RecordsOf(k, j)
  BY <1>0, <1>2, <1>3, <1>4, <1>5, GoesOn
<1> QED  BY <1>5, <1>6, OnlyTouches

LEMMA AttestFailsOpenStep ==
  ASSUME GInv, NEW h \in Handlers, AttestFailsOpen(h)
  PROVE  GInv'
<1> DEFINE r == Record(h, req[h].bundle, "blocked", "unsure")
           s == Record(h, req[h].bundle, "failed_open", "queued")
<1>0. HInv(h) /\ Domains /\ req[h].pc \in Deciding
  BY DEF GInv, AttestFailsOpen, Deciding
<1>1. At(h).kind \in {"call", "llm"}
  BY <1>0 DEF HInv, PcInv, AttestFailsOpen
<1>2. /\ r.handler = h /\ r.at = req[h].at /\ r.bundle = req[h].bundle /\ r.sig = req[h].sig
      /\ r.decision = Conclusion(h) /\ r.applied = "blocked" /\ r.fate = "unsure"
      /\ s.handler = h /\ s.at = req[h].at /\ s.bundle = req[h].bundle /\ s.sig = req[h].sig
      /\ s.decision = Conclusion(h) /\ s.applied = "failed_open" /\ s.fate = "queued"
  BY <1>1 DEF Record, Conclusion
<1>3. Applied(enforce, Conclusion(h)) = "blocked"
  BY DEF AttestFailsOpen
<1> HIDE DEF r, s
<1>4. Fresh(h, {r, s}) /\ ~Stops({r, s})
  BY <1>1, <1>2, <1>3 DEF Fresh, Stops, Conclusion
<1>5. /\ decisions' = decisions \cup {r, s}
      /\ Proceed(h, req[h].blocked, req[h].calls \cup {req[h].at})
      /\ UNCHANGED <<enforce, responses, upstream, refused>>
  BY DEF AttestFailsOpen, r, s
<1>6. /\ HInv(h)' /\ Domains'
      /\ \A k \in Handlers \ {h} : req'[k] = req[k] /\ \A j : RecordsOf(k, j)' = RecordsOf(k, j)
  BY <1>0, <1>2, <1>4, <1>5, GoesOn
<1> QED  BY <1>5, <1>6, OnlyTouches

LEMMA IndeterminateStep ==
  ASSUME GInv, NEW h \in Handlers, Indeterminate(h)
  PROVE  GInv'
<1> DEFINE r == Record(h, current, Applied(enforce, "indeterminate"), "queued")
<1>0. HInv(h) /\ Domains /\ req[h].pc \in Deciding
  BY DEF GInv, Indeterminate, Deciding
<1>1. At(h).kind \notin {"call", "llm"}
  BY <1>0 DEF HInv, PcInv, Indeterminate
<1>2. /\ r.handler = h /\ r.at = req[h].at
      /\ r.decision = "indeterminate" /\ r.applied = "failed_open" /\ r.fate = "queued"
  BY <1>1 DEF Record, Applied
<1>3. Applied(enforce, "indeterminate") = "failed_open"
  BY DEF Applied
<1> HIDE DEF r
<1>4. Fresh(h, {r}) /\ ~Stops({r})
  BY <1>1, <1>2, <1>3 DEF Fresh, Stops
<1>5. /\ decisions' = decisions \cup {r}
      /\ Proceed(h, req[h].blocked, req[h].calls \cup {req[h].at})
      /\ UNCHANGED <<enforce, responses, upstream, refused>>
  BY DEF Indeterminate, r
<1>6. /\ HInv(h)' /\ Domains'
      /\ \A k \in Handlers \ {h} : req'[k] = req[k] /\ \A j : RecordsOf(k, j)' = RecordsOf(k, j)
  BY <1>0, <1>2, <1>4, <1>5, GoesOn
<1> QED  BY <1>5, <1>6, OnlyTouches

\* The answer to a stopped element is written into its own slot.
LEMMA StopAnswers ==
  ASSUME NEW h \in Handlers, NEW i \in DOMAIN Body(h), Domains, ResponseInv(h),
         i \notin StoppedAt(h), req[h].pc # "done", Respond(h, {i}, "error")
  PROVE  /\ responses'[h] = [j \in DOMAIN Body(h) |-> IF j = i THEN <<"error">> ELSE Expected(h, j)]
         /\ \A k \in Handlers \ {h} : responses'[k] = responses[k]
         /\ DOMAIN responses' = Handlers
<1>1. responses[h] = [j \in DOMAIN Body(h) |-> Expected(h, j)]
  BY DEF ResponseInv
<1>2. DOMAIN responses[h] = DOMAIN Body(h) /\ responses[h][i] = <<>>
  BY <1>1 DEF Expected
<1>3. Append(responses[h][i], "error") = <<"error">>
  BY <1>2
<1>4. /\ responses'[h] = [j \in DOMAIN responses[h] |-> IF j \in {i} THEN Append(responses[h][j], "error")
                                                       ELSE responses[h][j]]
      /\ \A k \in Handlers \ {h} : responses'[k] = responses[k]
      /\ DOMAIN responses' = Handlers
  BY DEF Respond, Domains
<1>5. \A j \in DOMAIN Body(h) : responses[h][j] = Expected(h, j)
  BY <1>1
<1> QED  BY <1>2, <1>3, <1>4, <1>5

LEMMA StopCallStep ==
  ASSUME GInv, NEW h \in Handlers, AttestStop(h), At(h).kind # "llm"
  PROVE  GInv'
<1> PICK i : i = req[h].at
  OBVIOUS
<1> DEFINE r == Record(h, req[h].bundle, "blocked", "durable")
<1>0. HInv(h) /\ Domains /\ req[h].pc \in Deciding /\ req[h].pc = "attest"
  BY DEF GInv, AttestStop, Deciding
<1>1. At(h).kind = "call"
  BY <1>0 DEF HInv, PcInv
<1>2. /\ r.handler = h /\ r.at = req[h].at /\ r.bundle = req[h].bundle /\ r.sig = req[h].sig
      /\ r.decision = Conclusion(h) /\ r.applied = "blocked" /\ r.fate = "durable"
  BY <1>1 DEF Record, Conclusion
<1>3. Applied(enforce, Conclusion(h)) = "blocked"
  BY DEF AttestStop
<1> HIDE DEF r
<1>4. Fresh(h, {r}) /\ Stops({r})
  BY <1>1, <1>2, <1>3 DEF Fresh, Stops, Conclusion
<1>5. /\ decisions' = decisions \cup {r}
      /\ Proceed(h, req[h].blocked \cup {At(h).id}, req[h].calls)
      /\ Respond(h, {i}, "error")
      /\ UNCHANGED <<enforce, upstream, refused>>
  BY DEF AttestStop, r
<1>6. /\ ReqShape(h)' /\ PcInv(h)' /\ Past(h)' = Past(h) \cup {i}
      /\ req'[h].pc \in Deciding \cup {"route"}
      /\ Body(h)' = Body(h)
      /\ req'[h].blocked = req[h].blocked \cup {At(h).id} /\ req'[h].calls = req[h].calls
      /\ \A k \in Handlers \ {h} : req'[k] = req[k]
      /\ ReqDomain'
  <2>1. ReqDomain /\ ReqShape(h) /\ PcInv(h)
    BY <1>0 DEF HInv, Domains
  <2> HIDE DEF r
  <2> QED  BY <1>0, <1>5, <2>1, ProceedIs
<1>7. /\ i \notin Past(h) /\ i \in DOMAIN Body(h)
      /\ \A k, j : k # h \/ j # i => RecordsOf(k, j)' = RecordsOf(k, j)
      /\ RecordInv(h)'
      /\ StoppedAt(h)' = StoppedAt(h) \cup {i}
      /\ \A x \in decisions' : x.handler \in Handlers
  <2>1. /\ i \notin Past(h) /\ i \in DOMAIN Body(h)
        /\ \A k, j : k # h \/ j # i => RecordsOf(k, j)' = RecordsOf(k, j)
        /\ RecordInv(h)'
        /\ StoppedAt(h)' = StoppedAt(h) \cup {j \in {i} : Stops({r})}
        /\ \A x \in decisions' : x.handler \in Handlers
    BY <1>0, <1>4, <1>5, <1>6, Decides
  <2>2. {j \in {i} : Stops({r})} = {i}
    BY <1>4
  <2> QED  BY <2>1, <2>2
<1>8. i \notin StoppedAt(h) /\ i \notin req[h].calls /\ Body(h)[i].kind = "call"
      /\ At(h) = Body(h)[i]
  BY <1>0, <1>1, <1>7 DEF HInv, DecidedInv, At
<1>9. DecidedInv(h)'
  <2>1. DecidedInv(h)
    BY <1>0 DEF HInv
  <2>2. /\ StoppedAt(h)' \cup req'[h].calls = Past(h)'
        /\ StoppedAt(h)' \cap req'[h].calls = {}
    BY <1>6, <1>7, <1>8, <2>1 DEF DecidedInv
  <2>3. \A j \in StoppedAt(h)' : Body(h)[j].kind \in {"call", "llm"}
    BY <1>7, <1>8, <2>1 DEF DecidedInv
  <2>4. req'[h].blocked = {Body(h)[j].id : j \in {l \in StoppedAt(h)' : Body(h)[l].kind = "call"}}
    <3>1. {l \in StoppedAt(h)' : Body(h)[l].kind = "call"}
            = {l \in StoppedAt(h) : Body(h)[l].kind = "call"} \cup {i}
      BY <1>7, <1>8
    <3>2. req[h].blocked = {Body(h)[j].id : j \in {l \in StoppedAt(h) : Body(h)[l].kind = "call"}}
      BY <2>1 DEF DecidedInv
    <3> QED  BY <3>1, <3>2, <1>6, <1>8
  <2>5. \A j \in req'[h].calls : \E x \in RecordsOf(h, j)' : x.applied \in {"forwarded", "failed_open"}
    BY <1>6, <1>7, <1>8, <2>1 DEF DecidedInv
  <2> QED  BY <1>6, <2>2, <2>3, <2>4, <2>5 DEF DecidedInv
<1>10. SentInv(h)'
  <2>1. req'[h].pc \notin {"exchange", "observe", "record", "done"} /\ req[h].pc \in Early
    BY <1>0, <1>6 DEF Deciding, Early
  <2>2. upstream[h] = {} /\ refused[h] = {} /\ \A j \in StoppedAt(h) : Body(h)[j].kind = "call"
    BY <1>0, <2>1 DEF HInv, SentInv
  <2>3. upstream'[h] = {} /\ refused'[h] = {} /\ \A j \in StoppedAt(h)' : Body(h)'[j].kind = "call"
    BY <1>5, <1>6, <1>7, <1>8, <2>2
  <2> QED  BY <2>1, <2>3 DEF SentInv
<1>11. /\ responses'[h] = [j \in DOMAIN Body(h) |-> IF j = i THEN <<"error">> ELSE Expected(h, j)]
       /\ \A k \in Handlers \ {h} : responses'[k] = responses[k]
       /\ DOMAIN responses' = Handlers
  BY <1>0, <1>5, <1>7, <1>8, StopAnswers DEF HInv
<1>12. ResponseInv(h)'
  <2>1. ASSUME NEW j \in DOMAIN Body(h)
        PROVE  Expected(h, j)' = IF j = i THEN <<"error">> ELSE Expected(h, j)
    <3>1. req[h].pc # "done" /\ req'[h].pc # "done"
      BY <1>0, <1>6 DEF Deciding
    <3>2. CASE j = i
      BY <3>2, <1>7 DEF Expected
    <3>3. CASE j # i
      BY <3>1, <3>3, <1>7 DEF Expected
    <3> QED  BY <3>2, <3>3
  <2> QED  BY <1>6, <1>11, <2>1 DEF ResponseInv
<1>13. HInv(h)' /\ Domains'
  BY <1>0, <1>5, <1>6, <1>7, <1>9, <1>10, <1>11, <1>12 DEF HInv, Domains
<1> QED  BY <1>5, <1>6, <1>7, <1>11, <1>13, OnlyTouches

\* A refused model call ends its request: the body has no other element.
LEMMA StopModelStep ==
  ASSUME GInv, NEW h \in Handlers, AttestStop(h), At(h).kind = "llm"
  PROVE  GInv'
<1> PICK i : i = req[h].at
  OBVIOUS
<1> DEFINE r == Record(h, req[h].bundle, "blocked", "durable")
<1>0. HInv(h) /\ Domains /\ req[h].pc \in Deciding /\ req[h].pc = "attest"
  BY DEF GInv, AttestStop, Deciding
<1>1. /\ DOMAIN Body(h) = {1} /\ Governed(Body(h)) = {1} /\ i = 1 /\ Past(h) = {}
  <2>1. Body(h) \in Seq(Element) /\ i \in Governed(Body(h)) /\ At(h) = Body(h)[i]
    BY <1>0 DEF HInv, ReqShape, PcInv, At, Body
  <2>2. i \in DOMAIN Body(h)
    BY <2>1 DEF Governed
  <2>3. Len(Body(h)) = 1
    BY <1>0, <2>1, <2>2 DEF HInv, ReqShape, NotMCP
  <2>4. DOMAIN Body(h) = {1}
    BY <2>1, <2>3
  <2>5. i = 1 /\ Governed(Body(h)) = {1}
    BY <2>1, <2>2, <2>4 DEF Governed
  <2> QED  BY <1>0, <2>4, <2>5 DEF Past
<1>2. /\ r.handler = h /\ r.at = req[h].at /\ r.bundle = req[h].bundle /\ r.sig = req[h].sig
      /\ r.decision = Conclusion(h) /\ r.applied = "blocked" /\ r.fate = "durable"
  BY DEF Record, Conclusion
<1>3. Applied(enforce, Conclusion(h)) = "blocked"
  BY DEF AttestStop
<1> HIDE DEF r
<1>4. Fresh(h, {r}) /\ Stops({r})
  BY <1>2, <1>3 DEF Fresh, Stops, Conclusion
<1>5. /\ decisions' = decisions \cup {r}
      /\ Respond(h, {i}, "error")
      /\ req' = [req EXCEPT ![h].pc = "done"] /\ refused' = [refused EXCEPT ![h] = {req[h].at}]
      /\ UNCHANGED <<enforce, upstream>>
  BY DEF AttestStop, r
<1>6. /\ req'[h] = [req[h] EXCEPT !.pc = "done"] /\ req'[h].pc = "done"
      /\ Body(h)' = Body(h) /\ req'[h].outcome = req[h].outcome
      /\ req'[h].blocked = req[h].blocked /\ req'[h].calls = req[h].calls
      /\ \A k \in Handlers \ {h} : req'[k] = req[k]
      /\ ReqDomain' /\ ReqShape(h)'
  BY <1>0, <1>5 DEF HInv, ReqShape, Domains, ReqDomain, Body, PCs
<1>7. PcInv(h)' /\ Past(h)' = Past(h) \cup {i}
  BY <1>1, <1>6 DEF PcInv, Past, Deciding, Early
<1>8. /\ i \notin Past(h) /\ i \in DOMAIN Body(h)
      /\ \A k, j : k # h \/ j # i => RecordsOf(k, j)' = RecordsOf(k, j)
      /\ RecordInv(h)'
      /\ StoppedAt(h)' = StoppedAt(h) \cup {i}
      /\ \A x \in decisions' : x.handler \in Handlers
  <2>1. /\ i \notin Past(h) /\ i \in DOMAIN Body(h)
        /\ \A k, j : k # h \/ j # i => RecordsOf(k, j)' = RecordsOf(k, j)
        /\ RecordInv(h)'
        /\ StoppedAt(h)' = StoppedAt(h) \cup {j \in {i} : Stops({r})}
        /\ \A x \in decisions' : x.handler \in Handlers
    BY <1>0, <1>4, <1>5, <1>6, <1>7, Decides
  <2>2. {j \in {i} : Stops({r})} = {i}
    BY <1>4
  <2> QED  BY <2>1, <2>2
<1>9. StoppedAt(h) = {} /\ req[h].calls = {} /\ req[h].blocked = {}
      /\ StoppedAt(h)' = {1} /\ Body(h)[1].kind = "llm" /\ req[h].outcome = "none"
      /\ upstream[h] = {}
  <2>1. DecidedInv(h) /\ SentInv(h) /\ PcInv(h)
    BY <1>0 DEF HInv
  <2>2. StoppedAt(h) = {} /\ req[h].calls = {}
    BY <1>1, <2>1 DEF DecidedInv
  <2>3. req[h].blocked = {}
    BY <2>1, <2>2 DEF DecidedInv
  <2>4. req[h].outcome = "none" /\ upstream[h] = {}
    BY <1>0, <2>1 DEF PcInv, SentInv, Early
  <2>5. Body(h)[1].kind = "llm"
    BY <1>1 DEF At
  <2> QED  BY <1>1, <1>8, <2>2, <2>3, <2>4, <2>5
<1>10. DecidedInv(h)'
  BY <1>1, <1>6, <1>7, <1>9 DEF DecidedInv
<1>11. SentInv(h)'
  <2>1. ModelRefused(h)'
    BY <1>0, <1>1, <1>5, <1>6, <1>9 DEF ModelRefused, Domains
  <2> QED  BY <1>6, <2>1 DEF SentInv, Early, Deciding
<1>12. /\ responses'[h] = [j \in DOMAIN Body(h) |-> IF j = i THEN <<"error">> ELSE Expected(h, j)]
       /\ \A k \in Handlers \ {h} : responses'[k] = responses[k]
       /\ DOMAIN responses' = Handlers
  <2>1. i \notin StoppedAt(h) /\ req[h].pc # "done" /\ ResponseInv(h)
    BY <1>0, <1>9 DEF HInv
  <2> QED  BY <1>0, <1>5, <1>8, <2>1, StopAnswers
<1>13. ResponseInv(h)'
  <2>1. ASSUME NEW j \in DOMAIN Body(h)
        PROVE  Expected(h, j)' = <<"error">> /\ j = i
    BY <1>1, <1>9 DEF Expected
  <2> QED  BY <1>6, <1>12, <2>1 DEF ResponseInv
<1>14. HInv(h)' /\ Domains' /\ enforce' = enforce
  BY <1>0, <1>5, <1>6, <1>7, <1>8, <1>10, <1>11, <1>12, <1>13 DEF HInv, Domains
<1>15. \A k \in Handlers \ {h} : upstream'[k] = upstream[k] /\ refused'[k] = refused[k]
  BY <1>0, <1>5 DEF Domains
<1> QED  BY <1>6, <1>8, <1>12, <1>14, <1>15, OnlyTouches
-----------------------------------------------------------------------------
LEMMA ArriveStep ==
  ASSUME GInv, NEW h \in Handlers, Arrive(h)
  PROVE  GInv'
<1>0. HInv(h) /\ Domains /\ req[h].pc = "idle"
  BY DEF GInv, Arrive
<1>1. PICK b \in Bodies[h] :
        /\ req' = [req EXCEPT ![h].pc = Stage(b, Following(b, 1)), ![h].body = b,
                              ![h].at = Following(b, 1)]
        /\ responses' = [responses EXCEPT ![h] = [i \in DOMAIN b |-> <<>>]]
  BY DEF Arrive
<1>2. b \in Seq(Element) /\ \A i \in DOMAIN b : b[i].kind \in NotMCP => Len(b) = 1
  BY GatewayAssumption
<1> PICK n : n = Following(b, 1)
  OBVIOUS
<1>3. /\ n \in Nat \ {0}
      /\ n <= Len(b) => n \in Governed(b)
      /\ \A j \in Governed(b) : n <= j
      /\ Governed(b) \subseteq 1 .. Len(b) /\ Len(b) \in Nat
  <2>1. Governed(b) \subseteq 1 .. Len(b) /\ Len(b) \in Nat
    BY <1>2 DEF Governed
  <2>2. \A j \in Governed(b) : j >= 1
    BY <2>1
  <2> QED  BY <1>2, <2>1, <2>2, FollowingIs
<1>4. /\ req'[h] = [req[h] EXCEPT !.pc = Stage(b, n), !.body = b, !.at = n]
      /\ \A k \in Handlers \ {h} : req'[k] = req[k]
      /\ ReqDomain'
  BY <1>0, <1>1 DEF Domains, ReqDomain
<1>5. /\ req'[h].pc = Stage(b, n) /\ req'[h].at = n /\ req'[h].body = b
      /\ req'[h].blocked = req[h].blocked /\ req'[h].calls = req[h].calls
      /\ req'[h].outcome = req[h].outcome /\ req'[h].bundle = req[h].bundle
      /\ Body(h)' = b
  BY <1>0, <1>4 DEF HInv, ReqShape, Body
<1>6. Stage(b, n) \in {"lookup", "evaluate", "indeterminate", "route"}
  BY DEF Stage
<1>7. ReqShape(h)'
  <2>1. Stage(b, n) \in PCs
    BY <1>6 DEF PCs
  <2> QED  BY <1>0, <1>2, <1>3, <1>4, <1>5, <2>1 DEF HInv, ReqShape
<1>8. PcInv(h)'
  <2>1. Stage(b, n) # "route" <=> n <= Len(b)
    BY <1>3 DEF Stage
  <2>2. /\ Stage(b, n) = "lookup" => b[n].kind = "call"
        /\ Stage(b, n) = "evaluate" => b[n].kind = "llm"
        /\ Stage(b, n) = "indeterminate" => b[n].kind \notin {"call", "llm"}
    BY DEF Stage
  <2>3. req[h].outcome = "none"
    BY <1>0 DEF HInv, PcInv, Early
  <2> QED  BY <1>3, <1>5, <1>6, <2>1, <2>2, <2>3 DEF PcInv, At, Deciding, Early
<1>9. Past(h)' = {}
  <2>1. CASE Stage(b, n) = "route"
    <3>1. Past(h)' = Governed(b)
      BY <2>1, <1>5 DEF Past, Deciding
    <3>2. ~(n <= Len(b))
      BY <2>1, <1>3 DEF Stage
    <3> QED  BY <3>1, <3>2, <1>3
  <2>2. CASE Stage(b, n) # "route"
    <3>1. Past(h)' = {j \in Governed(b) : j < n}
      BY <2>2, <1>5, <1>6 DEF Past, Deciding
    <3> QED  BY <3>1, <1>3
  <2> QED  BY <2>1, <2>2
<1>10. /\ Past(h) = {} /\ req[h].calls = {} /\ req[h].blocked = {}
       /\ upstream[h] = {} /\ refused[h] = {}
       /\ \A r \in decisions : r.handler # h
  <2>1. Past(h) = {}
    BY <1>0 DEF HInv, PcInv, Past, Governed, Deciding
  <2>2. req[h].calls = {} /\ StoppedAt(h) = {}
    BY <1>0, <2>1 DEF HInv, DecidedInv
  <2>3. req[h].blocked = {}
    BY <1>0, <2>2 DEF HInv, DecidedInv
  <2>4. upstream[h] = {} /\ refused[h] = {}
    BY <1>0 DEF HInv, SentInv, Early
  <2> QED  BY <1>0, <2>1, <2>2, <2>3, <2>4 DEF HInv, RecordInv, Faithful
<1>11. /\ UNCHANGED <<enforce, decisions, upstream, refused>>
       /\ \A k, j : RecordsOf(k, j)' = RecordsOf(k, j)
  BY DEF Arrive, RecordsOf
<1>12. StoppedAt(h)' = {} /\ RecordInv(h)'
  BY <1>10, <1>11 DEF StoppedAt, RecordsOf, RecordInv
<1>13. DecidedInv(h)'
  BY <1>5, <1>9, <1>10, <1>12 DEF DecidedInv
<1>14. SentInv(h)'
  <2>1. req'[h].pc \notin {"exchange", "observe", "record", "done"}
    BY <1>5, <1>6
  <2> QED  BY <1>10, <1>11, <1>12, <2>1 DEF SentInv
<1>15. ResponseInv(h)'
  <2>1. responses'[h] = [i \in DOMAIN b |-> <<>>]
    BY <1>0, <1>1 DEF Domains
  <2>2. \A i : Expected(h, i)' = <<>>
    BY <1>5, <1>6, <1>12 DEF Expected
  <2> QED  BY <1>5, <2>1, <2>2 DEF ResponseInv
<1>16. /\ DOMAIN responses' = Handlers
       /\ \A k \in Handlers \ {h} : responses'[k] = responses[k]
  BY <1>0, <1>1 DEF Domains
<1>17. HInv(h)' /\ Domains'
  BY <1>0, <1>4, <1>7, <1>8, <1>11, <1>12, <1>13, <1>14, <1>15, <1>16 DEF HInv, Domains
<1> QED  BY <1>4, <1>11, <1>16, <1>17, OnlyTouches

\* A step that decides nothing keeps what was decided.
LEMMA DecidesNothing ==
  ASSUME NEW h \in Handlers, HInv(h), enforce' = enforce, decisions' = decisions,
         Body(h)' = Body(h), Past(h)' = Past(h), req'[h].blocked = req[h].blocked,
         req'[h].calls = req[h].calls
  PROVE  /\ RecordInv(h)' /\ DecidedInv(h)'
         /\ StoppedAt(h)' = StoppedAt(h) /\ OnlyStopped(h)' = OnlyStopped(h)
         /\ \A k, j : RecordsOf(k, j)' = RecordsOf(k, j)
<1>1. \A k, j : RecordsOf(k, j)' = RecordsOf(k, j)
  BY DEF RecordsOf
<1>2. StoppedAt(h)' = StoppedAt(h) /\ OnlyStopped(h)' = OnlyStopped(h)
  BY <1>1 DEF StoppedAt, OnlyStopped
<1>3. RecordInv(h)'
  <2> SUFFICES ASSUME NEW r \in decisions, r.handler = h PROVE Faithful(h, r)'
    BY DEF RecordInv
  <2>1. Faithful(h, r)
    BY DEF HInv, RecordInv
  <2> QED  BY <1>1, <2>1 DEF Faithful
<1>4. DecidedInv(h)'
  BY <1>1, <1>2 DEF HInv, DecidedInv
<1> QED  BY <1>1, <1>2, <1>3, <1>4

LEMMA LookupStep ==
  ASSUME GInv, NEW h \in Handlers, Lookup(h)
  PROVE  GInv'
<1> PICK s : s = reg[Lower[At(h).tool]]
  OBVIOUS
<1>0. HInv(h) /\ Domains /\ req[h].pc = "lookup"
  BY DEF GInv, Lookup
<1>1. /\ req' = [req EXCEPT ![h].pc = "evaluate", ![h].sig = s]
      /\ UNCHANGED <<enforce, decisions, responses, upstream, refused>>
  BY DEF Lookup
<1>2. /\ req'[h] = [req[h] EXCEPT !.pc = "evaluate", !.sig = s]
      /\ \A k \in Handlers \ {h} : req'[k] = req[k]
      /\ ReqDomain'
  BY <1>0, <1>1 DEF Domains, ReqDomain
<1>3. /\ req'[h].pc = "evaluate" /\ req'[h].at = req[h].at
      /\ req'[h].blocked = req[h].blocked /\ req'[h].calls = req[h].calls
      /\ req'[h].outcome = req[h].outcome
      /\ Body(h)' = Body(h) /\ At(h)' = At(h)
  BY <1>0, <1>2 DEF HInv, ReqShape, Body, At
<1>4. ReqShape(h)'
  BY <1>0, <1>2, <1>3 DEF HInv, ReqShape, PCs
<1>5. PcInv(h)' /\ Past(h)' = Past(h)
  BY <1>0, <1>3 DEF HInv, PcInv, Past, Deciding, Early
<1>6. /\ RecordInv(h)' /\ DecidedInv(h)' /\ StoppedAt(h)' = StoppedAt(h)
      /\ \A k, j : RecordsOf(k, j)' = RecordsOf(k, j)
  BY <1>0, <1>1, <1>3, <1>5, DecidesNothing
<1>7. SentInv(h)'
  BY <1>0, <1>1, <1>3, <1>6 DEF HInv, SentInv, Early, Deciding
<1>8. ResponseInv(h)'
  <2>1. \A j : Expected(h, j)' = Expected(h, j)
    BY <1>0, <1>3, <1>6 DEF Expected
  <2> QED  BY <1>0, <1>1, <1>3, <2>1 DEF HInv, ResponseInv
<1>9. HInv(h)' /\ Domains'
  BY <1>0, <1>1, <1>2, <1>4, <1>5, <1>6, <1>7, <1>8 DEF HInv, Domains
<1> QED  BY <1>1, <1>2, <1>6, <1>9, OnlyTouches

LEMMA ReadStoreStep ==
  ASSUME GInv, current \in Documents, NEW h \in Handlers, ReadStore(h)
  PROVE  GInv'
<1>0. HInv(h) /\ Domains /\ req[h].pc = "evaluate"
  BY DEF GInv, ReadStore
<1>1. /\ req' = [req EXCEPT ![h].pc = "attest", ![h].bundle = current]
      /\ UNCHANGED <<enforce, decisions, responses, upstream, refused>>
  BY DEF ReadStore
<1>2. /\ req'[h] = [req[h] EXCEPT !.pc = "attest", !.bundle = current]
      /\ \A k \in Handlers \ {h} : req'[k] = req[k]
      /\ ReqDomain'
  BY <1>0, <1>1 DEF Domains, ReqDomain
<1>3. /\ req'[h].pc = "attest" /\ req'[h].at = req[h].at /\ req'[h].bundle = current
      /\ req'[h].blocked = req[h].blocked /\ req'[h].calls = req[h].calls
      /\ req'[h].outcome = req[h].outcome
      /\ Body(h)' = Body(h) /\ At(h)' = At(h)
  BY <1>0, <1>2 DEF HInv, ReqShape, Body, At
<1>4. ReqShape(h)'
  BY <1>0, <1>2, <1>3 DEF HInv, ReqShape, PCs
<1>5. PcInv(h)' /\ Past(h)' = Past(h)
  BY <1>0, <1>3 DEF HInv, PcInv, Past, Deciding, Early
<1>6. /\ RecordInv(h)' /\ DecidedInv(h)' /\ StoppedAt(h)' = StoppedAt(h)
      /\ \A k, j : RecordsOf(k, j)' = RecordsOf(k, j)
  BY <1>0, <1>1, <1>3, <1>5, DecidesNothing
<1>7. SentInv(h)'
  BY <1>0, <1>1, <1>3, <1>6 DEF HInv, SentInv, Early, Deciding
<1>8. ResponseInv(h)'
  <2>1. \A j : Expected(h, j)' = Expected(h, j)
    BY <1>0, <1>3, <1>6 DEF Expected
  <2> QED  BY <1>0, <1>1, <1>3, <2>1 DEF HInv, ResponseInv
<1>9. HInv(h)' /\ Domains'
  BY <1>0, <1>1, <1>2, <1>4, <1>5, <1>6, <1>7, <1>8 DEF HInv, Domains
<1> QED  BY <1>1, <1>2, <1>6, <1>9, OnlyTouches

LEMMA ReplyBlockedStep ==
  ASSUME GInv, NEW h \in Handlers, ReplyBlocked(h)
  PROVE  GInv'
<1>0. HInv(h) /\ Domains /\ req[h].pc = "route" /\ OnlyStopped(h)
  BY DEF GInv, ReplyBlocked
<1>1. /\ req' = [req EXCEPT ![h].pc = "done"]
      /\ refused' = [refused EXCEPT ![h] = ToolsCalls(Body(h))]
      /\ UNCHANGED <<enforce, decisions, responses, upstream>>
  BY DEF ReplyBlocked
<1>2. /\ req'[h] = [req[h] EXCEPT !.pc = "done"]
      /\ \A k \in Handlers \ {h} : req'[k] = req[k] /\ refused'[k] = refused[k]
      /\ ReqDomain' /\ DOMAIN refused' = Handlers /\ refused'[h] = ToolsCalls(Body(h))
  BY <1>0, <1>1 DEF Domains, ReqDomain
<1>3. /\ req'[h].pc = "done" /\ req'[h].outcome = req[h].outcome
      /\ req'[h].blocked = req[h].blocked /\ req'[h].calls = req[h].calls
      /\ Body(h)' = Body(h)
  BY <1>0, <1>2 DEF HInv, ReqShape, Body
<1>4. ReqShape(h)'
  BY <1>0, <1>2, <1>3 DEF HInv, ReqShape, PCs
<1>5. PcInv(h)' /\ Past(h)' = Past(h)
  BY <1>0, <1>3 DEF PcInv, Past, Deciding, Early
<1>6. /\ RecordInv(h)' /\ DecidedInv(h)' /\ StoppedAt(h)' = StoppedAt(h)
      /\ OnlyStopped(h)' = OnlyStopped(h)
      /\ \A k, j : RecordsOf(k, j)' = RecordsOf(k, j)
  BY <1>0, <1>1, <1>3, <1>5, DecidesNothing
<1>7. req[h].outcome = "none" /\ upstream[h] = {}
      /\ \A i \in StoppedAt(h) : Body(h)[i].kind = "call"
  BY <1>0 DEF HInv, PcInv, SentInv, Early
<1>8. SentInv(h)'
  <2>1. AnsweredHere(h)'
    BY <1>0, <1>1, <1>2, <1>3, <1>6, <1>7 DEF AnsweredHere
  <2> QED  BY <1>3, <2>1 DEF SentInv, Early, Deciding
<1>9. ResponseInv(h)'
  <2>1. \A j : Expected(h, j)' = Expected(h, j)
    BY <1>0, <1>3, <1>6, <1>7 DEF Expected
  <2> QED  BY <1>0, <1>1, <1>3, <2>1 DEF HInv, ResponseInv
<1>10. HInv(h)' /\ Domains'
  BY <1>0, <1>1, <1>2, <1>4, <1>5, <1>6, <1>8, <1>9 DEF HInv, Domains
<1> QED  BY <1>1, <1>2, <1>6, <1>10, OnlyTouches

LEMMA ForwardStep ==
  ASSUME GInv, NEW h \in Handlers, Forward(h)
  PROVE  GInv'
<1> PICK p : p = IF req[h].calls = {} /\ ~IsToolsList(Body(h)) THEN "done" ELSE "exchange"
  OBVIOUS
<1> PICK u : u = IF req[h].blocked = {} THEN DOMAIN Body(h) ELSE Rewritten(Body(h), req[h].blocked)
  OBVIOUS
<1>0. HInv(h) /\ Domains /\ req[h].pc = "route" /\ ~OnlyStopped(h) /\ p \in {"done", "exchange"}
  BY DEF GInv, Forward
<1>1. /\ req' = [req EXCEPT ![h].pc = p]
      /\ upstream' = [upstream EXCEPT ![h] = u]
      /\ UNCHANGED <<enforce, decisions, responses, refused>>
  BY DEF Forward
<1>2. /\ req'[h] = [req[h] EXCEPT !.pc = p]
      /\ \A k \in Handlers \ {h} : req'[k] = req[k] /\ upstream'[k] = upstream[k]
      /\ ReqDomain' /\ DOMAIN upstream' = Handlers /\ upstream'[h] = u
  BY <1>0, <1>1 DEF Domains, ReqDomain
<1>3. /\ req'[h].pc = p /\ req'[h].outcome = req[h].outcome
      /\ req'[h].blocked = req[h].blocked /\ req'[h].calls = req[h].calls
      /\ Body(h)' = Body(h)
  BY <1>0, <1>2 DEF HInv, ReqShape, Body
<1>4. ReqShape(h)'
  BY <1>0, <1>2, <1>3 DEF HInv, ReqShape, PCs
<1>7. req[h].outcome = "none" /\ refused[h] = {}
      /\ \A i \in StoppedAt(h) : Body(h)[i].kind = "call"
  BY <1>0 DEF HInv, PcInv, SentInv, Early
<1>5. PcInv(h)' /\ Past(h)' = Past(h)
  BY <1>0, <1>3, <1>7 DEF PcInv, Past, Deciding, Early
<1>6. /\ RecordInv(h)' /\ DecidedInv(h)' /\ StoppedAt(h)' = StoppedAt(h)
      /\ OnlyStopped(h)' = OnlyStopped(h)
      /\ \A k, j : RecordsOf(k, j)' = RecordsOf(k, j)
  BY <1>0, <1>1, <1>3, <1>5, DecidesNothing
<1>8. SentInv(h)'
  <2>1. SentOn(h)'
    BY <1>0, <1>1, <1>2, <1>3, <1>6, <1>7 DEF SentOn
  <2> QED  BY <1>0, <1>3, <2>1 DEF SentInv, Early, Deciding
<1>9. ResponseInv(h)'
  <2>1. \A j : Expected(h, j)' = Expected(h, j)
    BY <1>0, <1>3, <1>6, <1>7 DEF Expected
  <2> QED  BY <1>0, <1>1, <1>3, <2>1 DEF HInv, ResponseInv
<1>10. HInv(h)' /\ Domains'
  BY <1>0, <1>1, <1>2, <1>4, <1>5, <1>6, <1>8, <1>9 DEF HInv, Domains
<1> QED  BY <1>1, <1>2, <1>6, <1>10, OnlyTouches

\* What an exchange leaves of a request, and what it shows.
LEMMA ExchangeIs ==
  ASSUME NEW h \in Handlers, Exchange(h)
  PROVE  \E out \in Outcomes \ {"none"}, c \in Seq(Declaration), p \in {"done", "observe", "record"} :
           /\ req' = [req EXCEPT ![h].outcome = out, ![h].capture = c, ![h].pc = p]
           /\ seen' = seen \cup {Lower[c[i].tool] : i \in DOMAIN c}
           /\ (p = "done" <=> out = "aborted") /\ (c # <<>> => p = "observe")
<1>1. PICK outcome \in Outcomes \ {"none"}, listed \in Catalogues, fits \in BOOLEAN :
        LET read == IF outcome = "completed" /\ IsToolsList(Body(h)) /\ fits
                    THEN listed ELSE <<>>
        IN /\ req' = [req EXCEPT ![h].outcome = outcome, ![h].capture = read,
                        ![h].pc = IF outcome = "aborted" THEN "done"
                                  ELSE IF read # <<>> THEN "observe" ELSE "record"]
           /\ seen' = seen \cup {Lower[read[i].tool] : i \in DOMAIN read}
  BY ZenonT(40) DEF Exchange
<1> DEFINE read == IF outcome = "completed" /\ IsToolsList(Body(h)) /\ fits THEN listed ELSE <<>>
           p == IF outcome = "aborted" THEN "done"
                ELSE IF read # <<>> THEN "observe" ELSE "record"
<1>2. read \in Seq(Declaration)
  BY GatewayAssumption
<1>3. /\ p \in {"done", "observe", "record"} /\ (p = "done" <=> outcome = "aborted")
      /\ (read # <<>> => p = "observe")
  OBVIOUS
<1>4. /\ req' = [req EXCEPT ![h].outcome = outcome, ![h].capture = read, ![h].pc = p]
      /\ seen' = seen \cup {Lower[read[i].tool] : i \in DOMAIN read}
  BY <1>1
<1> HIDE DEF read, p
<1> QED  BY <1>2, <1>3, <1>4

LEMMA ExchangeStep ==
  ASSUME GInv, NEW h \in Handlers, Exchange(h)
  PROVE  GInv'
<1>0. HInv(h) /\ Domains /\ req[h].pc = "exchange"
  BY DEF GInv, Exchange
<1>1. PICK out, c, p :
        /\ out \in Outcomes \ {"none"} /\ p \in {"done", "observe", "record"}
        /\ req' = [req EXCEPT ![h].outcome = out, ![h].capture = c, ![h].pc = p]
        /\ (p = "done" <=> out = "aborted")
  BY ExchangeIs
<1>2. /\ UNCHANGED <<enforce, decisions, responses, upstream, refused>>
      /\ req'[h] = [req[h] EXCEPT !.outcome = out, !.capture = c, !.pc = p]
      /\ \A k \in Handlers \ {h} : req'[k] = req[k]
      /\ ReqDomain'
  BY <1>0, <1>1 DEF Exchange, Domains, ReqDomain
<1>3. /\ req'[h].pc = p /\ req'[h].outcome = out
      /\ req'[h].blocked = req[h].blocked /\ req'[h].calls = req[h].calls
      /\ Body(h)' = Body(h)
  BY <1>0, <1>2 DEF HInv, ReqShape, Body
<1>4. ReqShape(h)'
  <2>1. out \in Outcomes /\ p \in PCs
    BY <1>1 DEF PCs
  <2>2. /\ req'[h].sig = req[h].sig /\ req'[h].capture = c
        /\ req'[h] \in [pc : PCs, body : Seq(Element), at : Nat \ {0}, sig : {req[h].sig},
                       bundle : Documents \cup {NoDocument}, blocked : {req[h].blocked},
                       calls : {req[h].calls}, capture : {c}, outcome : Outcomes]
    BY <1>0, <1>2, <2>1 DEF HInv, ReqShape
  <2> QED  BY <1>0, <1>3, <2>2 DEF HInv, ReqShape
<1>5. PcInv(h)' /\ Past(h)' = Past(h)
  BY <1>0, <1>1, <1>3 DEF PcInv, Past, Deciding, Early, Outcomes
<1>6. /\ RecordInv(h)' /\ DecidedInv(h)' /\ StoppedAt(h)' = StoppedAt(h)
      /\ OnlyStopped(h)' = OnlyStopped(h)
      /\ \A k, j : RecordsOf(k, j)' = RecordsOf(k, j)
  BY <1>0, <1>2, <1>3, <1>5, DecidesNothing
<1>7. SentInv(h)'
  <2>1. SentOn(h)
    BY <1>0 DEF HInv, SentInv
  <2>2. SentOn(h)'
    BY <1>1, <1>2, <1>3, <1>6, <2>1 DEF SentOn
  <2> QED  BY <1>1, <1>3, <2>2 DEF SentInv, Early, Deciding
<1>8. ResponseInv(h)'
  <2>1. \A j : Expected(h, j)' = Expected(h, j)
    BY <1>0, <1>1, <1>3, <1>6 DEF Expected
  <2> QED  BY <1>0, <1>2, <1>3, <2>1 DEF HInv, ResponseInv
<1>9. HInv(h)' /\ Domains'
  BY <1>0, <1>2, <1>4, <1>5, <1>6, <1>7, <1>8 DEF HInv, Domains
<1> QED  BY <1>2, <1>6, <1>9, OnlyTouches

LEMMA ObserveStep ==
  ASSUME GInv, NEW h \in Handlers, Observe(h)
  PROVE  GInv'
<1>0. HInv(h) /\ Domains /\ req[h].pc = "observe"
  BY DEF GInv, Observe
<1>1. /\ req' = [req EXCEPT ![h].pc = "record"]
      /\ UNCHANGED <<enforce, decisions, responses, upstream, refused>>
  BY DEF Observe
<1>2. /\ req'[h] = [req[h] EXCEPT !.pc = "record"]
      /\ \A k \in Handlers \ {h} : req'[k] = req[k]
      /\ ReqDomain'
  BY <1>0, <1>1 DEF Domains, ReqDomain
<1>3. /\ req'[h].pc = "record" /\ req'[h].outcome = req[h].outcome
      /\ req'[h].blocked = req[h].blocked /\ req'[h].calls = req[h].calls
      /\ Body(h)' = Body(h)
  BY <1>0, <1>2 DEF HInv, ReqShape, Body
<1>4. ReqShape(h)'
  BY <1>0, <1>2, <1>3 DEF HInv, ReqShape, PCs
<1>5. PcInv(h)' /\ Past(h)' = Past(h)
  BY <1>0, <1>3 DEF HInv, PcInv, Past, Deciding, Early
<1>6. /\ RecordInv(h)' /\ DecidedInv(h)' /\ StoppedAt(h)' = StoppedAt(h)
      /\ OnlyStopped(h)' = OnlyStopped(h)
      /\ \A k, j : RecordsOf(k, j)' = RecordsOf(k, j)
  BY <1>0, <1>1, <1>3, <1>5, DecidesNothing
<1>7. SentInv(h)'
  <2>1. SentOn(h)
    BY <1>0 DEF HInv, SentInv
  <2>2. SentOn(h)'
    BY <1>1, <1>3, <1>6, <2>1 DEF SentOn
  <2> QED  BY <1>3, <2>2 DEF SentInv, Early, Deciding
<1>8. ResponseInv(h)'
  <2>1. \A j : Expected(h, j)' = Expected(h, j)
    BY <1>0, <1>3, <1>6 DEF Expected
  <2> QED  BY <1>0, <1>1, <1>3, <2>1 DEF HInv, ResponseInv
<1>9. HInv(h)' /\ Domains'
  BY <1>0, <1>1, <1>2, <1>4, <1>5, <1>6, <1>7, <1>8 DEF HInv, Domains
<1> QED  BY <1>1, <1>2, <1>6, <1>9, OnlyTouches

LEMMA RecordResponseStep ==
  ASSUME GInv, NEW h \in Handlers, RecordResponse(h)
  PROVE  GInv'
<1> PICK w : w = IF req[h].outcome = "hijacked" THEN "unseen" ELSE "hash"
  OBVIOUS
<1>0. HInv(h) /\ Domains /\ req[h].pc = "record"
  BY DEF GInv, RecordResponse
<1>1. /\ req' = [req EXCEPT ![h].pc = "done"]
      /\ Respond(h, req[h].calls, w)
      /\ UNCHANGED <<enforce, decisions, upstream, refused>>
  BY DEF RecordResponse
<1>2. /\ req'[h] = [req[h] EXCEPT !.pc = "done"]
      /\ \A k \in Handlers \ {h} : req'[k] = req[k] /\ responses'[k] = responses[k]
      /\ ReqDomain' /\ DOMAIN responses' = Handlers
      /\ responses'[h] = [j \in DOMAIN responses[h] |->
                            IF j \in req[h].calls THEN Append(responses[h][j], w) ELSE responses[h][j]]
  BY <1>0, <1>1 DEF Domains, ReqDomain, Respond
<1>3. /\ req'[h].pc = "done" /\ req'[h].outcome = req[h].outcome
      /\ req'[h].blocked = req[h].blocked /\ req'[h].calls = req[h].calls
      /\ Body(h)' = Body(h)
  BY <1>0, <1>2 DEF HInv, ReqShape, Body
<1>4. ReqShape(h)'
  BY <1>0, <1>2, <1>3 DEF HInv, ReqShape, PCs
<1>5. PcInv(h)' /\ Past(h)' = Past(h)
  BY <1>0, <1>3 DEF HInv, PcInv, Past, Deciding, Early
<1>6. /\ RecordInv(h)' /\ DecidedInv(h)' /\ StoppedAt(h)' = StoppedAt(h)
      /\ OnlyStopped(h)' = OnlyStopped(h)
      /\ \A k, j : RecordsOf(k, j)' = RecordsOf(k, j)
  BY <1>0, <1>1, <1>3, <1>5, DecidesNothing
<1>7. req[h].outcome \in {"completed", "hijacked"}
  BY <1>0 DEF HInv, PcInv
<1>8. SentInv(h)'
  <2>1. SentOn(h)
    BY <1>0 DEF HInv, SentInv
  <2>2. SentOn(h)'
    BY <1>1, <1>3, <1>6, <1>7, <2>1 DEF SentOn
  <2> QED  BY <1>3, <2>2 DEF SentInv, Early, Deciding
<1>9. ResponseInv(h)'
  <2>1. responses[h] = [j \in DOMAIN Body(h) |-> Expected(h, j)]
    BY <1>0 DEF HInv, ResponseInv
  <2>2. ASSUME NEW j \in DOMAIN Body(h), j \in req[h].calls
        PROVE  Append(responses[h][j], w) = Expected(h, j)'
    <3>1. j \notin StoppedAt(h)
      BY <1>0, <2>2 DEF HInv, DecidedInv
    <3>2. responses[h][j] = <<>>
      BY <1>0, <2>1, <3>1 DEF Expected
    <3>3. Append(responses[h][j], w) = <<w>>
      BY <3>2
    <3>4. Expected(h, j)' = <<w>>
      BY <1>3, <1>6, <1>7, <2>2, <3>1 DEF Expected
    <3> QED  BY <3>3, <3>4
  <2>3. ASSUME NEW j \in DOMAIN Body(h), j \notin req[h].calls
        PROVE  responses[h][j] = Expected(h, j)'
    <3>1. Expected(h, j)' = Expected(h, j)
      BY <1>0, <1>3, <1>6, <2>3 DEF Expected
    <3> QED  BY <2>1, <3>1
  <2>4. DOMAIN responses[h] = DOMAIN Body(h)
    BY <2>1
  <2> QED  BY <1>2, <1>3, <2>2, <2>3, <2>4 DEF ResponseInv
<1>10. HInv(h)' /\ Domains'
  BY <1>0, <1>1, <1>2, <1>4, <1>5, <1>6, <1>8, <1>9 DEF HInv, Domains
<1> QED  BY <1>1, <1>2, <1>6, <1>10, OnlyTouches
-----------------------------------------------------------------------------
LEMMA GInvInit == GatewayInit => GInv
<1> SUFFICES ASSUME GatewayInit PROVE GInv
  OBVIOUS
<1>1. Domains
  BY DEF GatewayInit, Domains, ReqDomain
<1>2. ASSUME NEW h \in Handlers PROVE HInv(h)
  <2>1. /\ req[h] = Idle /\ decisions = {} /\ responses[h] = <<>>
        /\ upstream[h] = {} /\ refused[h] = {}
    BY DEF GatewayInit
  <2>2. /\ req[h].pc = "idle" /\ Body(h) = <<>> /\ req[h].blocked = {} /\ req[h].calls = {}
        /\ req[h].outcome = "none"
    BY <2>1 DEF Idle, Body
  <2>3. ReqShape(h)
    BY <2>1, <2>2 DEF ReqShape, Idle, PCs, Outcomes
  <2>4. PcInv(h)
    BY <2>2 DEF PcInv, Deciding, Early
  <2>5. StoppedAt(h) = {} /\ Past(h) = {}
    BY <2>2 DEF StoppedAt, Past, Governed, Deciding
  <2>6. RecordInv(h) /\ DecidedInv(h)
    BY <2>1, <2>2, <2>5 DEF RecordInv, DecidedInv
  <2>7. SentInv(h)
    BY <2>1, <2>2, <2>5 DEF SentInv
  <2>8. ResponseInv(h)
    <3>1. DOMAIN Body(h) = {}
      BY <2>2
    <3>2. [i \in DOMAIN Body(h) |-> Expected(h, i)] = <<>>
      BY <3>1
    <3> QED  BY <2>1, <3>2 DEF ResponseInv
  <2> QED  BY <2>3, <2>4, <2>6, <2>7, <2>8 DEF HInv
<1> QED  BY <1>1, <1>2 DEF GInv

LEMMA GInvStutter ==
  ASSUME GInv, UNCHANGED trafficVars
  PROVE  GInv'
<1>1. UNCHANGED <<enforce, req, decisions, responses, upstream, refused>>
  BY DEF trafficVars
<1>2. \A k, j : RecordsOf(k, j)' = RecordsOf(k, j)
  BY <1>1 DEF RecordsOf
<1>3. \A h \in Handlers : HInv(h)'
  BY <1>1, <1>2, Untouched DEF GInv
<1>4. Domains'
  BY <1>1 DEF GInv, Domains, ReqDomain
<1> QED  BY <1>3, <1>4 DEF GInv

LEMMA GInvStep ==
  ASSUME GInv, StoreInv, GatewayNext
  PROVE  GInv'
<1>1. ASSUME NEW h \in Handlers, Serve(h) PROVE GInv'
  <2>1. current \in Documents
    BY DEF StoreInv, StoreTypeOK
  <2>2. CASE AttestStop(h)
    BY <2>2, StopCallStep, StopModelStep
  <2> QED  BY <1>1, <2>1, <2>2, ArriveStep, LookupStep, ReadStoreStep, AttestForwardStep,
              AttestFailsOpenStep, IndeterminateStep, ReplyBlockedStep, ForwardStep,
              ExchangeStep, ObserveStep, RecordResponseStep
           DEF Serve
<1> QED  BY <1>1, GInvStutter DEF GatewayNext

\* A request changes nothing of the store.
LEMMA ServeKeepsStore ==
  ASSUME NEW h \in Handlers, Serve(h)
  PROVE  UNCHANGED storeVars
BY DEF Serve, Arrive, Lookup, ReadStore, AttestForward, AttestStop, AttestFailsOpen,
       Indeterminate, ReplyBlocked, Forward, Exchange, Observe, RecordResponse
-----------------------------------------------------------------------------
\* The inductive invariant holds at every moment: what a request has recorded, collected,
\* sent on and answered agree, for any bodies, bundles and overlapping reloads
\* (main.go ServeHTTP, store.go).
THEOREM GatewayInvariant == GatewaySpec => [](GInv /\ StoreInv)
<1>1. GatewayInit => GInv /\ StoreInv
  BY GInvInit, StoreInvInit DEF GatewayInit
<1>2. GInv /\ StoreInv /\ [GatewayNext]_gatewayVars => GInv' /\ StoreInv'
  <2> SUFFICES ASSUME GInv, StoreInv, [GatewayNext]_gatewayVars PROVE GInv' /\ StoreInv'
    OBVIOUS
  <2>1. CASE UNCHANGED gatewayVars
    BY <2>1, GInvStutter, StoreInvStutter DEF gatewayVars
  <2>2. CASE GatewayNext
    <3>1. StoreInv'
      BY <2>2, StoreInvStep, StoreInvStutter, ServeKeepsStore DEF GatewayNext
    <3> QED  BY <2>2, <3>1, GInvStep
  <2> QED  BY <2>1, <2>2
<1> QED  BY <1>1, <1>2, PTL DEF GatewaySpec

\* A rollback puts back the bundle that was in force before the latest one still standing,
\* however it overlaps with reloads, and never one that does not load (store.go Rollback).
THEOREM RollbacksWalkBack == GatewaySpec => []RollbackWalksBack
<1>1. StoreInv => RollbackWalksBack
  BY DEF StoreInv
<1> QED  BY <1>1, GatewayInvariant, PTL

\* Where a stopped element is sent on, the filter kept nothing of its body.
LEMMA StoppedIsSent ==
  ASSUME NEW h \in Handlers, HInv(h), NEW i \in upstream[h], i \in StoppedAt(h)
  PROVE  KeepsNothing(h)
<1>1. ~(req[h].pc \in Early) /\ ~AnsweredHere(h) /\ ~ModelRefused(h)
  BY DEF HInv, SentInv, AnsweredHere, ModelRefused
<1>2. SentOn(h)
  BY <1>1 DEF HInv, SentInv, ReqShape, PCs, Early, Deciding
<1>3. Body(h)[i].kind = "call" /\ i \in ToolsCalls(Body(h))
  BY <1>2 DEF SentOn, StoppedAt, ToolsCalls
<1>4. Body(h)[i].id \in req[h].blocked
  BY <1>3 DEF HInv, DecidedInv
<1>5. upstream[h] = Rewritten(Body(h), req[h].blocked)
  BY <1>2, <1>4 DEF SentOn
<1>6. i \notin Kept(Body(h), req[h].blocked)
  BY <1>3, <1>4 DEF Kept
<1> QED  BY <1>4, <1>5, <1>6 DEF Rewritten, KeepsNothing

\* An element of a body that was sent on is missing only where a stopped call has its id.
LEMMA LeftOut ==
  ASSUME NEW h \in Handlers, HInv(h), SentOn(h), NEW i \in DOMAIN Body(h)
  PROVE  i \in upstream[h] \cup StoppedAt(h) \/ SharedId(h)
<1> SUFFICES ASSUME i \notin upstream[h], i \notin StoppedAt(h) PROVE SharedId(h)
  OBVIOUS
<1>1. req[h].blocked # {} /\ upstream[h] = Rewritten(Body(h), req[h].blocked)
  BY DEF SentOn
<1>2. i \in ToolsCalls(Body(h)) /\ Body(h)[i].id \in req[h].blocked
  BY <1>1 DEF Rewritten, Kept
<1>3. PICK j \in StoppedAt(h) : Body(h)[j].id = Body(h)[i].id
  BY <1>2 DEF HInv, DecidedInv
<1> QED  BY <1>2, <1>3 DEF SharedId

LEMMA BlockingRuleBlocks ==
  ASSUME NEW d, NEW tool, NEW sig, MustStop(d, tool, sig)
  PROVE  Evaluate(d, tool, sig) = "block"
<1>1. Answering(d, tool, sig, "error") = {}
  BY DEF MustStop, Answering
<1>2. PICK p \in Content[d] : /\ p.on[<<Lower[tool], sig>>] = "yes"
                             /\ p.effect = "forbid" /\ p.enforce = "block"
  BY DEF MustStop
<1>3. p \in Satisfied(d, tool, sig, "forbid")
  BY <1>2 DEF Satisfied, Answering
<1>4. ~Authorized(d, tool, sig) /\ p \in Determining(d, tool, sig)
  BY <1>3 DEF Authorized, Determining
<1> QED  BY <1>1, <1>2, <1>4 DEF Evaluate

\* With -enforce, a call that the bundle on its record stops is not sent on, unless the
\* stop could not be recorded or the filter kept nothing of the body (main.go decideCall,
\* block_rpc.go filterBlockedCalls).
THEOREM EnforcedIsStoppedHolds == GatewaySpec => []EnforcedIsStopped
<1>1. GInv => EnforcedIsStopped
  <2> SUFFICES ASSUME GInv, enforce, NEW h \in Handlers, NEW i \in upstream[h],
                      NEW r \in RecordsOf(h, i), Body(h)[i].kind \in {"call", "llm"},
                      MustStop(r.bundle, Body(h)[i].tool, r.sig)
               PROVE  (\E s \in RecordsOf(h, i) : s.applied = "failed_open") \/ KeepsNothing(h)
    BY DEF EnforcedIsStopped
  <2>1. HInv(h) /\ r \in decisions /\ r.at = i /\ r.handler = h
    BY DEF GInv, RecordsOf
  <2>2. Faithful(h, r)
    BY <2>1 DEF HInv, RecordInv
  <2>3. r.decision = "block"
    BY <2>1, <2>2, BlockingRuleBlocks DEF Faithful
  <2>4. CASE r.applied = "blocked" /\ r.fate = "durable"
    <3>1. i \in DOMAIN Body(h)
      BY <2>1, <2>2 DEF Faithful, Past, Governed
    <3>2. i \in StoppedAt(h)
      BY <2>4, <3>1 DEF StoppedAt
    <3> QED  BY <2>1, <3>2, StoppedIsSent
  <2>5. CASE r.applied = "blocked" /\ r.fate = "unsure"
    BY <2>1, <2>2, <2>5 DEF Faithful
  <2>6. Applied(enforce, r.decision) = "blocked"
    BY <2>3 DEF Applied
  <2> QED  BY <2>2, <2>4, <2>5, <2>6 DEF Faithful
<1> QED  BY <1>1, GatewayInvariant, PTL

\* Stopping a call costs no other element of its body, outside the windows, and a proxy
\* in monitor mode sends every body on whole (main.go ServeHTTP, filterBlockedCalls).
THEOREM NothingElseIsLostHolds == GatewaySpec => []NothingElseIsLost
<1>1. GInv => NothingElseIsLost
  <2> SUFFICES ASSUME GInv, NEW h \in Handlers, Routed(h)
               PROVE  /\ \A i \in DOMAIN Body(h) :
                           i \in upstream[h] \cup StoppedAt(h) \/ SharedId(h) \/ OnlyStopped(h)
                      /\ ~enforce => upstream[h] = DOMAIN Body(h)
    BY DEF NothingElseIsLost
  <2>1. HInv(h)
    BY DEF GInv
  <2>2. SentOn(h) \/ AnsweredHere(h) \/ ModelRefused(h)
    BY <2>1 DEF HInv, SentInv, Routed
  <2>3. ASSUME ~enforce PROVE StoppedAt(h) = {} /\ req[h].blocked = {}
    <3>1. ASSUME NEW i \in StoppedAt(h) PROVE FALSE
      <4>1. PICK r \in decisions : r.handler = h /\ r.applied = "blocked"
        BY DEF StoppedAt, RecordsOf
      <4>2. Faithful(h, r)
        BY <2>1, <4>1 DEF HInv, RecordInv
      <4> QED  BY <2>3, <4>1, <4>2 DEF Faithful, Applied
    <3> QED  BY <2>1, <3>1 DEF HInv, DecidedInv
  <2>4. CASE SentOn(h)
    BY <2>1, <2>3, <2>4, LeftOut DEF SentOn
  <2>5. CASE AnsweredHere(h)
    BY <2>3, <2>5 DEF AnsweredHere, OnlyStopped
  <2>6. CASE ModelRefused(h)
    BY <2>3, <2>6 DEF ModelRefused
  <2> QED  BY <2>2, <2>4, <2>5, <2>6
<1> QED  BY <1>1, GatewayInvariant, PTL

\* Evidence first: what is sent on is on record as going on, what the client is told is
\* blocked is durably on record, and a record's action is what its bundle concludes
\* (main.go ServeHTTP, actuator.go).
THEOREM EffectsAreOnRecordHolds == GatewaySpec => []EffectsAreOnRecord
<1>1. GInv => EffectsAreOnRecord
  <2> SUFFICES ASSUME GInv PROVE EffectsAreOnRecord
    OBVIOUS
  <2>1. ASSUME NEW h \in Handlers, NEW i \in upstream[h] \cap Governed(Body(h))
        PROVE  (\E r \in RecordsOf(h, i) : r.applied \in {"forwarded", "failed_open"})
                 \/ KeepsNothing(h)
    <3>1. HInv(h)
      BY DEF GInv
    <3>2. i \in Past(h)
      BY <3>1 DEF HInv, SentInv, Past, Early
    <3>3. CASE i \in StoppedAt(h)
      BY <3>1, <3>3, StoppedIsSent
    <3>4. CASE i \in req[h].calls
      BY <3>1, <3>4 DEF HInv, DecidedInv
    <3> QED  BY <3>1, <3>2, <3>3, <3>4 DEF HInv, DecidedInv
  <2>2. ASSUME NEW h \in Handlers PROVE refused[h] \subseteq StoppedAt(h)
    <3>1. HInv(h)
      BY DEF GInv
    <3>2. CASE AnsweredHere(h) /\ req[h].pc = "done"
      <4>1. Past(h) = Governed(Body(h)) /\ req[h].calls = {}
        BY <3>2 DEF Past, AnsweredHere, OnlyStopped, Deciding
      <4>2. StoppedAt(h) = Governed(Body(h))
        BY <3>1, <4>1 DEF HInv, DecidedInv
      <4>3. ToolsCalls(Body(h)) \subseteq Governed(Body(h))
        BY DEF ToolsCalls, Governed
      <4> QED  BY <3>2, <4>2, <4>3 DEF AnsweredHere
    <3>3. req[h].pc \in Early \cup {"exchange", "observe", "record", "done"}
      BY <3>1 DEF HInv, ReqShape, PCs, Early, Deciding
    <3> QED  BY <3>1, <3>2, <3>3 DEF HInv, SentInv, SentOn, ModelRefused
  <2>3. ASSUME NEW r \in decisions
        PROVE  \/ r.applied = Applied(enforce, r.decision)
               \/ /\ r.applied = "failed_open"
                  /\ \E s \in RecordsOf(r.handler, r.at) : s.fate = "unsure"
    <3>1. r.handler \in Handlers
      BY DEF GInv, Domains
    <3> QED  BY <3>1 DEF GInv, HInv, RecordInv, Faithful
  <2> QED  BY <2>1, <2>2, <2>3 DEF EffectsAreOnRecord
<1> QED  BY <1>1, GatewayInvariant, PTL

\* What ResponsesJoin says of one element that got these records.
Joins(h, i, got) ==
  /\ Len(got) <= 1
  /\ got # <<>> => RecordsOf(h, i) # {}
  /\ req[h].pc = "done" /\ req[h].outcome # "aborted" /\ i \in Governed(Body(h)) => got # <<>>
  /\ got = <<"error">> => i \in StoppedAt(h)
  /\ got = <<"error">> /\ req[h].pc = "done" => (i \in refused[h] \/ StoppedInPart(h))
  /\ got \in {<<"hash">>, <<"unseen">>} => (i \in upstream[h] \/ SharedId(h))

\* A response record joins one decision: none is doubled, none is orphaned, and an exchange
\* that ran to its end leaves no call without one (main.go ServeHTTP, recordExchange).
THEOREM ResponsesJoinHolds == GatewaySpec => []ResponsesJoin
<1>1. GInv => ResponsesJoin
  <2> SUFFICES ASSUME GInv, NEW h \in Handlers, NEW i \in DOMAIN responses[h]
               PROVE  Joins(h, i, responses[h][i])
    BY DEF ResponsesJoin, Joins
  <2> PICK got : got = responses[h][i]
    OBVIOUS
  <2>1. HInv(h)
    BY DEF GInv
  <2>2. i \in DOMAIN Body(h) /\ got = Expected(h, i)
    BY <2>1 DEF HInv, ResponseInv
  <2>3. CASE i \in StoppedAt(h)
    <3>1. got = <<"error">> /\ RecordsOf(h, i) # {}
      BY <2>2, <2>3 DEF Expected, StoppedAt
    <3>2. ASSUME req[h].pc = "done" PROVE i \in refused[h] \/ StoppedInPart(h)
      <4>1. CASE SentOn(h)
        <5>1. Body(h)[i].id \in req[h].blocked
          BY <2>1, <2>3, <4>1 DEF SentOn, HInv, DecidedInv
        <5> QED  BY <4>1, <5>1 DEF SentOn, StoppedInPart
      <4>2. CASE AnsweredHere(h)
        BY <2>2, <2>3, <4>2 DEF AnsweredHere, ToolsCalls
      <4>3. CASE ModelRefused(h)
        BY <2>2, <4>3 DEF ModelRefused
      <4> QED  BY <2>1, <3>2, <4>1, <4>2, <4>3 DEF HInv, SentInv
    <3>3. Len(<<"error">>) <= 1 /\ <<"error">> # <<>>
          /\ <<"error">> \notin {<<"hash">>, <<"unseen">>}
      OBVIOUS
    <3> QED  BY <2>3, <3>1, <3>2, <3>3 DEF Joins
  <2>4. CASE i \notin StoppedAt(h) /\ i \in req[h].calls /\ req[h].pc = "done"
             /\ req[h].outcome \in {"completed", "hijacked"}
    <3>1. got = <<"hash">> \/ got = <<"unseen">>
      BY <2>2, <2>4 DEF Expected
    <3>2. RecordsOf(h, i) # {}
      BY <2>1, <2>4 DEF HInv, DecidedInv
    <3>3. SentOn(h)
      BY <2>1, <2>4 DEF HInv, SentInv, AnsweredHere, ModelRefused
    <3>4. i \in upstream[h] \/ SharedId(h)
      BY <2>1, <2>2, <2>4, <3>3, LeftOut
    <3>5. Len(got) <= 1 /\ got # <<>> /\ got # <<"error">>
      <4>1. Len(<<"hash">>) <= 1 /\ <<"hash">> # <<>> /\ <<"hash">> # <<"error">>
        OBVIOUS
      <4>2. Len(<<"unseen">>) <= 1 /\ <<"unseen">> # <<>> /\ <<"unseen">> # <<"error">>
        OBVIOUS
      <4> QED  BY <3>1, <4>1, <4>2
    <3> QED  BY <2>4, <3>2, <3>4, <3>5 DEF Joins
  <2>5. CASE i \notin StoppedAt(h) /\ ~(i \in req[h].calls /\ req[h].pc = "done"
                                        /\ req[h].outcome \in {"completed", "hijacked"})
    <3>1. got = <<>>
      BY <2>2, <2>5 DEF Expected
    <3>2. ASSUME req[h].pc = "done", req[h].outcome # "aborted", i \in Governed(Body(h))
          PROVE  FALSE
      <4>1. i \in req[h].calls
        BY <2>1, <2>5, <3>2 DEF HInv, DecidedInv, Past, Deciding
      <4>2. req[h].outcome = "none"
        BY <2>1, <2>5, <3>2, <4>1 DEF HInv, ReqShape, Outcomes
      <4> QED  BY <2>1, <2>2, <2>5, <3>2, <4>1, <4>2
               DEF HInv, SentInv, SentOn, AnsweredHere, OnlyStopped, ModelRefused
    <3>3. Len(<<>>) <= 1 /\ <<>> # <<"error">> /\ <<>> \notin {<<"hash">>, <<"unseen">>}
      OBVIOUS
    <3> QED  BY <3>1, <3>2, <3>3 DEF Joins
  <2> QED  BY <2>3, <2>4, <2>5
<1> QED  BY <1>1, GatewayInvariant, PTL
-----------------------------------------------------------------------------
(* The registry and the types.                                             *)

LEMMA Greatest ==
  ASSUME NEW T, T \subseteq Nat, T # {}, NEW n \in Nat, \A k \in T : k <= n
  PROVE  \E m \in T : \A k \in T : k <= m
<1> DEFINE R == {n - k : k \in T}
<1>1. R \subseteq Nat /\ R # {}
  <2>1. \A k \in T : n - k \in Nat
    OBVIOUS
  <2> QED  BY <2>1
<1>2. PICK r \in R : \A q \in R : r <= q
  <2> HIDE DEF R
  <2> QED  BY <1>1, Least
<1>3. PICK m \in T : r = n - m
  BY <1>2
<1>4. \A k \in T : n - k \in R
  OBVIOUS
<1>5. ASSUME NEW k \in T PROVE k <= m
  <2>1. n - m <= n - k
    BY <1>2, <1>3, <1>4
  <2> QED  BY <2>1
<1> QED  BY <1>5

LEMMA MaxIs ==
  ASSUME NEW T, T \subseteq Nat, T # {}, NEW n \in Nat, \A k \in T : k <= n
  PROVE  Max(T) \in T /\ \A k \in T : k <= Max(T)
<1>1. \E m \in T : \A k \in T : m >= k
  <2>1. PICK m \in T : \A k \in T : k <= m
    BY Greatest
  <2> QED  BY <2>1
<1>2. Max(T) \in T /\ \A k \in T : Max(T) >= k
  BY <1>1 DEF Max
<1> QED  BY <1>2

LEMMA PassedIs ==
  ASSUME NEW ds \in Seq(Declaration), NEW i \in Nat
  PROVE  IsFiniteSet(Passed(ds, i)) /\ \A j \in Nat : j <= i => Passed(ds, j) \subseteq Passed(ds, i)
<1> DEFINE f == [j \in 1 .. i - 1 |-> Lower[ds[j].tool]]
<1>1. f \in Surjection(1 .. i - 1, Passed(ds, i))
  BY DEF Passed, Surjection
<1>2. IsFiniteSet(1 .. i - 1)
  BY FS_Interval
<1>3. IsFiniteSet(Passed(ds, i))
  <2> HIDE DEF f
  <2> QED  BY <1>1, <1>2, FS_Surjection
<1>4. \A j \in Nat : j <= i => Passed(ds, j) \subseteq Passed(ds, i)
  BY DEF Passed
<1> QED  BY <1>3, <1>4

\* The registry: keyed by lower-case names, within its capacity.
Registry(r) ==
  /\ r \in [Tools -> Signature]
  /\ \A t \in Declared(r) : Lower[t] = t
  /\ IsFiniteSet(Declared(r)) /\ Cardinality(Declared(r)) <= MaxTools

Full(r) == Cardinality(Declared(r)) >= MaxTools

\* What Observe does to the registry, whatever the list: it stays a registry, forgets
\* nothing, and knows every tool of the list unless it is full.
LEMMA LearnIs ==
  ASSUME NEW r, Registry(r), NEW ds \in Seq(Declaration), NEW s, s = Learn(r, ds)
  PROVE  /\ Registry(s)
         /\ Declared(r) \subseteq Declared(s)
         /\ Full(s) \/ \A i \in DOMAIN ds : Lower[ds[i].tool] \in Declared(s)
<1> DEFINE Rec(t) == Recorded(r, ds, t)
           Room(i) == HasRoom(r, ds, i)
           D == Declared(r)
<1>1. /\ DOMAIN ds = 1 .. Len(ds) /\ Len(ds) \in Nat
      /\ \A i \in DOMAIN ds : ds[i] \in Declaration
  OBVIOUS
<1>2. \A i \in DOMAIN ds : /\ ds[i].tool \in Tools /\ ds[i].sig \in Sigs
                           /\ Lower[ds[i].tool] \in Tools
                           /\ Lower[Lower[ds[i].tool]] = Lower[ds[i].tool]
  BY <1>1, PolicyAssumption DEF Declaration
<1>3. ASSUME NEW t \in Tools, Rec(t) # {}
      PROVE  s[t] \in Sigs /\ \E i \in DOMAIN ds : Room(i) /\ Lower[ds[i].tool] = t
  <2>1. Rec(t) \subseteq DOMAIN ds /\ Rec(t) \subseteq Nat /\ \A k \in Rec(t) : k <= Len(ds)
    BY <1>1 DEF Recorded
  <2>2. Max(Rec(t)) \in Rec(t)
    BY <1>1, <1>3, <2>1, MaxIs
  <2>3. s[t] = ds[Max(Rec(t))].sig
    BY <1>3 DEF Learn
  <2> QED  BY <1>2, <2>1, <2>2, <2>3 DEF Recorded
<1>4. \A t \in Tools : Rec(t) = {} => s[t] = r[t]
  BY DEF Learn
<1>5. s \in [Tools -> Signature]
  <2>1. \A t \in Tools : s[t] \in Signature
    BY <1>3, <1>4 DEF Registry, Signature
  <2> QED  BY <2>1 DEF Learn
<1>6. \A t \in Tools : t \in Declared(s) <=> t \in D \/ Rec(t) # {}
  BY <1>3, <1>4, PolicyAssumption DEF Declared
<1>7. \A t \in Declared(s) : Lower[t] = t
  <2>1. \A t \in Declared(s) : t \in Tools
    BY DEF Declared
  <2> QED  BY <1>2, <1>3, <1>6, <2>1 DEF Registry
<1>8. D \subseteq Declared(s)
  <2>1. D \subseteq Tools
    BY DEF Declared
  <2> QED  BY <1>6, <2>1
<1>9. ASSUME NEW i \in DOMAIN ds, Room(i) PROVE Lower[ds[i].tool] \in Declared(s)
  <2>1. i \in Rec(Lower[ds[i].tool])
    BY <1>9 DEF Recorded
  <2> QED  BY <1>2, <1>6, <2>1
<1>10. \A i \in Nat : /\ IsFiniteSet(D \cup Passed(ds, i))
                      /\ Cardinality(D \cup Passed(ds, i)) \in Nat
  BY PassedIs, FS_Union, FS_CardinalityType DEF Registry
<1>11. IsFiniteSet(Declared(s)) /\ Cardinality(Declared(s)) <= MaxTools
  <2>1. CASE \A i \in DOMAIN ds : ~Room(i)
    <3>1. \A t \in Tools : Rec(t) = {}
      BY <2>1 DEF Recorded
    <3>2. Declared(s) = D
      BY <1>6, <3>1 DEF Declared
    <3> QED  BY <3>2 DEF Registry
  <2>2. CASE \E i \in DOMAIN ds : Room(i)
    <3> DEFINE R == {i \in DOMAIN ds : Room(i)}
    <3>1. R \subseteq Nat /\ R # {} /\ \A k \in R : k <= Len(ds)
      BY <1>1, <2>2
    <3>2. PICK m \in R : \A k \in R : k <= m
      <4> HIDE DEF R
      <4> QED  BY <1>1, <3>1, Greatest
    <3> DEFINE P == D \cup Passed(ds, m)
               x == Lower[ds[m].tool]
    <3>3. m \in Nat /\ IsFiniteSet(P) /\ Cardinality(P) \in Nat /\ Cardinality(P) < MaxTools
      BY <1>10, <3>1, <3>2 DEF HasRoom
    <3>4. Declared(s) \subseteq P \cup {x}
      <4> SUFFICES ASSUME NEW t \in Declared(s), t \notin D PROVE t \in Passed(ds, m) \/ t = x
        OBVIOUS
      <4>1. t \in Tools /\ Rec(t) # {}
        BY <1>6 DEF Declared
      <4>2. PICK i \in DOMAIN ds : Room(i) /\ Lower[ds[i].tool] = t
        BY <1>3, <4>1
      <4>3. i <= m /\ i >= 1
        BY <1>1, <3>2, <4>2
      <4>4. CASE i = m
        BY <4>2, <4>4
      <4>5. CASE i < m
        BY <1>1, <3>3, <4>2, <4>3, <4>5 DEF Passed
      <4> QED  BY <1>1, <3>3, <4>3, <4>4, <4>5
    <3> HIDE DEF P, x
    <3>5. IsFiniteSet(P \cup {x}) /\ Cardinality(P \cup {x}) <= Cardinality(P) + 1
      <4>1. /\ IsFiniteSet(P \cup {x})
            /\ Cardinality(P \cup {x}) = IF x \in P THEN Cardinality(P) ELSE Cardinality(P) + 1
        BY <3>3, FS_AddElement
      <4> QED  BY <3>3, <4>1
    <3>6. /\ IsFiniteSet(Declared(s)) /\ Cardinality(Declared(s)) <= Cardinality(P \cup {x})
          /\ Cardinality(Declared(s)) \in Nat /\ Cardinality(P \cup {x}) \in Nat
      BY <3>4, <3>5, FS_Subset, FS_CardinalityType
    <3> QED  BY <3>3, <3>5, <3>6, GatewayAssumption
  <2> QED  BY <2>1, <2>2
<1>12. ASSUME NEW n \in DOMAIN ds, ~Room(n) PROVE Full(s)
  <2> DEFINE R == {i \in DOMAIN ds : ~Room(i)}
  <2>1. R \subseteq Nat /\ R # {}
    BY <1>1, <1>12
  <2>2. PICK m \in R : \A k \in R : m <= k
    <3> HIDE DEF R
    <3> QED  BY <2>1, Least
  <2>3. m \in Nat /\ m \in DOMAIN ds /\ ~Room(m)
    BY <2>1, <2>2
  <2>4. Passed(ds, m) \subseteq Declared(s)
    <3> SUFFICES ASSUME NEW j \in 1 .. m - 1 PROVE Lower[ds[j].tool] \in Declared(s)
      BY DEF Passed
    <3>1. j \in DOMAIN ds
      BY <1>1, <2>3
    <3>2. ~(m <= j)
      BY <2>3
    <3>3. Room(j)
      BY <2>2, <3>1, <3>2
    <3> QED  BY <1>9, <3>1, <3>3
  <2>5. D \cup Passed(ds, m) \subseteq Declared(s)
    BY <1>8, <2>4
  <2>6. /\ Cardinality(D \cup Passed(ds, m)) <= Cardinality(Declared(s))
        /\ Cardinality(Declared(s)) \in Nat /\ Cardinality(D \cup Passed(ds, m)) \in Nat
    BY <1>10, <1>11, <2>3, <2>5, FS_Subset, FS_CardinalityType
  <2>7. ~(Cardinality(D \cup Passed(ds, m)) < MaxTools)
    BY <2>3 DEF HasRoom
  <2> QED  BY <2>6, <2>7, GatewayAssumption DEF Full
<1>13. Registry(s)
  BY <1>5, <1>7, <1>11 DEF Registry
<1> QED  BY <1>8, <1>9, <1>12, <1>13
-----------------------------------------------------------------------------
(* What the types need beyond GInv.                                        *)

DecisionRecord ==
  [handler : Handlers, at : Nat, bundle : Documents, sig : Signature,
   decision : Decision, applied : {"forwarded", "failed_open", "blocked"},
   fate : {"queued", "durable", "unsure"}]

\* A tool a client was shown is declared, or an answer that names it is about to be read, or
\* the registry is full.
ShownInv ==
  \A t \in seen : \/ t \in Declared(reg)
                  \/ Full(reg)
                  \/ \E h \in Handlers : /\ req[h].pc = "observe"
                                         /\ \E i \in DOMAIN req[h].capture : Lower[req[h].capture[i].tool] = t

Collected(h) == req[h].sig \in Signature /\ req[h].capture \in Seq(Declaration)

\* The variables with a place per request are functions.
PerRequest ==
  /\ req = [h \in Handlers |-> req[h]] /\ responses = [h \in Handlers |-> responses[h]]
  /\ upstream = [h \in Handlers |-> upstream[h]] /\ refused = [h \in Handlers |-> refused[h]]

LEMMA PerRequestInit == GatewayInit => PerRequest
BY DEF GatewayInit, PerRequest

LEMMA PerRequestStep ==
  ASSUME GInv, PerRequest, GatewayNext
  PROVE  PerRequest'
<1>1. /\ DOMAIN req = Handlers /\ DOMAIN responses = Handlers
      /\ DOMAIN upstream = Handlers /\ DOMAIN refused = Handlers
  BY DEF GInv, Domains, ReqDomain
<1>2. ASSUME NEW f, f = [k \in Handlers |-> f[k]], NEW h \in Handlers, NEW g,
             g = f \/ \E v : g = [f EXCEPT ![h] = v]
      PROVE  g = [k \in Handlers |-> g[k]]
  <2>1. CASE g = f
    BY <1>2, <2>1
  <2>2. ASSUME NEW v, g = [f EXCEPT ![h] = v] PROVE g = [k \in Handlers |-> g[k]]
    BY <1>2, <2>2
  <2> QED  BY <1>2, <2>1, <2>2
<1>3. ASSUME NEW h \in Handlers, Serve(h)
      PROVE  /\ UNCHANGED req \/ \E v : req' = [req EXCEPT ![h] = v]
             /\ UNCHANGED responses \/ \E v : responses' = [responses EXCEPT ![h] = v]
             /\ UNCHANGED upstream \/ \E v : upstream' = [upstream EXCEPT ![h] = v]
             /\ UNCHANGED refused \/ \E v : refused' = [refused EXCEPT ![h] = v]
  <2>1. ASSUME NEW b, NEW c, Proceed(h, b, c) PROVE \E v : req' = [req EXCEPT ![h] = v]
    BY <2>1 DEF Proceed
  <2>2. ASSUME NEW S, NEW what, Respond(h, S, what)
        PROVE  \E v : responses' = [responses EXCEPT ![h] = v]
    BY <2>2 DEF Respond
  <2>3. CASE Arrive(h) \/ Lookup(h) \/ ReadStore(h) \/ Observe(h)
    BY <2>3 DEF Arrive, Lookup, ReadStore, Observe
  <2>4. CASE AttestForward(h) \/ AttestFailsOpen(h) \/ Indeterminate(h)
    BY <2>1, <2>4 DEF AttestForward, AttestFailsOpen, Indeterminate
  <2>5. CASE AttestStop(h)
    BY <2>1, <2>2, <2>5 DEF AttestStop
  <2>6. CASE ReplyBlocked(h) \/ Forward(h)
    BY <2>6 DEF ReplyBlocked, Forward
  <2>7. CASE Exchange(h)
    <3>1. UNCHANGED <<responses, upstream, refused>>
      BY <2>7 DEF Exchange
    <3>2. PICK o \in Outcomes \ {"none"}, c \in Seq(Declaration), p \in {"done", "observe", "record"} :
            /\ req' = [req EXCEPT ![h].outcome = o, ![h].capture = c, ![h].pc = p]
            /\ seen' = seen \cup {Lower[c[i].tool] : i \in DOMAIN c}
            /\ (p = "done" <=> o = "aborted") /\ (c # <<>> => p = "observe")
      BY <2>7, ExchangeIs
    <3>3. \E v : req' = [req EXCEPT ![h] = v]
      BY <3>2
    <3> QED  BY <3>1, <3>3
  <2>8. CASE RecordResponse(h)
    BY <2>2, <2>8 DEF RecordResponse
  <2> QED  BY <1>3, <2>3, <2>4, <2>5, <2>6, <2>7, <2>8 DEF Serve
<1>4. CASE UNCHANGED trafficVars
  BY <1>4 DEF trafficVars, PerRequest
<1>5. ASSUME NEW h \in Handlers, Serve(h) PROVE PerRequest'
  <2>0. /\ UNCHANGED req \/ \E v : req' = [req EXCEPT ![h] = v]
        /\ UNCHANGED responses \/ \E v : responses' = [responses EXCEPT ![h] = v]
        /\ UNCHANGED upstream \/ \E v : upstream' = [upstream EXCEPT ![h] = v]
        /\ UNCHANGED refused \/ \E v : refused' = [refused EXCEPT ![h] = v]
    BY <1>3, <1>5
  <2>1. req' = [k \in Handlers |-> req'[k]]
    BY <1>2, <2>0 DEF PerRequest
  <2>2. responses' = [k \in Handlers |-> responses'[k]]
    BY <1>2, <2>0 DEF PerRequest
  <2>3. upstream' = [k \in Handlers |-> upstream'[k]]
    BY <1>2, <2>0 DEF PerRequest
  <2>4. refused' = [k \in Handlers |-> refused'[k]]
    BY <1>2, <2>0 DEF PerRequest
  <2> QED  BY <2>1, <2>2, <2>3, <2>4 DEF PerRequest
<1> QED  BY <1>4, <1>5 DEF GatewayNext

TInv ==
  /\ Registry(reg)
  /\ \A h \in Handlers : Collected(h)
  /\ decisions \subseteq DecisionRecord
  /\ seen \subseteq Tools
  /\ ShownInv

LEMMA TInvInit == GatewayInit => TInv
<1> SUFFICES ASSUME GatewayInit PROVE TInv
  OBVIOUS
<1>1. Declared(reg) = {}
  BY DEF GatewayInit, Declared
<1>2. Registry(reg)
  <2>1. reg \in [Tools -> Signature]
    BY DEF GatewayInit, Signature
  <2>2. IsFiniteSet(Declared(reg)) /\ Cardinality(Declared(reg)) = 0
    BY <1>1, FS_EmptySet
  <2>3. \A t \in Declared(reg) : Lower[t] = t
    BY <1>1
  <2> QED  BY <2>1, <2>2, <2>3, GatewayAssumption DEF Registry
<1>3. \A h \in Handlers : Collected(h)
  <2>1. Idle.sig = NoSig /\ Idle.capture = <<>>
    BY DEF Idle
  <2>2. \A h \in Handlers : req[h] = Idle
    BY DEF GatewayInit
  <2>3. <<>> \in Seq(Declaration)
    OBVIOUS
  <2> QED  BY <2>1, <2>2, <2>3 DEF Collected, Signature
<1> QED  BY <1>2, <1>3 DEF GatewayInit, TInv, ShownInv

\* A step of one request that leaves the registry and what is shown alone.
LEMMA Aside ==
  ASSUME TInv, NEW h \in Handlers, UNCHANGED <<reg, seen>>,
         \A k \in Handlers \ {h} : req'[k] = req[k],
         req[h].pc # "observe", Collected(h)', decisions' \subseteq DecisionRecord
  PROVE  TInv'
<1>1. Declared(reg)' = Declared(reg) /\ Full(reg)' = Full(reg) /\ Registry(reg)' = Registry(reg)
  BY DEF Declared, Full, Registry
<1>2. \A k \in Handlers : Collected(k)'
  BY DEF TInv, Collected
<1>3. ShownInv'
  <2> SUFFICES ASSUME NEW t \in seen, t \notin Declared(reg), ~Full(reg)
               PROVE  \E k \in Handlers : /\ req'[k].pc = "observe"
                         /\ \E i \in DOMAIN req'[k].capture : Lower[req'[k].capture[i].tool] = t
    BY <1>1 DEF ShownInv
  <2>1. PICK k \in Handlers : /\ req[k].pc = "observe"
                              /\ \E i \in DOMAIN req[k].capture : Lower[req[k].capture[i].tool] = t
    BY DEF TInv, ShownInv
  <2> QED  BY <2>1
<1> QED  BY <1>1, <1>2, <1>3 DEF TInv

LEMMA RecordType ==
  ASSUME NEW h \in Handlers, HInv(h), Collected(h), NEW d \in Documents,
         NEW applied \in {"forwarded", "failed_open", "blocked"},
         NEW fate \in {"queued", "durable", "unsure"}
  PROVE  Record(h, d, applied, fate) \in DecisionRecord
<1>1. Evaluate(d, At(h).tool, req[h].sig) \in Decision
  BY DEF Evaluate, Decision
<1>2. req[h].at \in Nat
  BY DEF HInv, ReqShape
<1> QED  BY <1>1, <1>2 DEF Record, DecisionRecord, Collected, Decision

\* Proceed and every other change of a request but the ones below leave what was collected.
LEMMA TInvStep ==
  ASSUME TInv, GInv, StoreInv, GatewayNext
  PROVE  TInv' /\ Declared(reg) \subseteq Declared(reg')
<1> DEFINE Keeps(h) == /\ \A k \in Handlers \ {h} : req'[k] = req[k]
                       /\ req'[h].sig = req[h].sig /\ req'[h].capture = req[h].capture
<1>0. /\ Domains /\ ReqDomain /\ current \in Documents
      /\ \A h \in Handlers : HInv(h) /\ Collected(h) /\ ReqShape(h)
  BY DEF GInv, Domains, TInv, StoreInv, StoreTypeOK, HInv
<1>1. ASSUME NEW h \in Handlers, NEW b, NEW c, Proceed(h, b, c) PROVE Keeps(h)
  <2>1. PICK i : req' = [req EXCEPT ![h].pc = Stage(Body(h), i), ![h].at = i,
                                   ![h].blocked = b, ![h].calls = c]
    BY <1>1 DEF Proceed
  <2>2. \A k \in Handlers \ {h} : req'[k] = req[k]
    BY <1>0, <2>1 DEF ReqDomain
  <2>3. req'[h] = [req[h] EXCEPT !.pc = Stage(Body(h), i), !.at = i, !.blocked = b, !.calls = c]
    BY <1>0, <2>1 DEF ReqDomain
  <2>4. req[h] \in [pc : PCs, body : Seq(Element), at : Nat \ {0}, sig : {req[h].sig},
                 bundle : Documents \cup {NoDocument}, blocked : {req[h].blocked},
                 calls : {req[h].calls}, capture : {req[h].capture}, outcome : Outcomes]
    BY <1>0 DEF ReqShape
  <2> QED  BY <2>2, <2>3, <2>4
<1>2. ASSUME NEW h \in Handlers, NEW p, req' = [req EXCEPT ![h].pc = p] PROVE Keeps(h)
  BY <1>0, <1>2 DEF ReqDomain, ReqShape
<1>3. ASSUME NEW h \in Handlers, Keeps(h), UNCHANGED <<reg, seen>>, req[h].pc # "observe",
             decisions' \subseteq DecisionRecord
      PROVE  TInv' /\ Declared(reg) \subseteq Declared(reg')
  <2>1. Collected(h)'
    BY <1>0, <1>3 DEF Collected
  <2> QED  BY <1>3, <2>1, Aside
<1> HIDE DEF Keeps
<1>4. decisions \subseteq DecisionRecord
  BY DEF TInv
<1>5. ASSUME NEW h \in Handlers, AttestForward(h) \/ AttestFailsOpen(h) \/ AttestStop(h) \/ Indeterminate(h)
      PROVE  TInv' /\ Declared(reg) \subseteq Declared(reg')
  <2>1. UNCHANGED <<reg, seen>> /\ req[h].pc \in {"attest", "indeterminate"}
    BY <1>5 DEF AttestForward, AttestFailsOpen, AttestStop, Indeterminate
  <2>2. Keeps(h)
    BY <1>1, <1>2, <1>5 DEF AttestForward, AttestFailsOpen, AttestStop, Indeterminate
  <2>3. PICK d \in Documents : decisions' \subseteq decisions \cup
          {Record(h, d, applied, fate) : applied \in {"forwarded", "failed_open", "blocked"},
                                         fate \in {"queued", "durable", "unsure"}}
    <3>1. req[h].pc = "attest" => req[h].bundle \in Documents
      BY <1>0 DEF HInv, PcInv
    <3>2. \A d : Applied(enforce, d) \in {"forwarded", "failed_open", "blocked"}
      BY DEF Applied
    <3> QED  BY <1>0, <1>5, <3>1, <3>2 DEF AttestForward, AttestFailsOpen, AttestStop, Indeterminate
  <2>4. decisions' \subseteq DecisionRecord
    BY <1>0, <1>4, <2>3, RecordType
  <2> QED  BY <1>3, <2>1, <2>2, <2>4
<1>6. ASSUME NEW h \in Handlers, ReplyBlocked(h) \/ Forward(h) \/ RecordResponse(h)
      PROVE  TInv' /\ Declared(reg) \subseteq Declared(reg')
  <2>1. UNCHANGED <<reg, seen, decisions>> /\ req[h].pc # "observe"
    BY <1>6 DEF ReplyBlocked, Forward, RecordResponse
  <2>2. Keeps(h)
    BY <1>2, <1>6 DEF ReplyBlocked, Forward, RecordResponse
  <2> QED  BY <1>3, <1>4, <2>1, <2>2
<1>7. ASSUME NEW h \in Handlers, Arrive(h) \/ ReadStore(h) \/ Lookup(h)
      PROVE  TInv' /\ Declared(reg) \subseteq Declared(reg')
  <2>1. UNCHANGED <<reg, seen, decisions>> /\ req[h].pc # "observe"
    BY <1>7 DEF Arrive, ReadStore, Lookup
  <2>2. \A k \in Handlers \ {h} : req'[k] = req[k]
    BY <1>0, <1>7 DEF Arrive, ReadStore, Lookup, ReqDomain
  <2>3. CASE Arrive(h) \/ ReadStore(h)
    <3>1. ASSUME Arrive(h) PROVE req'[h].sig = req[h].sig /\ req'[h].capture = req[h].capture
      <4>1. PICK b, i : req' = [req EXCEPT ![h].pc = Stage(b, i), ![h].body = b, ![h].at = i]
        BY <3>1 DEF Arrive
      <4>2. req'[h] = [req[h] EXCEPT !.pc = Stage(b, i), !.body = b, !.at = i]
        BY <1>0, <4>1 DEF ReqDomain
      <4> QED  BY <1>0, <4>2 DEF ReqShape
    <3>2. ASSUME ReadStore(h) PROVE req'[h].sig = req[h].sig /\ req'[h].capture = req[h].capture
      BY <1>0, <3>2 DEF ReadStore, ReqDomain, ReqShape
    <3>3. req'[h].sig = req[h].sig /\ req'[h].capture = req[h].capture
      BY <2>3, <3>1, <3>2
    <3> QED  BY <1>3, <1>4, <2>1, <2>2, <3>3 DEF Keeps
  <2>4. CASE Lookup(h)
    <3>1. req'[h].capture = req[h].capture /\ req'[h].sig = reg[Lower[At(h).tool]]
      BY <1>0, <2>4 DEF Lookup, ReqDomain, ReqShape
    <3>2. req[h].pc \in Deciding
      BY <2>4 DEF Lookup, Deciding
    <3>3. At(h).tool \in Tools
      <4>1. req[h].at \in Governed(Body(h))
        BY <1>0, <3>2 DEF HInv, PcInv
      <4>2. Body(h) \in Seq(Element)
        BY <1>0 DEF ReqShape, Body
      <4>3. At(h) \in Element
        BY <4>1, <4>2 DEF At, Governed
      <4> QED  BY <4>3 DEF Element
    <3>4. reg[Lower[At(h).tool]] \in Signature
      BY <3>3, PolicyAssumption DEF TInv, Registry
    <3>5. Collected(h)'
      BY <1>0, <3>1, <3>4 DEF Collected
    <3> QED  BY <1>4, <2>1, <2>2, <3>5, Aside
  <2> QED  BY <1>7, <2>3, <2>4
<1>8. ASSUME NEW h \in Handlers, Exchange(h)
      PROVE  TInv' /\ Declared(reg) \subseteq Declared(reg')
  <2>1. UNCHANGED <<reg, decisions>> /\ req[h].pc = "exchange"
    BY <1>8 DEF Exchange
  <2>2. PICK o \in Outcomes \ {"none"}, read \in Seq(Declaration), p \in {"done", "observe", "record"} :
          /\ req' = [req EXCEPT ![h].outcome = o, ![h].capture = read, ![h].pc = p]
          /\ seen' = seen \cup {Lower[read[i].tool] : i \in DOMAIN read}
          /\ (p = "done" <=> o = "aborted") /\ (read # <<>> => p = "observe")
    BY <1>8, ExchangeIs
  <2>3. /\ \A k \in Handlers \ {h} : req'[k] = req[k]
        /\ req'[h].sig = req[h].sig /\ req'[h].capture = read /\ req'[h].pc = p
    BY <1>0, <2>2 DEF ReqDomain, ReqShape
  <2>4. \A k \in Handlers : Collected(k)'
    BY <1>0, <2>3 DEF Collected
  <2>5. \A i \in DOMAIN read : Lower[read[i].tool] \in Tools
    <3>1. \A i \in DOMAIN read : read[i] \in Declaration
      OBVIOUS
    <3> QED  BY <3>1, PolicyAssumption DEF Declaration
  <2>6. seen' \subseteq Tools
    BY <2>2, <2>5 DEF TInv
  <2>7. ShownInv'
    <3> SUFFICES ASSUME NEW t \in seen', t \notin Declared(reg), ~Full(reg)
                 PROVE  \E k \in Handlers : /\ req'[k].pc = "observe"
                           /\ \E i \in DOMAIN req'[k].capture : Lower[req'[k].capture[i].tool] = t
      BY <2>1 DEF ShownInv, Full, Declared
    <3>1. CASE t \in seen
      <4>1. PICK k \in Handlers : /\ req[k].pc = "observe"
                                  /\ \E i \in DOMAIN req[k].capture : Lower[req[k].capture[i].tool] = t
        BY <3>1 DEF TInv, ShownInv
      <4> QED  BY <2>1, <2>3, <4>1
    <3>2. CASE t \notin seen
      <4>1. PICK i \in DOMAIN read : Lower[read[i].tool] = t
        BY <2>2, <3>2
      <4>2. read # <<>>
        BY <4>1
      <4> QED  BY <2>2, <2>3, <4>1, <4>2
    <3> QED  BY <3>1, <3>2
  <2> QED  BY <2>1, <2>4, <2>6, <2>7, <1>4 DEF TInv, Registry, Declared
<1>9. ASSUME NEW h \in Handlers, Observe(h)
      PROVE  TInv' /\ Declared(reg) \subseteq Declared(reg')
  <2>1. /\ UNCHANGED <<seen, decisions>> /\ req[h].pc = "observe"
        /\ reg' = Learn(reg, req[h].capture) /\ req' = [req EXCEPT ![h].pc = "record"]
    BY <1>9 DEF Observe
  <2>2. /\ Registry(reg') /\ Declared(reg) \subseteq Declared(reg')
        /\ Full(reg') \/ \A i \in DOMAIN req[h].capture :
                           Lower[req[h].capture[i].tool] \in Declared(reg')
    BY <1>0, <2>1, LearnIs DEF TInv, Collected
  <2>3. Full(reg) => Full(reg')
    <3>1. /\ Cardinality(Declared(reg)) <= Cardinality(Declared(reg'))
          /\ Cardinality(Declared(reg)) \in Nat /\ Cardinality(Declared(reg')) \in Nat
      BY <2>2, FS_Subset, FS_CardinalityType DEF TInv, Registry
    <3> QED  BY <3>1, GatewayAssumption DEF Full
  <2>4. Keeps(h)
    BY <1>2, <2>1
  <2>5. \A k \in Handlers : Collected(k)'
    BY <1>0, <2>4 DEF Collected, Keeps
  <2>6. ShownInv'
    <3> SUFFICES ASSUME NEW t \in seen, t \notin Declared(reg'), ~Full(reg')
                 PROVE  \E k \in Handlers : /\ req'[k].pc = "observe"
                           /\ \E i \in DOMAIN req'[k].capture : Lower[req'[k].capture[i].tool] = t
      BY <2>1 DEF ShownInv, Full, Declared
    <3>1. PICK k \in Handlers : /\ req[k].pc = "observe"
                                /\ \E i \in DOMAIN req[k].capture : Lower[req[k].capture[i].tool] = t
      BY <2>2, <2>3 DEF TInv, ShownInv
    <3>2. k # h
      BY <2>2, <3>1
    <3> QED  BY <2>4, <3>1, <3>2 DEF Keeps
  <2>7. Registry(reg)'
    BY <2>2 DEF Registry, Declared
  <2> QED  BY <1>4, <2>1, <2>2, <2>5, <2>6, <2>7 DEF TInv
<1>10. CASE UNCHANGED trafficVars
  BY <1>10 DEF trafficVars, TInv, Registry, Declared, Collected, ShownInv, Full
<1> QED  BY <1>5, <1>6, <1>7, <1>8, <1>9, <1>10 DEF GatewayNext, Serve

LEMMA TInvariant == GatewaySpec => [](TInv /\ PerRequest /\ GInv /\ StoreInv)
<1>1. GatewayInit => TInv /\ PerRequest
  BY TInvInit, PerRequestInit
<1>2. TInv /\ PerRequest /\ GInv /\ StoreInv /\ [GatewayNext]_gatewayVars => TInv' /\ PerRequest'
  <2> SUFFICES ASSUME TInv, PerRequest, GInv, StoreInv, [GatewayNext]_gatewayVars
               PROVE  TInv' /\ PerRequest'
    OBVIOUS
  <2>1. CASE UNCHANGED gatewayVars
    BY <2>1 DEF gatewayVars, trafficVars, TInv, Registry, Declared, Collected, ShownInv, Full, PerRequest
  <2> QED  BY <2>1, TInvStep, PerRequestStep
<1> QED  BY <1>1, <1>2, GatewayInvariant, PTL DEF GatewaySpec

\* Where the response records, what was sent on and what was refused point to.
LEMMA TypesOfARequest ==
  ASSUME GInv, TInv, NEW h \in Handlers
  PROVE  /\ req[h] \in [pc : PCs, body : Seq(Element), at : Nat \ {0}, sig : Signature,
                        bundle : Documents \cup {NoDocument}, blocked : SUBSET (Ids \cup {NoId}),
                        calls : SUBSET Nat, capture : Seq(Declaration), outcome : Outcomes]
         /\ responses[h] \in Seq(Seq({"hash", "unseen", "error"}))
         /\ upstream[h] \in SUBSET Nat /\ refused[h] \in SUBSET Nat
<1>1. HInv(h) /\ ReqShape(h) /\ Collected(h)
  BY DEF GInv, TInv, HInv
<1>2. Body(h) \in Seq(Element)
  BY <1>1 DEF ReqShape, Body
<1>3. /\ DOMAIN Body(h) = 1 .. Len(Body(h)) /\ Len(Body(h)) \in Nat /\ DOMAIN Body(h) \subseteq Nat
      /\ \A i \in DOMAIN Body(h) : Body(h)[i].id \in Ids \cup {NoId}
  <2>1. \A i \in DOMAIN Body(h) : Body(h)[i] \in Element
    BY <1>2
  <2> QED  BY <1>2, <2>1 DEF Element
<1>4. StoppedAt(h) \subseteq DOMAIN Body(h)
  BY DEF StoppedAt
<1>5. req[h].calls \subseteq Nat
  <2>1. Past(h) \subseteq DOMAIN Body(h)
    BY DEF Past, Governed
  <2> QED  BY <1>1, <1>3, <2>1 DEF HInv, DecidedInv
<1>6. req[h].blocked \subseteq Ids \cup {NoId}
  BY <1>1, <1>3, <1>4 DEF HInv, DecidedInv
<1>7. req[h] \in [pc : PCs, body : Seq(Element), at : Nat \ {0}, sig : Signature,
                  bundle : Documents \cup {NoDocument}, blocked : SUBSET (Ids \cup {NoId}),
                  calls : SUBSET Nat, capture : Seq(Declaration), outcome : Outcomes]
  BY <1>1, <1>5, <1>6 DEF ReqShape, Collected
<1>8. responses[h] \in Seq(Seq({"hash", "unseen", "error"}))
  <2>1. \A i : Expected(h, i) \in Seq({"hash", "unseen", "error"})
    <3> DEFINE R == {"hash", "unseen", "error"}
    <3>1. <<>> \in Seq(R) /\ \A x \in R : <<x>> \in Seq(R)
      OBVIOUS
    <3>2. "hash" \in R /\ "unseen" \in R /\ "error" \in R
      OBVIOUS
    <3> HIDE DEF R
    <3>3. \A i : Expected(h, i) \in Seq(R)
      BY <3>1, <3>2 DEF Expected
    <3> QED  BY <3>3 DEF R
  <2>2. responses[h] = [i \in 1 .. Len(Body(h)) |-> Expected(h, i)]
    BY <1>1, <1>3 DEF HInv, ResponseInv
  <2> QED  BY <1>3, <2>1, <2>2, IsASeq
<1>9. upstream[h] \subseteq DOMAIN Body(h) /\ refused[h] \subseteq DOMAIN Body(h)
  <2>1. req[h].pc \in Early \cup {"exchange", "observe", "record", "done"}
    BY <1>1 DEF ReqShape, PCs, Early, Deciding
  <2>2. \A ids : Rewritten(Body(h), ids) \subseteq DOMAIN Body(h)
    BY DEF Rewritten, Kept
  <2>3. ToolsCalls(Body(h)) \subseteq DOMAIN Body(h)
    BY DEF ToolsCalls
  <2> QED  BY <1>1, <2>1, <2>2, <2>3 DEF HInv, SentInv, SentOn, AnsweredHere, ModelRefused
<1> QED  BY <1>3, <1>7, <1>8, <1>9

\* Every variable of the transport stays in its type, and the registry, which learns whole
\* lists from many answers, stays keyed by lower-case names and within its capacity, for any
\* bodies, catalogues and capacity (toolsig.go:93-116).
THEOREM GatewayTypeCorrect == GatewaySpec => []GatewayTypeOK
<1>1. TInv /\ PerRequest /\ GInv /\ StoreInv => GatewayTypeOK
  <2> SUFFICES ASSUME TInv, PerRequest, GInv, StoreInv PROVE GatewayTypeOK
    OBVIOUS
  <2>1. StoreTypeOK /\ enforce \in BOOLEAN
    BY DEF StoreInv, GInv, Domains
  <2>2. /\ reg \in [Tools -> Signature] /\ Cardinality(Declared(reg)) <= MaxTools
        /\ \A t \in Declared(reg) : Lower[t] = t
    BY DEF TInv, Registry
  <2>3. decisions \subseteq DecisionRecord /\ seen \subseteq Tools
    BY DEF TInv
  <2> DEFINE Request == [pc : PCs, body : Seq(Element), at : Nat \ {0}, sig : Signature,
                bundle : Documents \cup {NoDocument}, blocked : SUBSET (Ids \cup {NoId}),
                calls : SUBSET Nat, capture : Seq(Declaration), outcome : Outcomes]
             Responses == Seq(Seq({"hash", "unseen", "error"}))
  <2>4. /\ \A h \in Handlers : req[h] \in Request
        /\ \A h \in Handlers : responses[h] \in Responses
        /\ \A h \in Handlers : upstream[h] \in SUBSET Nat /\ refused[h] \in SUBSET Nat
    BY TypesOfARequest
  <2> HIDE DEF Request, Responses
  <2>5. /\ req = [h \in Handlers |-> req[h]] /\ responses = [h \in Handlers |-> responses[h]]
        /\ upstream = [h \in Handlers |-> upstream[h]] /\ refused = [h \in Handlers |-> refused[h]]
    BY DEF PerRequest
  <2>6. req \in [Handlers -> Request] /\ responses \in [Handlers -> Responses]
        /\ upstream \in [Handlers -> SUBSET Nat] /\ refused \in [Handlers -> SUBSET Nat]
    BY <2>4, <2>5
  <2> QED  BY <2>1, <2>2, <2>3, <2>6 DEF GatewayTypeOK, DecisionRecord, Request, Responses
<1> QED  BY <1>1, TInvariant, PTL

\* A tool once declared stays declared, and what an answer showed a client is declared as
\* soon as the answer has been read, until the registry is full: whatever upstreams list, in
\* whatever order their answers are read (toolsig.go Observe, main.go hashingWriter).
THEOREM DeclaredStaysDeclared == GatewaySpec => ToolsStayDeclared
<1>1. TInv /\ TInv' /\ GInv /\ StoreInv /\ [GatewayNext]_gatewayVars
        => [/\ Declared(reg) \subseteq Declared(reg')
            /\ \A t \in seen' : \/ reg'[t] # NoSig
                               \/ Cardinality(Declared(reg')) >= MaxTools
                               \/ \E h \in Handlers : req'[h].pc = "observe"]_gatewayVars
  <2> SUFFICES ASSUME TInv, TInv', GInv, StoreInv, GatewayNext
               PROVE  /\ Declared(reg) \subseteq Declared(reg')
                      /\ \A t \in seen' : \/ reg'[t] # NoSig
                                         \/ Cardinality(Declared(reg')) >= MaxTools
                                         \/ \E h \in Handlers : req'[h].pc = "observe"
    OBVIOUS
  <2>1. Declared(reg) \subseteq Declared(reg')
    BY TInvStep
  <2>2. ASSUME NEW t \in seen' PROVE \/ reg'[t] # NoSig
                                     \/ Cardinality(Declared(reg')) >= MaxTools
                                     \/ \E h \in Handlers : req'[h].pc = "observe"
    BY <2>2 DEF TInv, ShownInv, Full, Declared
  <2> QED  BY <2>1, <2>2
<1> QED  BY <1>1, TInvariant, PTL DEF ToolsStayDeclared, GatewaySpec
=============================================================================

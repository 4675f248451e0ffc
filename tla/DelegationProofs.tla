--------------------------- MODULE DelegationProofs ---------------------------
(***************************************************************************)
(* Theorems about delegated credentials: for any scopes, lifetimes, number *)
(* of instances and verifiers, and lines of any length, authority only     *)
(* narrows and a live assertion is accepted once at most.                  *)
(***************************************************************************)
EXTENDS Delegation, SequenceTheorems, TLAPS

(* The inductive invariant.                                                *)

Narrowing(line) ==
  \A m, n \in DOMAIN line : m < n => Narrows(line[n].scope, line[m].scope)

Rooted == \A t \in DOMAIN txns : Len(txns[t].line) >= 1

\* An assertion names a start of its instance that has happened.
NonceInv ==
  \A j \in DOMAIN calls : calls[j].aud.nonce <= started[calls[j].aud.instance]

\* What a verifier has parsed is meant for the instance it runs in, as now started.
ParsedInv ==
  \A v \in Verifiers :
    verifier[v] # Resting => calls[verifier[v].jti].aud = Aud(verifier[v].at)

\* What was accepted and still lives is in the cache that answers for it.
CachedInv ==
  \A j \in DOMAIN calls :
    /\ now <= calls[j].exp
    /\ uses[j] # 0
    /\ calls[j].aud.nonce = started[calls[j].aud.instance]
    => j \in replay[calls[j].aud.instance]

DInv ==
  /\ DelegationTypeOK /\ Rooted
  /\ NeverWidens /\ LineIsWhole /\ CallsEndWithTxn
  /\ NonceInv /\ ParsedInv /\ CachedInv /\ SingleUseWhileLive
-----------------------------------------------------------------------------
(* The algebra of scopes.                                                  *)

LEMMA SubsetTransitive ==
  ASSUME NEW a, NEW b, NEW c, SubsetOrTop(b, a), SubsetOrTop(c, b)
  PROVE  SubsetOrTop(c, a)
<1>1. CASE a = <<Star>>
  BY <1>1 DEF SubsetOrTop
<1>2. CASE a # <<Star>>
  <2>1. \A i \in DOMAIN b : b[i] # Star /\ \E j \in DOMAIN a : b[i] = a[j]
    BY <1>2 DEF SubsetOrTop
  <2>2. b # <<Star>>
    <3>1. ASSUME b = <<Star>> PROVE FALSE
      <4>1. 1 \in DOMAIN b /\ b[1] = Star
        BY <3>1
      <4> QED  BY <4>1, <2>1
    <3> QED  BY <3>1
  <2>3. \A i \in DOMAIN c : c[i] # Star /\ \E j \in DOMAIN b : c[i] = b[j]
    BY <2>2 DEF SubsetOrTop
  <2> QED  BY <2>1, <2>3 DEF SubsetOrTop
<1> QED  BY <1>1, <1>2

\* What narrows a narrower scope narrows the wider one: checking each hop against the one
\* before it is enough.
LEMMA NarrowsTransitive ==
  ASSUME NEW a, NEW b, NEW c, Narrows(b, a), Narrows(c, b)
  PROVE  Narrows(c, a)
BY SubsetTransitive DEF Narrows

\* A line that narrows still does when a hop is added that narrows its last.
LEMMA AppendNarrows ==
  ASSUME NEW line \in Seq(Hop), Len(line) >= 1, Narrowing(line),
         NEW hop \in Hop, Narrows(hop.scope, Last(line).scope)
  PROVE  Narrowing(Append(line, hop))
<1> DEFINE longer == Append(line, hop)
<1>1. /\ DOMAIN longer = 1 .. Len(line) + 1
      /\ \A i \in 1 .. Len(line) : longer[i] = line[i]
      /\ longer[Len(line) + 1] = hop
      /\ DOMAIN line = 1 .. Len(line) /\ Len(line) \in Nat
  OBVIOUS
<1> HIDE DEF longer
<1>2. ASSUME NEW m \in DOMAIN longer, NEW n \in DOMAIN longer, m < n
      PROVE  Narrows(longer[n].scope, longer[m].scope)
  <2>1. CASE n <= Len(line)
    BY <1>1, <1>2, <2>1 DEF Narrowing
  <2>2. CASE n = Len(line) + 1
    <3>1. m \in 1 .. Len(line) /\ longer[n] = hop /\ longer[m] = line[m]
      BY <1>1, <1>2, <2>2
    <3>2. CASE m = Len(line)
      BY <3>1, <3>2 DEF Last
    <3>3. CASE m < Len(line)
      <4>1. Narrows(line[Len(line)].scope, line[m].scope)
        BY <1>1, <3>1, <3>3 DEF Narrowing
      <4>2. Narrows(hop.scope, line[Len(line)].scope)
        BY DEF Last
      <4> QED  BY <4>1, <4>2, <3>1, NarrowsTransitive
    <3> QED  BY <1>1, <3>1, <3>2, <3>3
  <2> QED  BY <1>1, <2>1, <2>2
<1> QED  BY <1>2 DEF Narrowing, longer

\* A hop added to a line leaves what came before it.
LEMMA AppendKeepsStart ==
  ASSUME NEW S, NEW s \in Seq(S), NEW e \in S, NEW n \in 1 .. Len(s)
  PROVE  SubSeq(Append(s, e), 1, n) = SubSeq(s, 1, n)
BY SMTT(30)

LEMMA AppendWhole ==
  ASSUME NEW S, NEW s \in Seq(S), NEW e \in S
  PROVE  SubSeq(Append(s, e), 1, Len(s) + 1) = Append(s, e)
<1>1. Append(s, e) \in Seq(S) /\ Len(Append(s, e)) = Len(s) + 1
  OBVIOUS
<1> QED  BY <1>1, SubSeqFull
-----------------------------------------------------------------------------
(* The initial states, and the actions that issue tokens.                  *)

LEMMA DInvInit == Init => DInv
<1> SUFFICES ASSUME Init PROVE DInv
  OBVIOUS
<1>1. DelegationTypeOK
  BY DelegationAssumption DEF Init, DelegationTypeOK
<1> QED  BY <1>1 DEF Init, DInv, Rooted, NeverWidens, LineIsWhole, CallsEndWithTxn, NonceInv,
                     ParsedInv, CachedInv, SingleUseWhileLive

\* What the sequences hold has the type of a token, or of an assertion.
LEMMA Elements ==
  ASSUME DInv
  PROVE  /\ \A t \in DOMAIN txns : txns[t] \in Txn /\ txns[t].exp \in Nat
         /\ \A j \in DOMAIN calls : calls[j] \in Assertions
         /\ \A j \in DOMAIN calls : calls[j].exp \in Nat
         /\ \A j \in DOMAIN calls : calls[j].aud.instance \in Instances
         /\ \A j \in DOMAIN calls : calls[j].aud.nonce \in 0 .. MaxRestarts
<1>1. txns \in Seq(Txn) /\ calls \in Seq(Assertions)
  BY DEF DInv, DelegationTypeOK
<1>2. /\ \A t \in DOMAIN txns : txns[t] \in Txn
      /\ \A j \in DOMAIN calls : calls[j] \in Assertions
  BY <1>1
<1>3. /\ \A t \in Txn : t.exp \in Nat
      /\ \A c \in Assertions : /\ c.exp \in Nat /\ c.aud.instance \in Instances
                               /\ c.aud.nonce \in 0 .. MaxRestarts
  BY DEF Txn, Assertions
<1> QED  BY <1>2, <1>3

\* A token may be added whose line narrows and has held a token at every hop but the last.
LEMMA AddTxn ==
  ASSUME DInv, NEW token \in Txn, token.exp <= now + MaxTxnTTL,
         Len(token.line) >= 1, Narrowing(token.line),
         \A n \in 1 .. Len(token.line) - 1 :
           \E p \in DOMAIN txns : /\ txns[p].txn = token.txn /\ txns[p].exp = token.exp
                                 /\ txns[p].line = SubSeq(token.line, 1, n),
         Len(txns) + Len(calls) < MaxTokens,
         txns' = Append(txns, token), UNCHANGED <<now, calls, caches, verifier, uses>>
  PROVE  DInv'
<1>1. /\ txns \in Seq(Txn) /\ txns' \in Seq(Txn)
      /\ Len(txns') = Len(txns) + 1 /\ Len(txns) \in Nat
      /\ \A t \in 1 .. Len(txns) : txns'[t] = txns[t]
      /\ txns'[Len(txns) + 1] = token
      /\ DOMAIN txns = 1 .. Len(txns) /\ DOMAIN txns' = 1 .. Len(txns) + 1
  <2>1. txns \in Seq(Txn)
    BY DEF DInv, DelegationTypeOK
  <2> QED  BY <2>1, AppendProperties
<1>2. DelegationTypeOK'
  <2>1. \A t \in DOMAIN txns' : txns'[t].exp <= now' + MaxTxnTTL
    BY <1>1 DEF DInv, DelegationTypeOK
  <2>2. (Len(txns) + Len(calls) <= MaxTokens)'
    BY <1>1, DelegationAssumption DEF DInv, DelegationTypeOK
  <2> QED  BY <1>1, <2>1, <2>2 DEF DInv, DelegationTypeOK, caches
<1>3. Rooted'
  BY <1>1 DEF DInv, Rooted
<1>4. NeverWidens'
  BY <1>1 DEF DInv, NeverWidens, Narrowing
<1>5. LineIsWhole'
  <2> SUFFICES ASSUME NEW t \in DOMAIN txns', NEW n \in DOMAIN txns'[t].line
               PROVE  \E p \in 1 .. t : /\ txns'[p].txn = txns'[t].txn /\ txns'[p].exp = txns'[t].exp
                                        /\ txns'[p].line = SubSeq(txns'[t].line, 1, n)
    BY DEF LineIsWhole
  <2>1. CASE t \in 1 .. Len(txns)
    <3>1. n \in DOMAIN txns[t].line /\ t \in DOMAIN txns
      BY <1>1, <2>1
    <3>2. PICK p \in 1 .. t : /\ txns[p].txn = txns[t].txn /\ txns[p].exp = txns[t].exp
                              /\ txns[p].line = SubSeq(txns[t].line, 1, n)
      BY <3>1 DEF DInv, LineIsWhole
    <3>3. txns'[p] = txns[p] /\ txns'[t] = txns[t]
      BY <1>1, <2>1, <3>2
    <3> QED  BY <3>2, <3>3
  <2>2. CASE t = Len(txns) + 1
    <3>1. txns'[t] = token /\ token.line \in Seq(Hop) /\ n \in 1 .. Len(token.line)
      BY <1>1, <2>2 DEF Txn
    <3>2. CASE n = Len(token.line)
      <4>1. SubSeq(token.line, 1, n) = token.line
        BY <3>1, <3>2, SubSeqFull
      <4>2. t \in 1 .. t
        BY <1>1, <2>2
      <4> QED  BY <3>1, <4>1, <4>2
    <3>3. CASE n # Len(token.line)
      <4>1. n \in 1 .. Len(token.line) - 1
        BY <3>1, <3>3
      <4>2. PICK p \in DOMAIN txns : /\ txns[p].txn = token.txn /\ txns[p].exp = token.exp
                                     /\ txns[p].line = SubSeq(token.line, 1, n)
        BY <4>1
      <4>3. p \in 1 .. t /\ txns'[p] = txns[p]
        BY <1>1, <2>2, <4>2
      <4> QED  BY <3>1, <4>2, <4>3
    <3> QED  BY <3>2, <3>3
  <2>3. t \in 1 .. Len(txns) \/ t = Len(txns) + 1
    BY <1>1
  <2> QED  BY <2>1, <2>2, <2>3
<1>6. CallsEndWithTxn'
  <2> SUFFICES ASSUME NEW j \in DOMAIN calls'
               PROVE  \E t \in DOMAIN txns' : /\ txns'[t].txn = calls'[j].txn
                                             /\ txns'[t].line = calls'[j].line
                                             /\ calls'[j].exp <= txns'[t].exp
    BY DEF CallsEndWithTxn
  <2>1. PICK t \in DOMAIN txns : /\ txns[t].txn = calls[j].txn
                                 /\ txns[t].line = calls[j].line
                                 /\ calls[j].exp <= txns[t].exp
    BY DEF DInv, CallsEndWithTxn
  <2>2. t \in DOMAIN txns' /\ txns'[t] = txns[t]
    BY <1>1
  <2> QED  BY <2>1, <2>2
<1>7. NonceInv' /\ ParsedInv' /\ CachedInv' /\ SingleUseWhileLive'
  BY DEF DInv, NonceInv, ParsedInv, CachedInv, SingleUseWhileLive, caches, Aud
<1> QED  BY <1>2, <1>3, <1>4, <1>5, <1>6, <1>7 DEF DInv

LEMMA DInvMint ==
  ASSUME DInv, NEW agent \in Agents \cup {Blank}, NEW scope \in Scopes,
         NEW ttl \in Lifetimes, Mint(agent, scope, ttl)
  PROVE  DInv'
<1> DEFINE hop == [agent |-> agent, scope |-> scope]
           token == MintTxn(agent, scope, ttl)
<1>1. now \in Nat /\ Granted(ttl) \in Nat /\ Granted(ttl) <= MaxTxnTTL
  BY DelegationAssumption DEF DInv, DelegationTypeOK, Granted, Lesser
<1>2. Len(txns) \in Nat /\ Len(calls) \in Nat /\ Len(txns) + 1 \in 1 .. MaxTokens
  BY DelegationAssumption DEF DInv, DelegationTypeOK, Mint
<1>3. hop \in Hop
  BY DEF Mint, Hop
<1>4. token = [txn |-> Len(txns) + 1, line |-> <<hop>>, exp |-> now + Granted(ttl)]
  BY DEF MintTxn
<1> HIDE DEF hop
<1>5. <<hop>> \in Seq(Hop) /\ Len(<<hop>>) = 1 /\ DOMAIN <<hop>> = {1}
  BY <1>3
<1>6. token \in Txn /\ token.exp <= now + MaxTxnTTL
  BY <1>1, <1>2, <1>4, <1>5, DelegationAssumption DEF Txn
<1>7. Narrowing(token.line)
  BY <1>4, <1>5 DEF Narrowing
<1>8. token.line = <<hop>>
  BY <1>4
<1>9. txns' = Append(txns, token)
  BY DEF Mint
<1>10. Len(txns) + Len(calls) < MaxTokens /\ UNCHANGED <<now, calls, caches, verifier, uses>>
  BY DEF Mint
<1> HIDE DEF token
<1>11. Len(token.line) >= 1 /\ \A n \in 1 .. Len(token.line) - 1 : FALSE
  BY <1>5, <1>8
<1> QED  BY <1>6, <1>7, <1>9, <1>10, <1>11, AddTxn

LEMMA DInvDerive ==
  ASSUME DInv, NEW agent \in Agents \cup {Blank}, NEW scope \in Scopes,
         NEW t \in DOMAIN txns, Derive(txns[t], agent, scope)
  PROVE  DInv'
<1> DEFINE hop == [agent |-> agent, scope |-> scope]
           parent == txns[t]
           token == DeriveChildTxn(parent, agent, scope)
<1>1. /\ parent \in Txn /\ parent.exp <= now + MaxTxnTTL /\ parent.line \in Seq(Hop)
      /\ Len(parent.line) >= 1 /\ Len(parent.line) \in Nat
  <2>1. parent \in Txn /\ parent.exp <= now + MaxTxnTTL /\ Len(parent.line) >= 1
    BY DEF DInv, DelegationTypeOK, Rooted
  <2> HIDE DEF parent
  <2>2. parent.line \in Seq(Hop)
    BY <2>1 DEF Txn
  <2> QED  BY <2>1, <2>2
<1>2. hop \in Hop
  BY DEF Derive, Hop
<1>3. Narrowing(parent.line)
  BY DEF DInv, NeverWidens, Narrowing
<1>4. Narrows(hop.scope, Last(parent.line).scope)
  BY DEF Derive, ScopeOf
<1>5. \A n \in DOMAIN parent.line :
        \E p \in 1 .. t : /\ txns[p].txn = parent.txn /\ txns[p].exp = parent.exp
                          /\ txns[p].line = SubSeq(parent.line, 1, n)
  BY DEF DInv, LineIsWhole
<1>6. /\ txns' = Append(txns, token)
      /\ Len(txns) + Len(calls) < MaxTokens /\ UNCHANGED <<now, calls, caches, verifier, uses>>
  BY DEF Derive
<1>7. \A p \in 1 .. t : p \in DOMAIN txns
  BY DEF DInv, DelegationTypeOK
<1>8. token = [parent EXCEPT !.line = Append(parent.line, hop)]
  BY DEF DeriveChildTxn
<1> HIDE DEF hop, parent
<1>9. /\ token \in Txn /\ token.exp = parent.exp /\ token.txn = parent.txn
      /\ token.line = Append(parent.line, hop)
  <2> HIDE DEF token
  <2> DEFINE longer == Append(parent.line, hop)
  <2>1. longer \in Seq(Hop)
    BY <1>1, <1>2, AppendProperties
  <2>2. token = [parent EXCEPT !.line = longer]
    BY <1>8
  <2> HIDE DEF longer
  <2>3. /\ token \in Txn /\ token.exp = parent.exp /\ token.txn = parent.txn
        /\ token.line = longer
    BY <1>1, <2>1, <2>2 DEF Txn
  <2> QED  BY <2>3 DEF longer
<1> HIDE DEF token
<1>10. Narrowing(token.line)
  BY <1>1, <1>2, <1>3, <1>4, <1>9, AppendNarrows
<1>11. Len(token.line) = Len(parent.line) + 1
  BY <1>1, <1>2, <1>9
<1>12. ASSUME NEW n \in 1 .. Len(token.line) - 1
       PROVE  \E p \in DOMAIN txns : /\ txns[p].txn = token.txn /\ txns[p].exp = token.exp
                                    /\ txns[p].line = SubSeq(token.line, 1, n)
  <2>1. n \in 1 .. Len(parent.line) /\ n \in DOMAIN parent.line
    BY <1>1, <1>11
  <2>2. SubSeq(token.line, 1, n) = SubSeq(parent.line, 1, n)
    BY <1>1, <1>2, <1>9, <2>1, AppendKeepsStart
  <2> QED  BY <1>5, <1>7, <1>9, <2>1, <2>2
<1>13. token.exp <= now + MaxTxnTTL /\ Len(token.line) >= 1
  BY <1>1, <1>9, <1>11
<1> QED  BY <1>6, <1>9, <1>10, <1>12, <1>13, AddTxn

\* An assertion names a line that holds a token, and nobody has used it.
LEMMA DInvDeriveCall ==
  ASSUME DInv, NEW i \in Instances, NEW t \in DOMAIN txns, DeriveCall(i, txns[t])
  PROVE  DInv'
<1> DEFINE parent == txns[t]
           call == Assertion(i, parent)
<1>1. parent \in Txn /\ now \in Nat /\ started[i] \in 0 .. MaxRestarts
  BY DelegationAssumption DEF DInv, DelegationTypeOK
<1>2. call = [txn |-> parent.txn, line |-> parent.line, aud |-> Aud(i),
              exp |-> Lesser(now + CallTTL, parent.exp)]
  BY DEF Assertion
<1>3. calls' = Append(calls, call) /\ uses' = Append(uses, 0)
  BY DEF DeriveCall
<1>4. Len(txns) + Len(calls) < MaxTokens /\ UNCHANGED <<now, txns, caches, verifier>>
  BY DEF DeriveCall
<1> HIDE DEF parent, call
<1>5. /\ Lesser(now + CallTTL, parent.exp) \in Nat
      /\ Lesser(now + CallTTL, parent.exp) <= parent.exp
  BY <1>1, DelegationAssumption DEF Lesser, Txn
<1>6. Aud(i) \in [instance : Instances, nonce : 0 .. MaxRestarts]
  BY <1>1 DEF Aud
<1>7. /\ call \in Assertions /\ call.txn = parent.txn /\ call.line = parent.line
      /\ call.exp <= parent.exp /\ call.aud = Aud(i)
  BY <1>1, <1>2, <1>5, <1>6 DEF Assertions, Txn
<1>8. calls \in Seq(Assertions) /\ uses \in Seq(Nat) /\ Len(uses) = Len(calls)
  BY DEF DInv, DelegationTypeOK
<1>9. /\ calls' \in Seq(Assertions) /\ Len(calls') = Len(calls) + 1 /\ Len(calls) \in Nat
      /\ \A j \in 1 .. Len(calls) : calls'[j] = calls[j]
      /\ calls'[Len(calls) + 1] = call
      /\ DOMAIN calls = 1 .. Len(calls) /\ DOMAIN calls' = 1 .. Len(calls) + 1
  BY <1>3, <1>7, <1>8, AppendProperties
<1>10. /\ uses' \in Seq(Nat) /\ Len(uses') = Len(calls)+ 1
       /\ \A j \in 1 .. Len(calls) : uses'[j] = uses[j]
       /\ uses'[Len(calls) + 1] = 0
  BY <1>3, <1>8, AppendProperties
<1>11. DelegationTypeOK'
  <2>1. \A S \in SUBSET DOMAIN calls : S \in SUBSET DOMAIN calls'
    BY <1>9
  <2>2. (replay \in [Instances -> SUBSET DOMAIN calls])'
    BY <1>4, <2>1 DEF DInv, DelegationTypeOK, caches
  <2>3. (verifier \in [Verifiers -> {Resting} \cup [at : Instances, jti : DOMAIN calls]])'
    BY <1>4, <1>9 DEF DInv, DelegationTypeOK, Resting
  <2>4. (Len(txns) + Len(calls) <= MaxTokens)'
    BY <1>4, <1>9, DelegationAssumption DEF DInv, DelegationTypeOK
  <2> QED  BY <1>4, <1>9, <1>10, <2>2, <2>3, <2>4 DEF DInv, DelegationTypeOK, caches
<1>12. Rooted' /\ NeverWidens' /\ LineIsWhole'
  BY <1>4 DEF DInv, Rooted, NeverWidens, LineIsWhole
<1>13. CallsEndWithTxn'
  <2> SUFFICES ASSUME NEW j \in DOMAIN calls'
               PROVE  \E s \in DOMAIN txns : /\ txns[s].txn = calls'[j].txn
                                            /\ txns[s].line = calls'[j].line
                                            /\ calls'[j].exp <= txns[s].exp
    BY <1>4 DEF CallsEndWithTxn
  <2>1. CASE j \in 1 .. Len(calls)
    BY <1>9, <2>1 DEF DInv, CallsEndWithTxn
  <2>2. CASE j = Len(calls) + 1
    BY <1>7, <1>9, <2>2 DEF parent
  <2> QED  BY <1>9, <2>1, <2>2
<1>14. NonceInv'
  BY <1>1, <1>4, <1>7, <1>9 DEF DInv, NonceInv, caches, Aud
<1>15. ParsedInv'
  <2> SUFFICES ASSUME NEW v \in Verifiers, verifier[v] # Resting
               PROVE  calls'[verifier[v].jti].aud = Aud(verifier[v].at)
    BY <1>4 DEF ParsedInv, caches, Aud
  <2>1. verifier[v].jti \in 1 .. Len(calls)
    BY <1>9 DEF DInv, DelegationTypeOK
  <2> QED  BY <1>9, <2>1 DEF DInv, ParsedInv
<1>16. CachedInv' /\ SingleUseWhileLive'
  <2>1. now' = now /\ started' = started /\ replay' = replay
    BY <1>4 DEF caches
  <2>2. ASSUME NEW j \in 1 .. Len(calls)
        PROVE  /\ now <= calls[j].exp => uses[j] <= 1
               /\ (/\ now <= calls[j].exp /\ uses[j] # 0
                   /\ calls[j].aud.nonce = started[calls[j].aud.instance])
                  => j \in replay[calls[j].aud.instance]
    BY <1>9, <2>2 DEF DInv, CachedInv, SingleUseWhileLive
  <2>3. ASSUME NEW j \in DOMAIN calls'
        PROVE  \/ uses'[j] = 0
               \/ j \in 1 .. Len(calls) /\ calls'[j] = calls[j] /\ uses'[j] = uses[j]
    BY <1>9, <1>10
  <2>4. CachedInv'
    BY <2>1, <2>2, <2>3 DEF CachedInv
  <2>5. SingleUseWhileLive'
    BY <2>1, <2>2, <2>3 DEF SingleUseWhileLive
  <2> QED  BY <2>4, <2>5
<1> QED  BY <1>11, <1>12, <1>13, <1>14, <1>15, <1>16 DEF DInv
-----------------------------------------------------------------------------
(* Verification, restarts and time.                                        *)

LEMMA DInvParse ==
  ASSUME DInv, NEW v \in Verifiers, NEW i \in Instances, NEW jti \in DOMAIN calls,
         Parse(v, i, jti)
  PROVE  DInv'
<1>1. DelegationTypeOK'
  BY DEF Parse, DInv, DelegationTypeOK, issued, caches, Resting
<1>2. ParsedInv'
  BY DEF Parse, DInv, DelegationTypeOK, ParsedInv, ForThisInstance, Aud, issued, caches
<1> QED  BY <1>1, <1>2 DEF Parse, DInv, Rooted, NeverWidens, LineIsWhole, CallsEndWithTxn, NonceInv,
                           CachedInv, SingleUseWhileLive, issued, caches

\* The sweep keeps whatever still lives.
LEMMA DInvCheck ==
  ASSUME DInv, NEW v \in Verifiers, Check(v)
  PROVE  DInv'
<1>1. PICK i, j : i = verifier[v].at /\ j = verifier[v].jti
  OBVIOUS
<1>2. i # None /\ verifier[v] # Resting
  BY <1>1 DEF Check, Resting
<1>3. i \in Instances /\ j \in DOMAIN calls /\ calls[j].aud = Aud(i)
  BY <1>1, <1>2 DEF DInv, DelegationTypeOK, ParsedInv
<1>4. /\ verifier' = [verifier EXCEPT ![v] = Resting]
      /\ UNCHANGED <<now, txns, calls, started>>
  BY DEF Check, issued
<1>5. ParsedInv' /\ NonceInv'
  BY <1>4 DEF DInv, DelegationTypeOK, ParsedInv, NonceInv, Aud
<1>6. Rooted' /\ NeverWidens' /\ LineIsWhole' /\ CallsEndWithTxn'
  BY <1>4 DEF DInv, Rooted, NeverWidens, LineIsWhole, CallsEndWithTxn
<1>7. CASE j \in replay[i]
  <2>1. UNCHANGED <<replay, inserts, uses>>
    BY <1>1, <1>7 DEF Check
  <2>2. DelegationTypeOK'
    BY <1>4, <2>1 DEF DInv, DelegationTypeOK, Resting
  <2> QED  BY <1>4, <1>5, <1>6, <2>1, <2>2 DEF DInv, CachedInv, SingleUseWhileLive
<1>8. CASE j \notin replay[i]
  <2>1. PICK cache : /\ cache \in {Unexpired(replay[i] \cup {j}), replay[i] \cup {j}}
                     /\ replay' = [replay EXCEPT ![i] = cache]
    BY <1>1, <1>8 DEF Check
  <2>2. uses' = [uses EXCEPT ![j] = uses[j] + 1]
    BY <1>1, <1>8 DEF Check
  <2>3. cache \subseteq DOMAIN calls
    BY <1>3, <2>1 DEF Unexpired, DInv, DelegationTypeOK
  <2>4. \A k \in replay[i] \cup {j} : now <= calls[k].exp => k \in cache
    BY <1>3, <2>1 DEF Unexpired, DInv, DelegationTypeOK
  <2>5. inserts' \in [Instances -> 0 .. SweepEvery - 1]
    <3>1. inserts \in [Instances -> 0 .. SweepEvery - 1] /\ SweepEvery \in Nat \ {0}
      BY DelegationAssumption DEF DInv, DelegationTypeOK
    <3>2. inserts' = [inserts EXCEPT ![i] =
                        IF inserts[i] + 1 >= SweepEvery THEN 0 ELSE inserts[i] + 1]
      BY <1>1, <1>8 DEF Check
    <3> QED  BY <1>3, <3>1, <3>2
  <2>6. /\ uses' \in Seq(Nat) /\ Len(uses') = Len(calls)
        /\ uses'[j] = uses[j] + 1
        /\ \A k \in DOMAIN calls : k # j => uses'[k] = uses[k]
        /\ \A k \in DOMAIN calls : uses[k] \in Nat
    BY <1>3, <2>2 DEF DInv, DelegationTypeOK
  <2>7. DelegationTypeOK'
    BY <1>3, <1>4, <2>1, <2>3, <2>5, <2>6 DEF DInv, DelegationTypeOK, Resting
  <2>8. /\ replay'[i] = cache
        /\ \A h \in Instances : h # i => replay'[h] = replay[h]
    BY <1>3, <2>1 DEF DInv, DelegationTypeOK
  <2>9. \A k \in DOMAIN calls : calls[k].aud.instance \in Instances
    BY Elements
  <2>10. calls[j].aud.instance = i /\ calls[j].aud.nonce = started[i]
    BY <1>3 DEF Aud
  <2>11. SingleUseWhileLive'
    BY <1>3, <1>4, <1>8, <2>6, <2>10 DEF DInv, SingleUseWhileLive, CachedInv
  <2>12. CachedInv'
    <3> SUFFICES ASSUME NEW k \in DOMAIN calls, now <= calls[k].exp, uses'[k] # 0,
                        calls[k].aud.nonce = started[calls[k].aud.instance]
                 PROVE  k \in replay'[calls[k].aud.instance]
      BY <1>4 DEF CachedInv
    <3>1. CASE k = j
      BY <2>4, <2>8, <2>10, <3>1
    <3>2. CASE k # j
      <4>1. k \in replay[calls[k].aud.instance]
        BY <2>6, <3>2 DEF DInv, CachedInv
      <4> QED  BY <2>4, <2>8, <2>9, <4>1
    <3> QED  BY <3>1, <3>2
  <2> QED  BY <1>5, <1>6, <2>7, <2>11, <2>12 DEF DInv
<1> QED  BY <1>7, <1>8

\* A start disowns every assertion of the instance: it forgets them and they no longer name it.
LEMMA DInvRestart ==
  ASSUME DInv, NEW i \in Instances, Restart(i)
  PROVE  DInv'
<1>1. /\ started' = [started EXCEPT ![i] = started[i] + 1]
      /\ replay' = [replay EXCEPT ![i] = {}]
      /\ inserts' = [inserts EXCEPT ![i] = 0]
      /\ verifier' = [v \in Verifiers |-> IF verifier[v].at = i THEN Resting ELSE verifier[v]]
      /\ UNCHANGED <<now, txns, calls, uses>>
      /\ started[i] < MaxRestarts
  BY DEF Restart, issued
<1>2. /\ started \in [Instances -> 0 .. MaxRestarts]
      /\ \A j \in DOMAIN calls : calls[j].aud.instance \in Instances /\ calls[j].aud.nonce \in Nat
      /\ replay \in [Instances -> SUBSET DOMAIN calls]
  <2>1. started \in [Instances -> 0 .. MaxRestarts] /\ replay \in [Instances -> SUBSET DOMAIN calls]
    BY DEF DInv, DelegationTypeOK
  <2>2. \A n \in 0 .. MaxRestarts : n \in Nat
    BY DelegationAssumption
  <2> QED  BY <2>1, <2>2, Elements
<1>3. DelegationTypeOK'
  <2>1. started' \in [Instances -> 0 .. MaxRestarts]
    BY <1>1, <1>2, DelegationAssumption
  <2>2. inserts' \in [Instances -> 0 .. SweepEvery - 1]
    BY <1>1, DelegationAssumption DEF DInv, DelegationTypeOK
  <2>3. replay' \in [Instances -> SUBSET DOMAIN calls]
    BY <1>1, <1>2
  <2>4. verifier' \in [Verifiers -> {Resting} \cup [at : Instances, jti : DOMAIN calls]]
    BY <1>1 DEF DInv, DelegationTypeOK
  <2> QED  BY <1>1, <2>1, <2>2, <2>3, <2>4 DEF DInv, DelegationTypeOK
<1>4. \A h \in Instances : /\ h # i => started'[h] = started[h] /\ replay'[h] = replay[h]
                           /\ h = i => started'[h] = started[h] + 1
  BY <1>1, <1>2
<1>5. NonceInv' /\ CachedInv'
  BY <1>1, <1>2, <1>4, DelegationAssumption DEF DInv, NonceInv, CachedInv
<1>6. ParsedInv'
  <2> SUFFICES ASSUME NEW v \in Verifiers, verifier'[v] # Resting
               PROVE  calls'[verifier'[v].jti].aud =
                        [instance |-> verifier'[v].at, nonce |-> started'[verifier'[v].at]]
    BY DEF ParsedInv, Aud, Resting
  <2>1. verifier'[v] = verifier[v] /\ verifier[v].at # i /\ verifier[v] # Resting
    BY <1>1
  <2>2. verifier[v].at \in Instances
    BY <2>1 DEF DInv, DelegationTypeOK
  <2>3. started'[verifier[v].at] = started[verifier[v].at]
    BY <1>4, <2>1, <2>2
  <2> QED  BY <1>1, <2>1, <2>3 DEF DInv, ParsedInv, Aud
<1> QED  BY <1>1, <1>3, <1>5, <1>6 DEF DInv, Rooted, NeverWidens, LineIsWhole, CallsEndWithTxn,
                                       SingleUseWhileLive

LEMMA DInvTick == ASSUME DInv, Tick PROVE DInv'
<1>1. now' = now + 1 /\ now \in Nat /\ UNCHANGED <<txns, calls, started, replay, inserts, verifier, uses>>
  BY DelegationAssumption DEF Tick, DInv, DelegationTypeOK, issued, caches
<1>2. /\ \A t \in DOMAIN txns : txns[t].exp \in Nat
      /\ \A j \in DOMAIN calls : calls[j].exp \in Nat
  BY Elements
<1>3. DelegationTypeOK'
  <2>1. now' \in 0 .. MaxTime
    BY <1>1, DelegationAssumption DEF Tick, DInv, DelegationTypeOK
  <2>2. \A t \in DOMAIN txns : txns[t].exp <= now' + MaxTxnTTL
    BY <1>1, <1>2, DelegationAssumption DEF DInv, DelegationTypeOK
  <2> QED  BY <1>1, <2>1, <2>2 DEF DInv, DelegationTypeOK
<1>4. CachedInv' /\ SingleUseWhileLive'
  BY <1>1, <1>2 DEF DInv, CachedInv, SingleUseWhileLive
<1> QED  BY <1>1, <1>3, <1>4 DEF DInv, Rooted, NeverWidens, LineIsWhole, CallsEndWithTxn, NonceInv,
                                 ParsedInv, Aud

LEMMA DInvStep == DInv /\ [Next]_vars => DInv'
<1> SUFFICES ASSUME DInv, [Next]_vars PROVE DInv'
  OBVIOUS
<1>1. ASSUME NEW agent \in Agents \cup {Blank}, NEW scope \in Scopes, NEW ttl \in Lifetimes,
             Mint(agent, scope, ttl)
      PROVE  DInv'
  BY <1>1, DInvMint
<1>2. ASSUME NEW agent \in Agents \cup {Blank}, NEW scope \in Scopes, NEW t \in DOMAIN txns,
             Derive(txns[t], agent, scope)
      PROVE  DInv'
  BY <1>2, DInvDerive
<1>3. ASSUME NEW i \in Instances, NEW t \in DOMAIN txns, DeriveCall(i, txns[t])
      PROVE  DInv'
  BY <1>3, DInvDeriveCall
<1>4. ASSUME NEW i \in Instances, NEW v \in Verifiers, NEW jti \in DOMAIN calls, Parse(v, i, jti)
      PROVE  DInv'
  BY <1>4, DInvParse
<1>5. ASSUME NEW i \in Instances, Restart(i) PROVE DInv'
  BY <1>5, DInvRestart
<1>6. ASSUME NEW v \in Verifiers, Check(v) PROVE DInv'
  BY <1>6, DInvCheck
<1>7. CASE Tick
  BY <1>7, DInvTick
<1>8. CASE UNCHANGED vars
  BY <1>8 DEF vars, issued, caches, DInv, DelegationTypeOK, Rooted, NeverWidens, LineIsWhole,
              CallsEndWithTxn, NonceInv, ParsedInv, CachedInv, SingleUseWhileLive, Aud
<1> QED  BY <1>1, <1>2, <1>3, <1>4, <1>5, <1>6, <1>7, <1>8 DEF Next
-----------------------------------------------------------------------------
(* The theorems.                                                           *)

\* The inductive invariant holds throughout.
THEOREM DelegationInvariant == Spec => []DInv
BY DInvInit, DInvStep, PTL DEF Spec

\* The variables keep their types, and no token lives longer than MaxTxnTTL (tis.go:101-106).
THEOREM DelegationTypeCorrect == Spec => []DelegationTypeOK
<1>1. DInv => DelegationTypeOK
  BY DEF DInv
<1> QED  BY <1>1, DelegationInvariant, PTL

\* No delegation widens authority over any hop before it, on a line of any length
\* (scope.go:18-44, tis.go:127-156).
THEOREM AuthorityNarrows == Spec => []NeverWidens
<1>1. DInv => NeverWidens
  BY DEF DInv
<1> QED  BY <1>1, DelegationInvariant, PTL

\* Every hop on a line held a token of the same transaction with the same end, and no
\* assertion outlives the transaction it is about (tis.go:141-184).
THEOREM LineageIsHeld == Spec => []LineageHolds
<1>1. DInv => LineageHolds
  BY DEF DInv, LineageHolds
<1> QED  BY <1>1, DelegationInvariant, PTL

\* A live assertion is accepted once at most, over any restarts, sweeps and overlapping
\* verifications (tis.go:198-223).
THEOREM AcceptedOnceWhileLive == Spec => []SingleUseWhileLive
<1>1. DInv => SingleUseWhileLive
  BY DEF DInv
<1> QED  BY <1>1, DelegationInvariant, PTL
=============================================================================

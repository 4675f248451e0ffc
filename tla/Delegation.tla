------------------------------ MODULE Delegation ------------------------------
(***************************************************************************)
(* Credentials of the transaction identity service: root tokens minted     *)
(* over the sideband socket, children derived from live parents under a    *)
(* scope that only narrows, and call assertions that one instance of the   *)
(* proxy accepts once (internal/tis/tis.go and scope.go, mintsock.go). The *)
(* keys that sign them are the subject of module Keyring.                  *)
(***************************************************************************)
EXTENDS Integers, Sequences, SequencesExt

CONSTANTS
  Instances,      \* proxies that share the signing key
  Verifiers,      \* goroutines in VerifyCall
  Agents, Blank,  \* names of agents, and the name that is only space
  Scopes,         \* scopes a caller may ask for
  Star,           \* the top of every dimension
  Lifetimes,      \* lifetimes a caller may ask for
  DefaultTxnTTL, MaxTxnTTL, CallTTL,
  SweepEvery,     \* 1024 checks between two sweeps of the replay cache
  MaxTime, MaxTokens, MaxRestarts,  \* bounds; tokens are counted of both kinds
  None

ASSUME DelegationAssumption ==
  /\ {DefaultTxnTTL, MaxTxnTTL, CallTTL, SweepEvery} \subseteq Nat \ {0}
  /\ DefaultTxnTTL <= MaxTxnTTL
  /\ {MaxTime, MaxTokens, MaxRestarts} \subseteq Nat
  /\ Lifetimes \subseteq Int
  /\ Blank \notin Agents

VARIABLES
  now,
  txns,      \* transaction tokens, in the order they were issued: [txn, line, exp];
             \* the line holds every hop, root first
  calls,     \* call assertions, in the order of their jti: [txn, line, aud, exp]
  started,   \* per instance: how often it was started again, the nonce of its audience
  replay,    \* per instance: the replay cache, a set of jtis
  inserts,   \* per instance: sinceSweep
  verifier,  \* per verifier: the instance and the jti it has parsed
  uses       \* per jti: how often it was accepted

issued == <<txns, calls>>
caches == <<started, replay, inserts>>
vars == <<now, issued, caches, verifier, uses>>

Hop == [agent : Agents, scope : Scopes]
Aud(i) == [instance |-> i, nonce |-> started[i]]
Resting == [at |-> None, jti |-> 0]

-----------------------------------------------------------------------------
(* The algebra of scopes.                                                   *)

SubsetOrTop(child, parent) ==
  \/ parent = <<Star>>
  \/ \A i \in DOMAIN child :
       child[i] # Star /\ \E j \in DOMAIN parent : child[i] = parent[j]

Narrows(child, parent) ==
  /\ SubsetOrTop(child.compartments, parent.compartments)
  /\ SubsetOrTop(child.resource_types, parent.resource_types)
  /\ SubsetOrTop(child.actions, parent.actions)
  /\ parent.purpose = Star \/ child.purpose = parent.purpose

-----------------------------------------------------------------------------
Init ==
  /\ now = 0
  /\ txns = <<>>
  /\ calls = <<>>
  /\ started = [i \in Instances |-> 0]
  /\ replay = [i \in Instances |-> {}]
  /\ inserts = [i \in Instances |-> 0]
  /\ verifier = [v \in Verifiers |-> Resting]
  /\ uses = <<>>

Lesser(a, b) == IF a < b THEN a ELSE b
Live(exp) == now < exp

\* Mutant of Granted: no lifetime is too long.
GrantedUncapped(ttl) == IF ttl <= 0 THEN DefaultTxnTTL ELSE ttl

Granted(ttl) == IF ttl <= 0 THEN DefaultTxnTTL ELSE Lesser(ttl, MaxTxnTTL)

MintTxn(agent, scope, ttl) ==
  [txn |-> Len(txns) + 1, line |-> <<[agent |-> agent, scope |-> scope]>>,
   exp |-> now + Granted(ttl)]

\* POST /mint: every name but a blank one, every scope.
Mint(agent, scope, ttl) ==
  /\ agent # Blank
  /\ Len(txns) + Len(calls) < MaxTokens
  /\ txns' = Append(txns, MintTxn(agent, scope, ttl))
  /\ UNCHANGED <<now, calls, caches, verifier, uses>>

\* Mutant of ScopeOf: the scope of the root answers for the whole line.
ScopeOfRoot(token) == token.line[1].scope

ScopeOf(token) == Last(token.line).scope

\* Mutant of DeriveChildTxn: the child is given a lifetime of its own.
DeriveOutliving(parent, agent, scope) ==
  [parent EXCEPT !.line = Append(@, [agent |-> agent, scope |-> scope]),
                 !.exp = now + DefaultTxnTTL]

DeriveChildTxn(parent, agent, scope) ==
  [parent EXCEPT !.line = Append(@, [agent |-> agent, scope |-> scope])]

\* POST /derive: a live parent and a scope that narrows its own.
Derive(parent, agent, scope) ==
  /\ agent # Blank
  /\ Live(parent.exp)
  /\ Narrows(scope, ScopeOf(parent))
  /\ Len(txns) + Len(calls) < MaxTokens
  /\ txns' = Append(txns, DeriveChildTxn(parent, agent, scope))
  /\ UNCHANGED <<now, calls, caches, verifier, uses>>

\* Mutant of Assertion: it lives for CallTTL whatever is left of its transaction.
AssertionOutliving(i, token) ==
  [txn |-> token.txn, line |-> token.line, aud |-> Aud(i), exp |-> now + CallTTL]

Assertion(i, token) ==
  [txn |-> token.txn, line |-> token.line, aud |-> Aud(i),
   exp |-> Lesser(now + CallTTL, token.exp)]

DeriveCall(i, token) ==
  /\ Live(token.exp)
  /\ Len(txns) + Len(calls) < MaxTokens
  /\ calls' = Append(calls, Assertion(i, token))
  /\ uses' = Append(uses, 0)
  /\ UNCHANGED <<now, txns, caches, verifier>>

-----------------------------------------------------------------------------
(* VerifyCall: the token is parsed first, and the cache is locked later.    *)

\* Mutant of ForThisInstance: the audience names the deployment only.
ForAnyInstance(i, call) == TRUE

ForThisInstance(i, call) == call.aud = Aud(i)

Parse(v, i, jti) ==
  /\ verifier[v] = Resting
  /\ Live(calls[jti].exp)
  /\ ForThisInstance(i, calls[jti])
  /\ verifier' = [verifier EXCEPT ![v] = [at |-> i, jti |-> jti]]
  /\ UNCHANGED <<now, issued, caches, uses>>

\* Mutant of Unexpired: an entry is given up at its expiry less one.
UnexpiredEarly(cache) == {j \in cache : calls[j].exp > now + 1}

Unexpired(cache) == {j \in cache : calls[j].exp >= now}

Check(v) ==
  LET i == verifier[v].at
      j == verifier[v].jti
      sweep == inserts[i] + 1 >= SweepEvery
  IN /\ i # None
     /\ IF j \in replay[i]
        THEN UNCHANGED <<replay, inserts, uses>>
        ELSE /\ uses' = [uses EXCEPT ![j] = @ + 1]
             /\ replay' = [replay EXCEPT ![i] =
                  IF sweep THEN Unexpired(@ \cup {j}) ELSE @ \cup {j}]
             /\ inserts' = [inserts EXCEPT ![i] = IF sweep THEN 0 ELSE @ + 1]
     /\ verifier' = [verifier EXCEPT ![v] = Resting]
     /\ UNCHANGED <<now, issued, started>>

\* An instance comes up again with an empty cache and a new nonce.
Restart(i) ==
  /\ started[i] < MaxRestarts
  /\ started' = [started EXCEPT ![i] = @ + 1]
  /\ replay' = [replay EXCEPT ![i] = {}]
  /\ inserts' = [inserts EXCEPT ![i] = 0]
  /\ verifier' = [v \in Verifiers |-> IF verifier[v].at = i THEN Resting ELSE verifier[v]]
  /\ UNCHANGED <<now, issued, uses>>

Tick ==
  /\ now < MaxTime
  /\ now' = now + 1
  /\ UNCHANGED <<issued, caches, verifier, uses>>

Next ==
  \/ \E agent \in Agents \cup {Blank}, scope \in Scopes :
       \/ \E ttl \in Lifetimes : Mint(agent, scope, ttl)
       \/ \E t \in DOMAIN txns : Derive(txns[t], agent, scope)
  \/ \E i \in Instances :
       \/ \E t \in DOMAIN txns : DeriveCall(i, txns[t])
       \/ \E v \in Verifiers, jti \in DOMAIN calls : Parse(v, i, jti)
       \/ Restart(i)
  \/ \E v \in Verifiers : Check(v)
  \/ Tick

Spec == Init /\ [][Next]_vars

-----------------------------------------------------------------------------
(* Properties.                                                              *)

Txn == [txn : 1 .. MaxTokens, line : Seq(Hop), exp : Nat]
Assertions == [txn : 1 .. MaxTokens, line : Seq(Hop),
               aud : [instance : Instances, nonce : 0 .. MaxRestarts], exp : Nat]

\* Types of the variables; no token is good for longer than MaxTxnTTL.
DelegationTypeOK ==
  /\ now \in 0 .. MaxTime
  /\ txns \in Seq(Txn)
  /\ \A t \in DOMAIN txns : txns[t].exp <= now + MaxTxnTTL
  /\ calls \in Seq(Assertions)
  /\ started \in [Instances -> 0 .. MaxRestarts]
  /\ replay \in [Instances -> SUBSET DOMAIN calls]
  /\ inserts \in [Instances -> 0 .. SweepEvery - 1]
  /\ verifier \in [Verifiers ->
       {Resting} \cup [at : Instances, jti : DOMAIN calls]]
  /\ uses \in Seq(Nat) /\ Len(uses) = Len(calls)
  /\ Len(txns) + Len(calls) <= MaxTokens

\* A token is nowhere wider than any token before it on its line, however long the line gets
\* (scope.go:18-44, checked hop by hop at tis.go:137).
NeverWidens ==
  \A t \in DOMAIN txns : \A m, n \in DOMAIN txns[t].line :
    m < n => Narrows(txns[t].line[n].scope, txns[t].line[m].scope)

\* Every hop on the line of a token held a token of its own, of the same transaction and with
\* the same end: no hop is hidden or made up, and no child outlives its parent (tis.go:141-152).
LineIsWhole ==
  \A t \in DOMAIN txns : \A n \in DOMAIN txns[t].line :
    \E p \in 1 .. t : /\ txns[p].txn = txns[t].txn /\ txns[p].exp = txns[t].exp
                     /\ txns[p].line = SubSeq(txns[t].line, 1, n)

\* An assertion ends with its transaction at the latest, and names its whole line
\* (tis.go:159-184).
CallsEndWithTxn ==
  \A j \in DOMAIN calls :
    \E t \in DOMAIN txns : /\ txns[t].txn = calls[j].txn
                          /\ txns[t].line = calls[j].line
                          /\ calls[j].exp <= txns[t].exp

\* From an assertion back to the mint: its line and its end are those of a token that was
\* issued, and so for each hop before it.
LineageHolds == LineIsWhole /\ CallsEndWithTxn

\* Until it expires an assertion is accepted once at most, by one instance, over restarts and
\* sweeps and however verifications overlap (tis.go:198-223).
SingleUseWhileLive ==
  \A j \in DOMAIN calls : now <= calls[j].exp => uses[j] <= 1

\* docs/spec.md:203: a call assertion is never reusable.
SingleUse == \A j \in DOMAIN calls : uses[j] <= 1
=============================================================================

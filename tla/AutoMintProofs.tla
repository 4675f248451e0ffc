--------------------------- MODULE AutoMintProofs ---------------------------
(***************************************************************************)
(* Theorems about the gateway's cache: composed with it the keyring does   *)
(* nothing it does not do alone, and what the cache hands out verifies.    *)
(***************************************************************************)
EXTENDS AutoMint, KeyringProofs

\* Every step of the composition is a step of the keyring, or leaves it alone.
THEOREM ImplementsKeyring == AutoSpec => Spec
<1>1. AutoInit => Init
  BY DEF AutoInit
<1>2. [AutoNext]_autoVars => [Next]_vars
  BY DEF AutoNext, autoVars, StopAll, Serve, ReadGen, Lookup, Recheck, Mint, ReadBack,
         DeriveCall, Next
<1> QED  BY <1>1, <1>2, PTL DEF AutoSpec, Spec

-----------------------------------------------------------------------------
(* The inductive invariant.                                                *)

\* A key that signed for generation g: while g is the current one it is the signing
\* key, and for one generation more it verifies.
SignedFor(key, g) ==
  /\ g <= keyGen
  /\ g = keyGen => key = ring.cur
  /\ g + 1 = keyGen => key \in {ring.cur, ring.prev}

CacheInv ==
  \A p \in Principals : autoTxn[p] # NoEntry =>
    /\ SignedFor(autoTxn[p].tok.key, autoTxn[p].gen)
    /\ autoTxn[p].exp + AutoRenew = autoTxn[p].tok.exp

\* What a handler has read is not ahead of what there is, and its token stays good
\* for the renewal margin.
CallInv ==
  \A h \in Handlers : call[h] # Idle =>
    /\ call[h].gen <= keyGen
    /\ call[h].at <= now
    /\ call[h].pc \in {"minted", "derive"} =>
         /\ SignedFor(call[h].tok.key, call[h].gen)
         /\ call[h].at + AutoRenew < call[h].tok.exp

DownInv ==
  ~up => /\ autoTxn = [p \in Principals |-> NoEntry]
         /\ call = [h \in Handlers |-> Idle]

AutoInv == AutoTypeOK /\ CacheInv /\ CallInv /\ DownInv

LEMMA AutoInitHolds == AutoInit => AutoInv
<1> SUFFICES ASSUME AutoInit PROVE AutoInv
  OBVIOUS
<1>1. TypeOK
  BY InitHolds DEF AutoInit, IInv
<1>2. AutoTypeOK
  BY <1>1 DEF AutoInit, AutoTypeOK, Call
<1>3. CacheInv /\ CallInv /\ DownInv
  BY DEF AutoInit, CacheInv, CallInv, DownInv
<1> QED  BY <1>2, <1>3 DEF AutoInv

\* The steps of the keyring.
LEMMA KeyringStepKeeps ==
    ASSUME AutoInv, IInv, Start \/ Work, UNCHANGED gateVars
    PROVE  AutoInv'
<1> USE KeyringAssumption DEF AutoInv, gateVars
<1>1. TypeOK'
  BY NextKeeps DEF IInv, Next
<1>2. AutoTypeOK'
  BY <1>1 DEF AutoTypeOK
<1>3. CASE Start
  <2>1. \A h \in Handlers : call'[h] = Idle
    BY <1>3 DEF Start, DownInv
  <2>2. \A p \in Principals : autoTxn'[p] = NoEntry
    BY <1>3 DEF Start, DownInv
  <2> QED  BY <1>2, <1>3, <2>1, <2>2 DEF CacheInv, CallInv, DownInv, Start
<1>4. ASSUME NEW r \in Rotators, Adopt(r) PROVE AutoInv'
  <2>1. /\ keyGen' = keyGen + 1 /\ ring'.cur = next /\ ring'.prev = ring.cur
        /\ now' = now /\ up' = up /\ keyGen \in Nat
    BY <1>4 DEF Adopt, AutoTypeOK, TypeOK
  <2>3. CacheInv'
    <3>1. ASSUME NEW p \in Principals, autoTxn[p] # NoEntry
          PROVE  SignedFor(autoTxn[p].tok.key, autoTxn[p].gen)'
      <4>1. autoTxn[p].gen \in Nat /\ SignedFor(autoTxn[p].tok.key, autoTxn[p].gen)
        BY <3>1 DEF AutoTypeOK, Entry, CacheInv
      <4> QED  BY <2>1, <4>1 DEF SignedFor
    <3> QED  BY <3>1 DEF CacheInv
  <2>4. CallInv'
    <3>1. ASSUME NEW h \in Handlers, call[h] # Idle
          PROVE  /\ call[h].gen <= keyGen'
                 /\ call[h].pc \in {"minted", "derive"} => SignedFor(call[h].tok.key, call[h].gen)'
      <4>1. call[h].gen \in Nat /\ call[h].gen <= keyGen
        BY <3>1 DEF AutoTypeOK, CallInv, Call
      <4>2. call[h].pc \in {"minted", "derive"} => SignedFor(call[h].tok.key, call[h].gen)
        BY <3>1 DEF CallInv
      <4> QED  BY <2>1, <4>1, <4>2 DEF SignedFor
    <3> QED  BY <2>1, <3>1 DEF CallInv
  <2>5. DownInv'
    BY <2>1 DEF DownInv
  <2> QED  BY <1>2, <2>3, <2>4, <2>5
<1>5. CASE /\ UNCHANGED <<ring, keyGen>> /\ up' = up
           /\ now' \in Nat /\ now <= now'
  <2>1. CacheInv' /\ DownInv'
    BY <1>5 DEF CacheInv, DownInv, SignedFor
  <2>2. CallInv'
    <3>1. now \in Nat /\ \A h \in Handlers : call[h] # Idle => call[h].at \in Nat
      BY DEF AutoTypeOK, TypeOK, Call
    <3> QED  BY <1>5, <3>1 DEF CallInv, SignedFor
  <2> QED  BY <1>2, <2>1, <2>2
<1>6. Work => \/ UNCHANGED <<ring, keyGen>> /\ up' = up /\ now' \in Nat /\ now <= now'
              \/ \E r \in Rotators : Adopt(r)
  BY DEF Work, Tick, TimerDue, KeysRotate, Rotate, Lock, Demote, Install, RotateFails,
         MintTxn, DeriveChildTxn, ringVars, AutoTypeOK, TypeOK
<1> QED  BY <1>3, <1>4, <1>5, <1>6

\* A handler moves to a call that is as it should be.
LEMMA CallMoves ==
    ASSUME AutoInv, NEW h \in Handlers, NEW c \in Call,
           c # Idle =>
             /\ c.gen <= keyGen
             /\ c.at <= now
             /\ c.pc \in {"minted", "derive"} =>
                  /\ SignedFor(c.tok.key, c.gen)
                  /\ c.at + AutoRenew < c.tok.exp,
           call' = [call EXCEPT ![h] = c],
           UNCHANGED vars
    PROVE  TypeOK' /\ call' \in [Handlers -> Call] /\ CallInv'
<1>1. \A g \in Handlers : call'[g] = IF g = h THEN c ELSE call[g]
  BY DEF AutoInv, AutoTypeOK
<1>2. call' \in [Handlers -> Call]
  BY DEF AutoInv, AutoTypeOK
<1>3. CallInv'
  BY <1>1 DEF AutoInv, CallInv, SignedFor, vars, ringVars
<1>4. TypeOK'
  BY DEF AutoInv, AutoTypeOK, TypeOK, vars, ringVars
<1> QED  BY <1>2, <1>3, <1>4

\* A handler that is not idle runs, has read what there was, and its principal has
\* an entry or none.
LEMMA Serving ==
    ASSUME AutoInv, NEW h \in Handlers, call[h].pc # "idle"
    PROVE  /\ up /\ now \in Nat /\ keyGen \in Nat
           /\ call[h].coarse \in Principals /\ call[h].gen \in Nat /\ call[h].at \in Nat
           /\ call[h].gen <= keyGen /\ call[h].at <= now
           /\ Cached(h) \in Entry \cup {NoEntry}
           /\ call[h].pc \in {"minted", "derive"} =>
                /\ call[h].tok \in Token
                /\ SignedFor(call[h].tok.key, call[h].gen)
                /\ call[h].at + AutoRenew < call[h].tok.exp
<1>1. call[h] \in Call /\ call[h] # Idle
  BY DEF AutoInv, AutoTypeOK, Idle
<1>2. up
  BY <1>1 DEF AutoInv, DownInv
<1>3. call[h].coarse \in Principals /\ call[h].gen \in Nat /\ call[h].at \in Nat
  BY <1>1 DEF Call
<1>4. call[h].pc \in {"minted", "derive"} => call[h].tok \in Token
  BY <1>1 DEF Call
<1>5. Cached(h) \in Entry \cup {NoEntry}
  BY <1>3 DEF AutoInv, AutoTypeOK, Cached
<1> QED  BY <1>1, <1>2, <1>3, <1>4, <1>5 DEF AutoInv, AutoTypeOK, TypeOK, CallInv

\* What the cache gives is a token for the generation the handler has read.
LEMMA HitIsGood ==
    ASSUME AutoInv, NEW h \in Handlers, call[h].pc # "idle", Usable(h),
           Advance(h, "derive", Cached(h).tok), UNCHANGED <<vars, autoTxn>>
    PROVE  AutoInv'
<1> DEFINE e == Cached(h)
           c == [pc |-> "derive", coarse |-> call[h].coarse, gen |-> call[h].gen,
                 at |-> call[h].at, tok |-> e.tok]
<1>1. e \in Entry /\ e.gen = call[h].gen /\ call[h].at < e.exp
  BY Serving DEF Usable
<1>2. SignedFor(e.tok.key, e.gen) /\ e.exp + AutoRenew = e.tok.exp
  BY <1>1, Serving, AutoAssumption DEF AutoInv, CacheInv, Cached, Entry, Usable
<1>3. e.tok \in Token /\ e.exp \in Int /\ e.tok.exp \in Nat /\ AutoRenew \in Nat
  BY <1>1, AutoAssumption DEF Entry, Token
<1>4. c \in Call
  BY <1>3, Serving DEF Call
<1>5. call[h].at + AutoRenew < e.tok.exp
  BY <1>1, <1>2, <1>3, Serving
<1>6. TypeOK' /\ call' \in [Handlers -> Call] /\ CallInv'
  BY <1>1, <1>2, <1>4, <1>5, CallMoves, Serving DEF Advance
<1>7. CacheInv' /\ DownInv'
  BY Serving DEF AutoInv, CacheInv, DownInv, SignedFor, vars, ringVars
<1> QED  BY <1>6, <1>7 DEF AutoInv, AutoTypeOK

\* The steps of a handler.
LEMMA ServeKeeps ==
    ASSUME AutoInv, IInv, NEW h \in Handlers, Serve(h)
    PROVE  AutoInv'
<1>0. now \in Nat /\ keyGen \in Nat /\ (up => ring.cur \in Key)
  BY DEF IInv, TypeOK, KeyInv, Key, NoKey
<1>1. ASSUME NEW p \in Principals, ReadGen(h, p) PROVE AutoInv'
  <2> DEFINE c == [pc |-> "lookup", coarse |-> p, gen |-> keyGen, at |-> now, tok |-> NoToken]
  <2>1. c \in Call
    BY <1>0 DEF Call
  <2>2. c.gen <= keyGen /\ c.at <= now /\ c.pc \notin {"minted", "derive"}
    BY <1>0
  <2>3. call' = [call EXCEPT ![h] = c] /\ UNCHANGED vars
    BY <1>1 DEF ReadGen
  <2>4. TypeOK' /\ call' \in [Handlers -> Call] /\ CallInv'
    BY <1>0, <2>1, <2>2, <2>3, CallMoves
  <2>5. CacheInv' /\ DownInv'
    BY <1>1 DEF ReadGen, AutoInv, CacheInv, DownInv, SignedFor, vars, ringVars
  <2> QED  BY <1>1, <2>4, <2>5 DEF ReadGen, AutoInv, AutoTypeOK
<1>2. CASE Lookup(h)
  <2>1. CASE Usable(h) /\ Advance(h, "derive", Cached(h).tok)
    BY <1>2, <2>1, HitIsGood DEF Lookup
  <2>2. CASE Advance(h, "mint", NoToken)
    <3> DEFINE c == [pc |-> "mint", coarse |-> call[h].coarse, gen |-> call[h].gen,
                     at |-> call[h].at, tok |-> NoToken]
    <3>1. c \in Call /\ c.gen <= keyGen /\ c.at <= now
      BY <1>2, Serving DEF Lookup, Call
    <3>2. TypeOK' /\ call' \in [Handlers -> Call] /\ CallInv'
      BY <1>2, <2>2, <3>1, CallMoves DEF Lookup, Advance
    <3>3. CacheInv' /\ DownInv'
      BY <1>2, Serving DEF Lookup, AutoInv, CacheInv, DownInv, SignedFor, vars, ringVars
    <3> QED  BY <1>2, <3>2, <3>3 DEF Lookup, AutoInv, AutoTypeOK
  <2> QED  BY <1>2, <2>1, <2>2 DEF Lookup
<1>3. CASE Recheck(h)
  BY <1>3, HitIsGood DEF Recheck
<1>4. CASE Mint(h)
  <2> DEFINE t == Signed(now + DefaultTxnTTL)
             c == [pc |-> "minted", coarse |-> call[h].coarse, gen |-> call[h].gen,
                   at |-> call[h].at, tok |-> t]
  <2>1. up /\ call[h].at \in Nat /\ call[h].at <= now /\ call[h].gen <= keyGen
    BY <1>4, Serving DEF Mint
  <2>2. t \in Token /\ t.key = ring.cur /\ t.exp = now + DefaultTxnTTL
    BY <1>0, <2>1, AutoAssumption DEF Signed, Token
  <2>3. c \in Call
    BY <1>4, <2>2, Serving DEF Mint, Call
  <2>4. SignedFor(t.key, call[h].gen) /\ call[h].at + AutoRenew < t.exp
    BY <1>0, <2>1, <2>2, AutoAssumption DEF SignedFor
  <2>5. TypeOK' /\ call' \in [Handlers -> Call] /\ CallInv'
    BY <1>4, <2>1, <2>3, <2>4, CallMoves DEF Mint, Advance
  <2>6. \A p \in Principals : autoTxn'[p] \in {autoTxn[p], NoEntry}
    BY <1>4 DEF Mint
  <2>7. autoTxn' \in [Principals -> Entry \cup {NoEntry}]
    BY <1>4 DEF Mint, AutoInv, AutoTypeOK
  <2>8. CacheInv' /\ DownInv'
    BY <1>4, <2>1, <2>6 DEF Mint, AutoInv, CacheInv, DownInv, SignedFor, vars, ringVars
  <2> QED  BY <2>5, <2>7, <2>8 DEF AutoInv, AutoTypeOK
<1>5. CASE ReadBack(h)
  <2> DEFINE c == [pc |-> "derive", coarse |-> call[h].coarse, gen |-> call[h].gen,
                   at |-> call[h].at, tok |-> call[h].tok]
             e == [tok |-> call[h].tok, exp |-> call[h].tok.exp - AutoRenew,
                   gen |-> call[h].gen]
  <2>1. /\ up /\ call[h].at <= now /\ call[h].gen <= keyGen /\ call[h].tok \in Token
        /\ SignedFor(call[h].tok.key, call[h].gen)
        /\ call[h].at + AutoRenew < call[h].tok.exp
        /\ call[h].gen \in Nat
    BY <1>5, Serving DEF ReadBack
  <2>2. CASE autoTxn' = [autoTxn EXCEPT ![call[h].coarse] = e] /\ Advance(h, "derive", call[h].tok)
    <3>1. c \in Call
      BY <1>5, <2>1, Serving DEF ReadBack, Call
    <3>2. TypeOK' /\ call' \in [Handlers -> Call] /\ CallInv'
      BY <1>5, <2>1, <2>2, <3>1, CallMoves DEF ReadBack, Advance
    <3>3. e \in Entry /\ e.exp + AutoRenew = e.tok.exp
      BY <2>1, AutoAssumption DEF Entry, Token
    <3>4. \A p \in Principals : autoTxn'[p] \in {autoTxn[p], e}
      BY <2>2 DEF AutoInv, AutoTypeOK
    <3>5. autoTxn' \in [Principals -> Entry \cup {NoEntry}]
      BY <2>2, <3>3 DEF AutoInv, AutoTypeOK
    <3>6. CacheInv' /\ DownInv'
      BY <1>5, <2>1, <3>3, <3>4
         DEF ReadBack, AutoInv, CacheInv, DownInv, SignedFor, vars, ringVars
    <3> QED  BY <3>2, <3>5, <3>6 DEF AutoInv, AutoTypeOK
  <2>3. CASE call' = [call EXCEPT ![h] = Idle] /\ UNCHANGED autoTxn
    <3>1. TypeOK' /\ call' \in [Handlers -> Call] /\ CallInv'
      BY <1>5, <2>3, CallMoves DEF ReadBack, Call
    <3>2. CacheInv' /\ DownInv'
      BY <1>5, <2>1, <2>3 DEF ReadBack, AutoInv, CacheInv, DownInv, SignedFor, vars, ringVars
    <3> QED  BY <2>3, <3>1, <3>2 DEF AutoInv, AutoTypeOK
  <2> QED  BY <1>5, <2>2, <2>3 DEF ReadBack
<1>6. CASE DeriveCall(h)
  <2>1. TypeOK' /\ call' \in [Handlers -> Call] /\ CallInv'
    BY <1>6, CallMoves DEF DeriveCall, Call
  <2>2. CacheInv' /\ DownInv'
    BY <1>6, Serving DEF DeriveCall, AutoInv, CacheInv, DownInv, SignedFor, vars, ringVars
  <2> QED  BY <1>6, <2>1, <2>2 DEF DeriveCall, AutoInv, AutoTypeOK
<1> QED  BY <1>1, <1>2, <1>3, <1>4, <1>5, <1>6 DEF Serve

LEMMA StopAllKeeps == ASSUME AutoInv, IInv, StopAll PROVE AutoInv'
<1>1. TypeOK'
  BY StopKeeps DEF StopAll, IInv
<1> QED  BY <1>1 DEF StopAll, AutoInv, AutoTypeOK, CacheInv, CallInv, DownInv, Call

LEMMA AutoNextKeeps == AutoInv /\ IInv /\ [AutoNext]_autoVars => AutoInv'
<1> SUFFICES ASSUME AutoInv, IInv, [AutoNext]_autoVars PROVE AutoInv'
  OBVIOUS
<1>1. CASE UNCHANGED autoVars
  BY <1>1 DEF autoVars, gateVars, vars, ringVars, AutoInv, AutoTypeOK, TypeOK, CacheInv,
              CallInv, DownInv, SignedFor
<1>2. CASE StopAll
  BY <1>2, StopAllKeeps
<1>3. CASE (Start \/ Work) /\ UNCHANGED gateVars
  BY <1>3, KeyringStepKeeps
<1>4. ASSUME NEW h \in Handlers, Serve(h) PROVE AutoInv'
  BY <1>4, ServeKeeps
<1> QED  BY <1>1, <1>2, <1>3, <1>4 DEF AutoNext

LEMMA AutoInvariance == AutoSpec => []AutoInv
<1> QED  BY AutoInitHolds, AutoNextKeeps, Invariance, ImplementsKeyring, PTL DEF AutoSpec

\* Cache and calls keep their types (cmd/gurdy-proxy/main.go, autoTok and autoMint).
THEOREM AutoTypeCorrect == AutoSpec => []AutoTypeOK
<1>1. AutoInv => AutoTypeOK
  BY DEF AutoInv
<1> QED  BY <1>1, AutoInvariance, PTL

\* For every margin below the lifetime of a token: what autoMint hands out verifies
\* as long as the handler is not held up beyond the margin and the ring has moved at
\* most once since it read the generation.
THEOREM CachedTokensVerify == AutoSpec => []AutoTokenVerifies
<1>1. AutoInv => AutoTokenVerifies
  <2> SUFFICES ASSUME AutoInv, NEW h \in Handlers, call[h].pc = "derive",
                      now - call[h].at <= AutoRenew, keyGen - call[h].gen <= 1
               PROVE  Verifies(call[h].tok)
    BY DEF AutoTokenVerifies
  <2>1. /\ now \in Nat /\ keyGen \in Nat /\ call[h].gen \in Nat /\ call[h].at \in Nat
        /\ call[h].tok \in Token /\ SignedFor(call[h].tok.key, call[h].gen)
        /\ call[h].at + AutoRenew < call[h].tok.exp
    BY Serving
  <2>2. now < call[h].tok.exp
    BY <2>1, AutoAssumption DEF Token
  <2>3. call[h].tok.key \in {ring.cur, ring.prev} /\ call[h].tok.key # NoKey
    BY <2>1 DEF SignedFor, Token, Key
  <2> QED  BY <2>2, <2>3 DEF Verifies, RingKeys
<1> QED  BY <1>1, AutoInvariance, PTL

\* An entry of the present generation is signed with the signing key.
THEOREM FreshEntriesAreCurrent == AutoSpec => []FreshEntryOutlivesRotation
<1>1. AutoInv => FreshEntryOutlivesRotation
  BY DEF AutoInv, CacheInv, SignedFor, FreshEntryOutlivesRotation
<1> QED  BY <1>1, AutoInvariance, PTL

\* What is proved of the keyring alone holds in the gateway.
THEOREM ComposedKeyring ==
    AutoSpec => /\ [](OutstandingVerify /\ RestartKeepsTokens /\ MemoryFollowsDisk)
                /\ RetiredNeverReturns
<1> QED
  BY ImplementsKeyring, TimerInvalidatesNothing, KillLosesNoToken, RingIsOnDisk,
     RetiredStayRetired, PTL
=============================================================================

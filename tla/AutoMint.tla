------------------------------- MODULE AutoMint -------------------------------
(***************************************************************************)
(* The gateway's cache of auto-minted tokens, composed with the keyring    *)
(* that signs them. A call without a token of its own is given one per     *)
(* coarse principal: from the cache while it is fresh, else minted under   *)
(* the write lock (cmd/gurdy-proxy/main.go, identify and autoMint).        *)
(***************************************************************************)
EXTENDS Keyring

CONSTANTS
  Handlers,        \* goroutines that serve a call
  Principals,
  DefaultTxnTTL,
  AutoRenew,       \* how long before its expiry a token leaves the cache
  NoEntry, NoToken

\* A cached token is good for a while: 15 minutes, given up one minute early.
ASSUME AutoAssumption ==
  /\ {DefaultTxnTTL, AutoRenew} \subseteq Nat
  /\ AutoRenew < DefaultTxnTTL
  /\ NoEntry \notin [tok : Token, exp : Int, gen : Nat]
  /\ NoToken \notin Token

VARIABLES
  autoTxn,  \* the cache: [tok, exp, gen] per principal
  call      \* per handler: where it is, its principal, and what autoMint has read

gateVars == <<autoTxn, call>>
autoVars == <<vars, gateVars>>

Entry == [tok : Token, exp : Int, gen : Nat]
Idle == [pc |-> "idle"]
Call == {Idle}
  \cup [pc : {"lookup", "mint"}, coarse : Principals, gen : Nat, at : Nat, tok : {NoToken}]
  \cup [pc : {"minted", "derive"}, coarse : Principals, gen : Nat, at : Nat, tok : Token]

Writing == \E h \in Handlers : call[h].pc = "minted"
Cached(h) == autoTxn[call[h].coarse]

\* Mutant of Usable: the expiry is all that counts.
UsableByAge(h) ==
  /\ Cached(h) # NoEntry
  /\ call[h].at < Cached(h).exp

Usable(h) ==
  /\ Cached(h) # NoEntry
  /\ Cached(h).gen = call[h].gen
  /\ call[h].at < Cached(h).exp

Advance(h, pc, tok) ==
  call' = [call EXCEPT ![h] = [pc |-> pc, coarse |-> call[h].coarse, gen |-> call[h].gen,
                               at |-> call[h].at, tok |-> tok]]

-----------------------------------------------------------------------------
AutoInit ==
  /\ Init
  /\ autoTxn = [p \in Principals |-> NoEntry]
  /\ call = [h \in Handlers |-> Idle]

\* autoMint reads the clock, then the generation, which takes no lock.
ReadGen(h, p) ==
  /\ up
  /\ call[h].pc = "idle"
  /\ call' = [call EXCEPT ![h] = [pc |-> "lookup", coarse |-> p, gen |-> keyGen,
                                  at |-> now, tok |-> NoToken]]
  /\ UNCHANGED <<vars, autoTxn>>

\* The fast path, under the read lock.
Lookup(h) ==
  /\ call[h].pc = "lookup"
  /\ ~Writing
  /\ \/ Usable(h) /\ Advance(h, "derive", Cached(h).tok)
     \/ ~Usable(h) /\ Advance(h, "mint", NoToken)
  /\ UNCHANGED <<vars, autoTxn>>

\* The check is made again under the write lock.
Recheck(h) ==
  /\ call[h].pc = "mint"
  /\ ~Writing
  /\ Usable(h)
  /\ Advance(h, "derive", Cached(h).tok)
  /\ UNCHANGED <<vars, autoTxn>>

\* Expired entries are swept and a token is signed; the write lock is kept.
Mint(h) ==
  /\ call[h].pc = "mint"
  /\ ~Writing
  /\ ~Usable(h)
  /\ autoTxn' = [p \in Principals |->
       IF autoTxn[p] # NoEntry /\ autoTxn[p].exp <= call[h].at THEN NoEntry
       ELSE autoTxn[p]]
  /\ ~Locked
  /\ Advance(h, "minted", Signed(now + DefaultTxnTTL))
  /\ UNCHANGED vars

\* Mutant of ReadBack: the entry gets the generation of now, not of the mint.
ReadBackLate(h) ==
  /\ call[h].pc = "minted"
  /\ ~Locked
  /\ \/ /\ Verifies(call[h].tok)
        /\ autoTxn' = [autoTxn EXCEPT ![call[h].coarse] =
             [tok |-> call[h].tok, exp |-> call[h].tok.exp - AutoRenew, gen |-> keyGen]]
        /\ Advance(h, "derive", call[h].tok)
     \/ /\ ~Verifies(call[h].tok)
        /\ call' = [call EXCEPT ![h] = Idle]
        /\ UNCHANGED autoTxn
  /\ UNCHANGED vars

\* The expiry is read back from the token; one that does not verify is not cached,
\* and the call goes without.
ReadBack(h) ==
  /\ call[h].pc = "minted"
  /\ ~Locked
  /\ \/ /\ Verifies(call[h].tok)
        /\ autoTxn' = [autoTxn EXCEPT ![call[h].coarse] =
             [tok |-> call[h].tok, exp |-> call[h].tok.exp - AutoRenew,
              gen |-> call[h].gen]]
        /\ Advance(h, "derive", call[h].tok)
     \/ /\ ~Verifies(call[h].tok)
        /\ call' = [call EXCEPT ![h] = Idle]
        /\ UNCHANGED autoTxn
  /\ UNCHANGED vars

\* DeriveCall of what autoMint returned. Whether or not it verifies (the latter is
\* a coverage gap, RecordIdentityGap) the call goes on, and keeps nothing of it.
DeriveCall(h) ==
  /\ call[h].pc = "derive"
  /\ ~Locked
  /\ call' = [call EXCEPT ![h] = Idle]
  /\ UNCHANGED <<vars, autoTxn>>

\* Cache and calls go with the process.
StopAll ==
  /\ Stop
  /\ autoTxn' = [p \in Principals |-> NoEntry]
  /\ call' = [h \in Handlers |-> Idle]

Serve(h) ==
  \/ \E p \in Principals : ReadGen(h, p)
  \/ Lookup(h)
  \/ Recheck(h)
  \/ Mint(h)
  \/ ReadBack(h)
  \/ DeriveCall(h)

AutoNext ==
  \/ StopAll
  \/ (Start \/ Work) /\ UNCHANGED gateVars
  \/ \E h \in Handlers : Serve(h)

AutoSpec == AutoInit /\ [][AutoNext]_autoVars

-----------------------------------------------------------------------------
AutoTypeOK ==
  /\ TypeOK
  /\ autoTxn \in [Principals -> Entry \cup {NoEntry}]
  /\ call \in [Handlers -> Call]

\* What autoMint hands out can be derived from, unless the handler was held up for
\* longer than the renewal margin or two rotations came after it read the
\* generation: "renewing one minute early ... removes the window entirely", and
\* the generation in the entry keeps a key's tokens from outliving it.
AutoTokenVerifies ==
  \A h \in Handlers :
    /\ call[h].pc = "derive"
    /\ now - call[h].at <= AutoRenew
    /\ keyGen - call[h].gen <= 1
    => Verifies(call[h].tok)

\* An entry that counts as fresh was signed by a key that will still verify after
\* the next rotation: the reason the entry carries the generation at all.
FreshEntryOutlivesRotation ==
  \A p \in Principals :
    /\ autoTxn[p] # NoEntry
    /\ autoTxn[p].gen = keyGen
    => autoTxn[p].tok.key = ring.cur
=============================================================================
